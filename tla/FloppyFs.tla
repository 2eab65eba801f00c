----------------------------- MODULE FloppyFs -----------------------------
(***************************************************************************)
(* Reading and writing runs of sectors: floppyfs::read and write split a   *)
(* run at track boundaries, disk::read and write of                        *)
(* kernel/src/floppy/disk.rs check and place each part (lba_to_chs).       *)
(*                                                                         *)
(* The image is what the disk holds, by logical sector. Each part either   *)
(* works or fails (see FloppyController for how it may fail).              *)
(***************************************************************************)
EXTENDS Integers, FiniteSetsExt

CONSTANTS
    SECTORS, HEADS, CYLINDERS, \* 18, 2, 80
    SECTOR_SIZE,               \* 512 bytes
    U8, U16,                   \* 2^8 and 2^16: the types of CHS and of ptr
    Requests,                  \* the calls to make: [op, block, n], n sectors
    MaxCalls                   \* bound on the calls of a behaviour

ASSUME GeometryConstants ==
    /\ SECTORS \in Nat \ {0} /\ HEADS \in Nat \ {0} /\ CYLINDERS \in Nat \ {0}
    /\ SECTOR_SIZE \in Nat \ {0} /\ U8 \in Nat \ {0} /\ U16 \in Nat \ {0}
    /\ MaxCalls \in Nat

CYL_BOUNDARY == SECTORS * SECTOR_SIZE
Capacity     == CYLINDERS * HEADS * SECTORS
Image        == 0..(Capacity - 1)

VARIABLES
    FLOPPY_INIT,
    image,       \* contents of every sector: its own number until written
    before,      \* history: the image when the call began
    req,         \* the request being served
    buf,         \* the caller's buffer, sector by sector
    off,         \* sectors transferred so far
    idx,         \* parts transferred so far
    pc,          \* "idle", "run", "ok" or "err"
    hwFailed,    \* history: the hardware failed a part of this call
    calls        \* history: calls made

vars == <<FLOPPY_INIT, image, before, req, buf, off, idx, pc, hwFailed, calls>>

NoRequest == [op |-> "none", block |-> 0, n |-> 0]

\* What the buffer of a call holds: nothing for a read, the data of a write.
Data(i) == Capacity + i
Blank   == -1
Buffer(r) == [i \in 0..(r.n - 1) |-> IF r.op = "write" THEN Data(i) ELSE Blank]

Init ==
    /\ FLOPPY_INIT = TRUE
    /\ image = [s \in Image |-> s] /\ before = image
    /\ req = NoRequest /\ buf = Buffer(NoRequest)
    /\ off = 0 /\ idx = 0 /\ pc = "idle" /\ hwFailed = FALSE /\ calls = 0

----------------------------------------------------------------------------
(* disk.rs *)

\* Mutant: sectors counted from zero.
lba_to_chs_from_zero(lba) ==
    [head |-> ((lba % (HEADS * SECTORS)) \div SECTORS) % U8,
     cyl  |-> (lba \div (SECTORS * HEADS)) % U8,
     sect |-> ((lba % (SECTORS * HEADS)) % SECTORS) % U8]

lba_to_chs(lba) ==
    [head |-> ((lba % (HEADS * SECTORS)) \div SECTORS) % U8,
     cyl  |-> (lba \div (SECTORS * HEADS)) % U8,
     sect |-> (((lba % (SECTORS * HEADS)) % SECTORS) + 1) % U8]

\* Where the controller finds a sector, as a logical number.
Place(chs, i) == (chs.cyl * HEADS + chs.head) * SECTORS + chs.sect - 1 + i

\* The checks of send_read_write; ptr is truncated to a u16 by its caller.
Accepted(lba, len) ==
    LET start == lba_to_chs(lba % U16)
        end   == lba_to_chs(((lba % U16) + len - 1) % U16)
    IN  /\ end.cyl < CYLINDERS
        /\ start.sect \in 1..SECTORS
        /\ start.head = end.head /\ start.cyl = end.cyl

\* A part whose transfer passed moves its sectors between buffer and image.
Moved(lba, len) ==
    LET Sector(i) == Place(lba_to_chs(lba % U16), i)
    IN  \/ /\ req.op = "read"
           /\ buf' = [i \in DOMAIN buf |-> IF i \in off..(off + len - 1)
                                           THEN image[Sector(i - off)] ELSE buf[i]]
           /\ UNCHANGED image
        \/ /\ req.op = "write"
           /\ image' = [s \in Image |->
                  IF \E i \in 0..(len - 1) : s = Sector(i)
                  THEN buf[off + (CHOOSE i \in 0..(len - 1) : s = Sector(i))]
                  ELSE image[s]]
           /\ UNCHANGED buf

\* disk::read or disk::write of one part; an empty one is a success.
PartDone(lba, len) ==
    /\ len = 0 \/ (FLOPPY_INIT /\ Accepted(lba, len))
    /\ IF len = 0 THEN UNCHANGED <<buf, image>> ELSE Moved(lba, len)
    /\ UNCHANGED <<FLOPPY_INIT, hwFailed>>

\* The driver is off, or the request is refused: send_read_write fails on every
\* retry, which disables the driver.
PartRefused(lba, len) ==
    /\ len > 0 /\ ~(FLOPPY_INIT /\ Accepted(lba, len))
    /\ FLOPPY_INIT' = FALSE
    /\ UNCHANGED <<buf, image, hwFailed>>

\* The hardware fails; sectors of the part may have been transferred.
PartFails(lba, len) ==
    /\ len > 0 /\ FLOPPY_INIT /\ Accepted(lba, len)
    /\ \E k \in 0..len :
           IF k = 0 THEN UNCHANGED <<buf, image>> ELSE Moved(lba, k)
    /\ FLOPPY_INIT' \in BOOLEAN
    /\ hwFailed' = TRUE

----------------------------------------------------------------------------
(* floppyfs.rs *)

\* The first part ends at the first track boundary; beyond the first track the
\* subtraction wraps to a number larger than any buffer.
FirstLen ==
    IF req.block > SECTORS THEN req.n ELSE Min({SECTORS - req.block, req.n})

LaterLen == Min({SECTORS, req.n - off})

\* Mutant: the second part follows a whole track after the first.
LaterBlockUnaligned == req.block + (idx - 1) * SECTORS + SECTORS

\* Mutant: read counts its parts in bytes.
LaterBlockBytes == SECTORS + (idx - 1) * CYL_BOUNDARY

\* Later parts start at the second track; read advances by sectors, write by the
\* bytes of a track.
LaterBlock ==
    IF req.op = "read" THEN SECTORS + (idx - 1) * SECTORS
    ELSE SECTORS + (idx - 1) * CYL_BOUNDARY

Len == IF idx = 0 THEN FirstLen ELSE LaterLen
Block == IF idx = 0 THEN req.block ELSE LaterBlock

Call(r) ==
    /\ pc # "run" /\ calls < MaxCalls
    /\ req' = r /\ buf' = Buffer(r) /\ before' = image
    /\ off' = 0 /\ idx' = 0 /\ pc' = "run" /\ hwFailed' = FALSE
    /\ calls' = calls + 1
    /\ UNCHANGED <<FLOPPY_INIT, image>>

More == pc = "run" /\ (idx = 0 \/ off < req.n)

Part ==
    /\ More /\ PartDone(Block, Len)
    /\ off' = off + Len /\ idx' = idx + 1
    /\ UNCHANGED <<before, req, pc, calls>>

\* A part that fails is returned with ?.
Fail ==
    /\ More /\ (PartRefused(Block, Len) \/ PartFails(Block, Len))
    /\ pc' = "err"
    /\ UNCHANGED <<before, req, off, idx, calls>>

Return ==
    /\ pc = "run" /\ ~More
    /\ pc' = "ok"
    /\ UNCHANGED <<FLOPPY_INIT, image, before, req, buf, off, idx, hwFailed,
                   calls>>

read_write == Part \/ Fail \/ Return

Next == read_write \/ \E r \in Requests : Call(r)

Spec == Init /\ [][Next]_vars

\* The main thread runs on.
FairSpec == Spec /\ WF_vars(read_write)

----------------------------------------------------------------------------
(* Properties. *)

Wanted  == {s \in Image : s \in req.block..(req.block + req.n - 1)}
InRange == req.block + req.n <= Capacity

\* Every variable keeps its type; a call never transfers more than its buffer.
TypeOK ==
    /\ FLOPPY_INIT \in BOOLEAN /\ hwFailed \in BOOLEAN
    /\ DOMAIN image = Image /\ DOMAIN buf = 0..(req.n - 1)
    /\ req \in Requests \cup {NoRequest}
    /\ off \in 0..req.n /\ idx \in Nat
    /\ pc \in {"idle", "run", "ok", "err"} /\ calls \in 0..MaxCalls

\* A read that returned Ok filled the buffer with exactly the requested sectors,
\* across any number of tracks and after any writes (floppyfs.rs:84).
ReadFaithful ==
    pc = "ok" /\ req.op = "read" =>
        \A i \in 0..(req.n - 1) :
            req.block + i \in Image /\ buf[i] = image[req.block + i]

\* "allows writing over cylinder boundaries" (floppyfs.rs:63): a write that
\* returned Ok put the whole buffer where it belongs.
WriteFaithful ==
    pc = "ok" /\ req.op = "write" =>
        \A i \in 0..(req.n - 1) :
            req.block + i \in Image /\ image[req.block + i] = Data(i)

\* Whether a call works or fails half-way, no sector outside its request changes.
OthersUntouched ==
    \A s \in Image \ Wanted : image[s] = before[s]

\* Every call returns.
CallsReturn == pc = "run" ~> pc # "run"

\* "allows reading over cylinder boundaries" (floppyfs.rs:82): a run of existing
\* sectors is not refused by a driver that works.
ServedAcrossTracks == pc = "err" /\ InRange => hwFailed

\* What is left of it: a run that starts on the first track, or lies on one track,
\* fails only if the hardware does or the driver was disabled before
\* (floppyfs.rs:64-101).
OneTrack == req.block \div SECTORS = (req.block + req.n - 1) \div SECTORS
ServedFromFirstTrack ==
    [][pc = "run" /\ pc' = "err" /\ FLOPPY_INIT /\ InRange
         /\ (req.block <= SECTORS \/ OneTrack) => hwFailed']_vars

\* "Attempted reading or writing past the end of the drive." (disk.rs:368): such
\* a call never returns Ok.
PastEndRefused == pc = "ok" => InRange

=============================================================================
