---------------------------- MODULE InodeTable ----------------------------
(***************************************************************************)
(* The filesystem: libfs (table.rs, init.rs, lib.rs) and the startup task  *)
(* init_floppyfs of kernel/src/floppy/floppyfs.rs, over a disk that keeps  *)
(* its contents when the machine restarts at any point.                    *)
(*                                                                         *)
(* An inode is free (zero links) or has an identity and a list of encoded  *)
(* pairs of block pointers. The disk is a header and blocks of             *)
(* NODS_PER_BLOCK inodes: the table takes the first of them, file data the *)
(* rest.                                                                   *)
(***************************************************************************)
EXTENDS FsCodecs, FiniteSetsExt

CONSTANTS
    INODES,          \* slots of the table (140)
    NODS_PER_BLOCK,  \* inodes in a block (4)
    Files,           \* the files it may hold to begin with: lists of pairs of pointers
    Images,          \* and the inode tables with them
    Releases,        \* the dates its header may bear, [day, year]
    Good,            \* the date in GOOD_FS_HEADER
    MaxAllocs,       \* bound on allocations
    MaxRestarts      \* bound on restarts

ASSUME TableConstants ==
    /\ INODES \in Nat \ {0} /\ NODS_PER_BLOCK \in Nat \ {0}
    /\ INODES % NODS_PER_BLOCK = 0
    /\ MaxAllocs \in Nat /\ MaxRestarts \in Nat

INODE_START == 1
TableBlocks == INODES \div NODS_PER_BLOCK

Nod(id, blocks) == [id |-> id, blocks |-> blocks]
Zeroed          == Nod(0, <<>>)
is_available(n) == n.id = 0

\* Inodes of the files that were there before; new ones get numbers behind theirs.
NEW_ID == 10
FileNod(f) == Nod(f, [i \in DOMAIN Files[f] |-> encode(Files[f][i][1], Files[f][i][2])])

Pointer == 0..(MAX_VAL - 1)

ASSUME ImageConstants ==
    /\ Files \in Seq(Seq(Pointer \X Pointer)) /\ Len(Files) < NEW_ID
    /\ Images \subseteq [1..INODES -> {Zeroed} \cup {FileNod(f) : f \in DOMAIN Files}]

\* The pointers of an inode in the order in which read_table meets them; the set of
\* those that are not null.
Places(n)     == 1..(2 * Len(n.blocks))
ptr_at(n, p)  == decode(n.blocks[(p + 1) \div 2])[2 - (p % 2)]
PtrsTo(n, p)  == {ptr \in {ptr_at(n, q) : q \in 1..p} : is_valid(ptr)}
Ptrs(n)       == PtrsTo(n, 2 * Len(n.blocks))

GoodRelease == FsRelease(Good.day, Good.year)

VARIABLES
    magic,          \* the header's magic number is right
    release,        \* the header's release
    disk,           \* the inodes stored in each block after the header
    INODE_TBL,      \* the cached table, slot 1 being index 0
    BLOCK_BMP,      \* the used blocks
    FLOPPYFS_INIT,
    pc,
    at, active_nods,  \* read_table: the next inode of the buffer, those kept so far
    warned,         \* history: the filesystem was found newer than the kernel
    ours,           \* history: the table on disk was written by this system
    created,        \* history: inodes whose allocation returned Ok
    returned,       \* history: the pointer the last alloc_inode returned
    given,          \* history: blocks handed out since the last start
    allocs, restarts

mem  == <<INODE_TBL, BLOCK_BMP>>
scan == <<at, active_nods>>
hist == <<release, warned, ours, created, returned, given, allocs, restarts>>
vars == <<magic, disk, INODE_TBL, BLOCK_BMP, FLOPPYFS_INIT, pc, at, active_nods,
          release, warned, ours, created, returned, given, allocs, restarts>>

EmptyTable == [i \in 1..INODES |-> Zeroed]

\* A table of INODES inodes cut into blocks; the blocks behind it hold no inode.
Blocks(tbl) ==
    [b \in 1..INODES |->
        IF b > TableBlocks THEN [i \in 1..NODS_PER_BLOCK |-> Zeroed]
        ELSE [i \in 1..NODS_PER_BLOCK |-> tbl[(b - 1) * NODS_PER_BLOCK + i]]]

Stored == [i \in 1..INODES |->
    disk[((i - 1) \div NODS_PER_BLOCK) + 1][((i - 1) % NODS_PER_BLOCK) + 1]]

Init ==
    /\ magic \in BOOLEAN /\ ours = magic
    /\ disk \in {Blocks(t) : t \in Images}
    /\ release \in {FsRelease(d.day, d.year) : d \in Releases} /\ warned = FALSE
    /\ INODE_TBL = EmptyTable /\ BLOCK_BMP = {}
    /\ FLOPPYFS_INIT = FALSE /\ pc = "header" /\ at = 1 /\ active_nods = 0
    /\ created = {} /\ returned = Zeroed.id /\ given = {}
    /\ allocs = 0 /\ restarts = 0

----------------------------------------------------------------------------
(* init_floppyfs *)

Failed == pc' = "failed"

\* Read the header; without the magic number the user is asked.
ReadHeader ==
    /\ pc = "header"
    /\ \/ Failed /\ UNCHANGED warned
       \/ pc' = "ask" /\ ~magic /\ UNCHANGED warned
       \/ pc' = "table" /\ magic /\ warned' = newer(release, GoodRelease)
    /\ UNCHANGED <<magic, disk, mem, FLOPPYFS_INIT, scan, release, ours, created,
                   returned, given, allocs, restarts>>

Answer ==
    /\ pc = "ask"
    /\ Failed \/ pc' = "format"
    /\ UNCHANGED <<magic, disk, mem, FLOPPYFS_INIT, scan, hist>>

\* reformat_drive writes the header, then the table; either write may fail.
FormatHeader ==
    /\ pc = "format"
    /\ \/ magic' = TRUE /\ release' = GoodRelease /\ pc' = "clear"
       \/ UNCHANGED <<magic, release>> /\ Failed
    /\ UNCHANGED <<disk, mem, FLOPPYFS_INIT, scan, warned, ours, created, returned,
                   given, allocs, restarts>>

FormatTable ==
    /\ pc = "clear"
    /\ \E cleared \in 0..TableBlocks :
           /\ disk' = [b \in DOMAIN disk |-> IF b <= cleared
                         THEN [i \in 1..NODS_PER_BLOCK |-> Zeroed] ELSE disk[b]]
           /\ \/ Failed /\ UNCHANGED ours
              \/ cleared = TableBlocks /\ pc' = "table" /\ ours' = TRUE
    /\ UNCHANGED <<magic, mem, FLOPPYFS_INIT, scan, release, warned, created,
                   returned, given, allocs, restarts>>

\* read_table: the whole table is read into a buffer, or the drive cannot be read.
TableFetch ==
    /\ pc = "table"
    /\ Failed \/ pc' = "scan"
    /\ at' = 1 /\ active_nods' = 0
    /\ UNCHANGED <<magic, disk, mem, FLOPPYFS_INIT, hist>>

\* The loop is at the first inode from at on that is not available.
Scanning(i) ==
    /\ pc = "scan" /\ i \in at..INODES /\ ~is_available(Stored[i])
    /\ \A j \in at..(i - 1) : is_available(Stored[j])

\* alloc_bmp refuses the pointer at p: its block is marked, for an inode before or
\* for this one.
Refused(n, p) ==
    is_valid(ptr_at(n, p)) /\ ptr_at(n, p) \in BLOCK_BMP \cup PtrsTo(n, p - 1)

\* Active inodes move to the front of the cached table.
Keep(n) == INODE_TBL' = [INODE_TBL EXCEPT ![active_nods + 1] = n]

\* Mutant: a block that is in use already is not an error.
ScanNodAnyway(i) ==
    /\ Scanning(i)
    /\ Keep(Stored[i]) /\ BLOCK_BMP' = BLOCK_BMP \cup Ptrs(Stored[i])
    /\ active_nods' = active_nods + 1 /\ at' = i + 1
    /\ UNCHANGED <<magic, disk, FLOPPYFS_INIT, pc, hist>>

\* Mutant: the bitmap is not filled in.
ScanNodNoBitmap(i) ==
    /\ Scanning(i)
    /\ \A p \in Places(Stored[i]) : ~Refused(Stored[i], p)
    /\ Keep(Stored[i])
    /\ active_nods' = active_nods + 1 /\ at' = i + 1
    /\ UNCHANGED <<BLOCK_BMP, magic, disk, FLOPPYFS_INIT, pc, hist>>

\* Mutant: the inodes are numbered before those that are available are skipped.
ScanNodInPlace(i) ==
    /\ Scanning(i)
    /\ \A p \in Places(Stored[i]) : ~Refused(Stored[i], p)
    /\ INODE_TBL' = [INODE_TBL EXCEPT ![i] = Stored[i]]
    /\ BLOCK_BMP' = BLOCK_BMP \cup Ptrs(Stored[i])
    /\ active_nods' = active_nods + 1 /\ at' = i + 1
    /\ UNCHANGED <<magic, disk, FLOPPYFS_INIT, pc, hist>>

ScanNod(i) ==
    /\ Scanning(i)
    /\ \A p \in Places(Stored[i]) : ~Refused(Stored[i], p)
    /\ Keep(Stored[i]) /\ BLOCK_BMP' = BLOCK_BMP \cup Ptrs(Stored[i])
    /\ active_nods' = active_nods + 1 /\ at' = i + 1
    /\ UNCHANGED <<magic, disk, FLOPPYFS_INIT, pc, hist>>

\* A block used twice ends read_table half-way.
ScanClash(i) ==
    /\ Scanning(i) /\ Failed
    /\ \E p \in Places(Stored[i]) :
           /\ Refused(Stored[i], p) /\ \A q \in 1..(p - 1) : ~Refused(Stored[i], q)
           /\ BLOCK_BMP' = BLOCK_BMP \cup PtrsTo(Stored[i], p - 1)
    /\ Keep(Stored[i])
    /\ UNCHANGED <<magic, disk, FLOPPYFS_INIT, scan, hist>>

ScanDone ==
    /\ pc = "scan" /\ \A i \in at..INODES : is_available(Stored[i])
    /\ pc' = "mounted" /\ FLOPPYFS_INIT' = TRUE
    /\ UNCHANGED <<magic, disk, mem, scan, hist>>

read_table ==
    TableFetch \/ ScanDone \/ \E i \in 1..INODES : ScanNod(i) \/ ScanClash(i)

init_floppyfs == ReadHeader \/ Answer \/ FormatHeader \/ FormatTable \/ read_table

----------------------------------------------------------------------------
(* table.rs *)

FreeSlots == {i \in 1..INODES : is_available(INODE_TBL[i])}

\* write_inode_block for the inode at idx: the inodes from idx on go to a block
\* that is found by rounding idx, not dividing it.
WriteBlock(idx) == idx - (idx % NODS_PER_BLOCK) + INODE_START
WriteBuf(tbl, idx) == [i \in 1..NODS_PER_BLOCK |-> tbl[idx + i]]

NewNod == Nod(NEW_ID + allocs, <<>>)

\* The index that alloc_inode takes, counted from 0.
alloc_slot == Min(FreeSlots) - 1

\* alloc_inode: the cached table first, then the block on the disk. The slice of
\* NODS_PER_BLOCK slots from idx on ends the kernel when there are fewer.
alloc_inode ==
    /\ pc = "mounted" /\ FreeSlots # {} /\ allocs < MaxAllocs
    /\ allocs' = allocs + 1
    /\ LET idx == alloc_slot
           tbl == [INODE_TBL EXCEPT ![idx + 1] = NewNod]
       IN  /\ INODE_TBL' = tbl
           /\ \/ /\ idx + NODS_PER_BLOCK > INODES
                 /\ pc' = "panic" /\ UNCHANGED <<disk, created, returned>>
              \/ /\ idx + NODS_PER_BLOCK <= INODES
                 /\ disk' = [disk EXCEPT ![WriteBlock(idx)] = WriteBuf(tbl, idx)]
                 /\ created' = created \cup {NewNod}
                 /\ returned' = idx
                 /\ UNCHANGED pc
              \/ \* the write failed: the cached inode stays
                 /\ idx + NODS_PER_BLOCK <= INODES
                 /\ UNCHANGED <<disk, created, returned, pc>>
    /\ UNCHANGED <<magic, BLOCK_BMP, FLOPPYFS_INIT, scan, release, warned, ours,
                   given, restarts>>

free_blocks == (1..(MAX_VAL - 1)) \ BLOCK_BMP

\* alloc_next_bmp: the first block alloc_bmp accepts; a null pointer if none.
alloc_next_bmp ==
    /\ pc = "mounted" /\ free_blocks # {} /\ allocs < MaxAllocs
    /\ allocs' = allocs + 1
    /\ LET b == Min(free_blocks) IN
         /\ BLOCK_BMP' = BLOCK_BMP \cup {b}
         /\ given' = given \cup {<<b, allocs>>}
    /\ UNCHANGED <<magic, disk, INODE_TBL, FLOPPYFS_INIT, pc, scan, release, warned,
                   ours, created, returned, restarts>>

\* Power is lost, or the user restarts: the statics start over.
Restart ==
    /\ restarts < MaxRestarts /\ restarts' = restarts + 1
    /\ pc' = "header" /\ FLOPPYFS_INIT' = FALSE /\ at' = 1 /\ active_nods' = 0
    /\ INODE_TBL' = EmptyTable /\ BLOCK_BMP' = {} /\ given' = {}
    /\ warned' = FALSE
    /\ UNCHANGED <<magic, disk, release, ours, created, returned, allocs>>

----------------------------------------------------------------------------

Next == init_floppyfs \/ alloc_inode \/ alloc_next_bmp \/ Restart

Spec == Init /\ [][Next]_vars

----------------------------------------------------------------------------
(* Properties. *)

\* The cached table and the bitmap keep their types, and the bitmap holds only
\* pointers that it has a bit for.
TypeOK ==
    /\ magic \in BOOLEAN /\ FLOPPYFS_INIT \in BOOLEAN /\ ours \in BOOLEAN
    /\ DOMAIN INODE_TBL = 1..INODES
    /\ \A b \in DOMAIN disk : DOMAIN disk[b] = 1..NODS_PER_BLOCK
    /\ BLOCK_BMP \subseteq 1..(MAX_VAL - 1)
    /\ pc \in {"header", "ask", "format", "clear", "table", "scan", "mounted",
               "failed", "panic"}

\* In a mounted filesystem every block has at most one user: a pointer of an inode,
\* or whoever alloc_next_bmp gave it to. Restarts, tables on disk that share blocks
\* and earlier allocations notwithstanding (init.rs:68-74, table.rs:51).
OneUserPerBlock ==
    pc = "mounted" =>
        /\ \A i, j \in 1..INODES :
             \A p \in Places(INODE_TBL[i]), q \in Places(INODE_TBL[j]) :
                /\ is_valid(ptr_at(INODE_TBL[i], p))
                /\ ptr_at(INODE_TBL[i], p) = ptr_at(INODE_TBL[j], q)
                => i = j /\ p = q
        /\ \A g, h \in given : g[1] = h[1] => g = h
        /\ \A g \in given, i \in 1..INODES : g[1] \notin Ptrs(INODE_TBL[i])

\* The bitmap is exact: a block is marked if and only if an inode of the cached
\* table or a caller of alloc_next_bmp uses it, so none leaks.
BitmapExact ==
    pc = "mounted" =>
        BLOCK_BMP = (UNION {Ptrs(INODE_TBL[i]) : i \in 1..INODES})
                      \cup {g[1] : g \in given}

\* What DualBlockPtr::encode was given is what the kernel finds: a mounted inode
\* has the pointers its file had, in order (lib.rs:253-269).
PointersSurvive ==
    pc = "mounted" =>
        \A i \in 1..INODES :
            INODE_TBL[i].id \in DOMAIN Files =>
                [k \in DOMAIN INODE_TBL[i].blocks |-> decode(INODE_TBL[i].blocks[k])]
                    = Files[INODE_TBL[i].id]

\* The number of inodes in use among the first i of the table on the disk.
Rank(i) == Cardinality({j \in 1..i : ~is_available(Stored[j])})

\* Every inode in use on the disk is in the cached table, at its place among them,
\* and no other: since two of them have different places none is there twice.
Compacted ==
    /\ \A i \in 1..INODES :
           ~is_available(Stored[i]) => INODE_TBL[Rank(i)] = Stored[i]
    /\ \A k \in (Rank(INODES) + 1)..INODES : is_available(INODE_TBL[k])

\* read_table loses, repeats and reorders no inode while it moves those in use to
\* the front of the table (init.rs:61-65): a filesystem that is mounted, for the
\* first time or after restarts, allocations and a block written to the wrong place,
\* starts from the inodes of its disk.
MountKeepsInodes ==
    [][pc # "mounted" /\ pc' = "mounted" => Compacted']_vars

\* "Reformats the drive with a zeroed out inode table" (init.rs:37): a drive that
\* was reformatted mounts empty.
FormattedIsEmpty ==
    [][pc = "clear" /\ pc' = "table" => \A i \in 1..INODES :
          is_available(Stored'[i])]_vars

\* A kernel notices a filesystem that is newer than itself, by the calendar and not
\* by the bits ("Filesystem has newer release than kernel", floppyfs.rs:128), also
\* after a format has given it the kernel's own release.
NewerNoticed ==
    pc = "mounted" =>
        (warned <=> \E d \in Releases :
            /\ FsRelease(d.day, d.year) = release
            /\ \/ d.year > Good.year
               \/ d.year = Good.year /\ d.day > Good.day)

\* "Memory cached inode table written to disk on write." (table.rs:30): an inode
\* whose allocation returned Ok is in the table on the disk.
AllocPersists == created \subseteq Range(Stored)

\* "Tries to allocate inode `nod` in `tbl`, returning a pointer to it."
\* (table.rs:96): the pointer is not null and its table index is the inode's.
ReturnsPointer ==
    [][created' # created =>
         returned' > 0 /\ INODE_TBL'[returned'] = NewNod]_vars

\* "The number of USABLE inodes in the inode table." (lib.rs:70): allocating
\* a free inode never ends the kernel.
EveryInodeUsable == pc # "panic"

\* "Check that the fs is formatted" (floppyfs.rs:114): a table that passes the
\* check of the magic number was written by this system.
MagicMeansFormatted == pc = "table" => ours

=============================================================================
