-------------------------- MODULE FloppyFsProofs --------------------------
(***************************************************************************)
(* Runs of sectors, for every geometry of the drive that fits the bytes of *)
(* a CHS address.                                                          *)
(*                                                                         *)
(* The heart is arithmetic: within the widths of its integers lba_to_chs   *)
(* is inverted by the controller, so a part of a run lands on the sectors  *)
(* it names. Above it, the parts of a run follow each other: while sectors *)
(* are left, every part but the first starts on a track boundary.          *)
(***************************************************************************)
EXTENDS FloppyFs, TLAPS

\* The geometry fits the u8 fields of Chs: sectors are counted from 1.
FitsBytes == SECTORS < U8 /\ HEADS <= U8

\* Sector numbers that neither the cylinder's byte nor the u16 of disk.rs cuts.
Reach == {l \in Nat : l < SECTORS * HEADS * U8 /\ l < U16}

\* A run that the theorems speak of: below the reach, and a write from the first
\* track of at most two parts (floppyfs::write misplaces a third one).
Fits(r) ==
    /\ r.op \in {"read", "write"} /\ r.block \in Nat /\ r.n \in Nat
    /\ \A i \in 0..(r.n - 1) : r.block + i \in Reach
    /\ r.op = "write" /\ r.block <= SECTORS => r.block + r.n <= 2 * SECTORS

RunsFit == FitsBytes /\ \A r \in Requests : Fits(r)

----------------------------------------------------------------------------
(* Arithmetic. *)

\* Division with remainder.
LEMMA DivMod ==
    ASSUME NEW a \in Nat, NEW b \in Nat \ {0}
    PROVE  /\ a \div b \in Nat /\ (a % b) \in Nat /\ (a % b) < b
           /\ a = b * (a \div b) + (a % b)
<1>1. a \div b \in Nat
  OBVIOUS
<1>2. (a % b) \in Nat /\ (a % b) < b
  OBVIOUS
<1>3. a = b * (a \div b) + (a % b)
  OBVIOUS
<1> QED
  BY <1>1, <1>2, <1>3

\* Multiplication is monotonic.
LEMMA Monotonic ==
    ASSUME NEW b \in Nat, NEW c \in Nat, NEW d \in Nat, c <= d
    PROVE  b * c <= b * d
OBVIOUS

\* The quotient of a number below a multiple of the divisor.
LEMMA DivBound ==
    ASSUME NEW a \in Nat, NEW b \in Nat \ {0}, NEW c \in Nat, a < b * c
    PROVE  a \div b < c
<1>1. a \div b \in Nat /\ (a % b) \in Nat /\ a = b * (a \div b) + (a % b)
  BY DivMod
<1>2. ASSUME c <= a \div b PROVE FALSE
  <2>1. b * c <= b * (a \div b)
    BY <1>1, <1>2, Monotonic
  <2>2. b * c \in Nat /\ b * (a \div b) \in Nat
    BY <1>1
  <2> QED
    BY <1>1, <2>1, <2>2
<1> QED
  BY <1>1, <1>2

\* A number below the modulus.
LEMMA SmallMod ==
    ASSUME NEW a \in Nat, NEW b \in Nat \ {0}, a < b
    PROVE  (a % b) = a
OBVIOUS

\* Products of positive numbers.
LEMMA Product ==
    ASSUME NEW a \in Nat \ {0}, NEW b \in Nat \ {0}
    PROVE  a * b \in Nat \ {0} /\ a * b = b * a
OBVIOUS

\* From a sector number to its cylinder, head and sector, and back.
LEMMA ChsInverse ==
    ASSUME FitsBytes, NEW l \in Reach
    PROVE  LET c == lba_to_chs(l)
           IN  /\ c.cyl \in Nat /\ c.head \in 0..(HEADS - 1) /\ c.sect \in 1..SECTORS
               /\ (c.cyl * HEADS + c.head) * SECTORS + c.sect - 1 = l
<1> DEFINE T == SECTORS * HEADS
           q == l \div T
           r == l % T
           h == r \div SECTORS
           t == r % SECTORS
<1>1. /\ SECTORS \in Nat \ {0} /\ HEADS \in Nat \ {0} /\ U8 \in Nat \ {0}
      /\ l \in Nat /\ l < SECTORS * HEADS * U8
  BY GeometryConstants DEF Reach
<1>2. T \in Nat \ {0} /\ HEADS * SECTORS = T
  BY <1>1, Product
<1> HIDE DEF T
<1>3. q \in Nat /\ r \in Nat /\ r < T /\ l = T * q + r
  BY <1>1, <1>2, DivMod
<1>4. q < U8
  BY <1>1, <1>2, DivBound DEF T
<1> HIDE DEF q, r
<1>5. h \in Nat /\ t \in Nat /\ t < SECTORS /\ r = SECTORS * h + t
  BY <1>1, <1>3, DivMod
<1>6. h < HEADS
  BY <1>1, <1>3, DivBound DEF T
<1> HIDE DEF h, t
<1>7. (q % U8) = q /\ (h % U8) = h /\ ((t + 1) % U8) = t + 1
  <2>1. h < U8 /\ t + 1 \in Nat /\ t + 1 < U8
    BY <1>1, <1>5, <1>6 DEF FitsBytes
  <2> QED
    BY <1>1, <1>3, <1>4, <1>5, <2>1, SmallMod
<1>8. lba_to_chs(l) = [head |-> h, cyl |-> q, sect |-> t + 1]
  BY <1>2, <1>7 DEF lba_to_chs, T, q, r, h, t
<1>9. (q * HEADS + h) * SECTORS + (t + 1) - 1 = l
  <2>1. (q * HEADS + h) * SECTORS + (t + 1) - 1 =
          (SECTORS * HEADS) * q + (SECTORS * h + t)
    BY <1>1, <1>3, <1>5
  <2> QED
    BY <1>3, <1>5, <2>1 DEF T
<1> QED
  BY <1>1, <1>3, <1>5, <1>6, <1>8, <1>9

\* A sector on a cylinder of the drive is one of the image.
LEMMA ChsInImage ==
    ASSUME FitsBytes, NEW l \in Reach, lba_to_chs(l).cyl < CYLINDERS
    PROVE  l \in Image
<1> DEFINE c == lba_to_chs(l)
           m == c.cyl * HEADS + c.head
           M == CYLINDERS * HEADS
<1>1. /\ SECTORS \in Nat \ {0} /\ HEADS \in Nat \ {0} /\ CYLINDERS \in Nat \ {0}
      /\ l \in Nat
  BY GeometryConstants DEF Reach
<1>2. /\ c.cyl \in Nat /\ c.head \in 0..(HEADS - 1) /\ c.sect \in 1..SECTORS
      /\ m * SECTORS + c.sect - 1 = l
  BY ChsInverse
<1>3. c.cyl < CYLINDERS
  OBVIOUS
<1> HIDE DEF c
<1>4. m \in Nat /\ M \in Nat /\ m + 1 <= M
  <2>1. HEADS * (c.cyl + 1) <= HEADS * CYLINDERS
    BY <1>1, <1>2, <1>3, Monotonic
  <2>2. HEADS * (c.cyl + 1) = c.cyl * HEADS + HEADS /\ HEADS * CYLINDERS = M
    BY <1>1, <1>2
  <2>3. c.cyl * HEADS \in Nat /\ M \in Nat
    BY <1>1, <1>2
  <2> QED
    BY <1>1, <1>2, <2>1, <2>2, <2>3
<1> HIDE DEF m, M
<1>5. SECTORS * (m + 1) <= SECTORS * M
  BY <1>1, <1>4, Monotonic
<1>6. /\ SECTORS * (m + 1) = m * SECTORS + SECTORS /\ m * SECTORS \in Nat
      /\ SECTORS * M = M * SECTORS /\ M * SECTORS \in Nat
  BY <1>1, <1>4
<1>7. l < M * SECTORS
  BY <1>1, <1>2, <1>5, <1>6
<1>8. Capacity = M * SECTORS
  BY DEF Capacity, M
<1> QED
  BY <1>1, <1>6, <1>7, <1>8 DEF Image

\* An accepted part lies where its sector numbers say, within the image.
LEMMA PartPlace ==
    ASSUME FitsBytes, NEW lba \in Nat, NEW len \in Nat \ {0},
           \A i \in 0..(len - 1) : lba + i \in Reach, Accepted(lba, len)
    PROVE  \A i \in 0..(len - 1) :
              Place(lba_to_chs(lba % U16), i) = lba + i /\ lba + i \in Image
<1>1. lba \in Reach /\ lba + len - 1 \in Reach
  <2>1. 0 \in 0..(len - 1) /\ len - 1 \in 0..(len - 1)
    OBVIOUS
  <2>2. lba + 0 \in Reach /\ lba + (len - 1) \in Reach
    BY <2>1
  <2> QED
    BY <2>2
<1>2. U16 \in Nat \ {0} /\ lba < U16 /\ lba + len - 1 < U16 /\ lba + len - 1 \in Nat
  BY <1>1, GeometryConstants DEF Reach
<1>3. (lba % U16) = lba /\ ((lba + len - 1) % U16) = lba + len - 1
  BY <1>2, SmallMod
<1>4. lba_to_chs(lba + len - 1).cyl < CYLINDERS
  BY <1>3 DEF Accepted
<1>5. lba + len - 1 \in Image
  BY <1>1, <1>4, ChsInImage
<1>6. Capacity \in Int /\ lba + len - 1 <= Capacity - 1
  BY <1>5, GeometryConstants DEF Image, Capacity
<1>7. \A i \in 0..(len - 1) : lba + i \in Image
  BY <1>6 DEF Image
<1> DEFINE c == lba_to_chs(lba)
<1>8. /\ c.cyl \in Nat /\ c.head \in 0..(HEADS - 1) /\ c.sect \in 1..SECTORS
      /\ (c.cyl * HEADS + c.head) * SECTORS + c.sect - 1 = lba
  BY <1>1, ChsInverse
<1> HIDE DEF c
<1>9. (c.cyl * HEADS + c.head) * SECTORS \in Int
  BY <1>8, GeometryConstants
<1>10. \A i \in 0..(len - 1) : Place(c, i) = lba + i
  BY <1>8, <1>9, GeometryConstants DEF Place
<1> QED
  BY <1>3, <1>7, <1>10 DEF c

\* The smaller of two numbers, as min of the code has it.
LEMMA MinOfTwo ==
    ASSUME NEW a \in Int, NEW b \in Int
    PROVE  Min({a, b}) = IF a <= b THEN a ELSE b
<1>1. \E x \in {a, b} : \A y \in {a, b} : x <= y
  OBVIOUS
<1>2. Min({a, b}) \in {a, b} /\ \A y \in {a, b} : Min({a, b}) <= y
  BY <1>1, Zenon DEF Min
<1> QED
  BY <1>2

----------------------------------------------------------------------------
(* The parts of a run. *)

Typed ==
    /\ req \in Requests \/ (req = NoRequest /\ pc = "idle")
    /\ DOMAIN buf = 0..(req.n - 1)
    /\ off \in Nat /\ off <= req.n /\ idx \in Nat
    /\ pc \in {"idle", "run", "ok", "err"}

\* Between two parts: nothing has been done, or a track boundary was reached, or
\* the run is complete.
AtBoundary ==
    /\ pc = "run" /\ idx = 0 => off = 0
    /\ pc = "run" /\ idx # 0 /\ off < req.n =>
         req.block <= SECTORS /\ req.block + off = SECTORS * idx
    /\ pc = "ok" => off = req.n

\* What has been read so far.
Filled ==
    pc \in {"run", "ok"} /\ req.op = "read" =>
        \A i \in 0..(off - 1) :
            req.block + i \in Image /\ buf[i] = image[req.block + i]

\* What has been written so far.
Stored ==
    pc \in {"run", "ok"} /\ req.op = "write" =>
        /\ \A i \in 0..(req.n - 1) : buf[i] = Data(i)
        /\ \A i \in 0..(off - 1) :
              req.block + i \in Image /\ image[req.block + i] = Data(i)

IInv == Typed /\ AtBoundary /\ Filled /\ Stored /\ OthersUntouched

\* No call has been made yet.
LEMMA InitIInv == Init => IInv
<1> SUFFICES ASSUME Init PROVE IInv
  OBVIOUS
<1>1. /\ req = NoRequest /\ req.n = 0 /\ req.op = "none" /\ pc = "idle" /\ off = 0
      /\ idx = 0 /\ before = image /\ buf = Buffer(NoRequest)
  BY DEF Init, NoRequest
<1>2. DOMAIN buf = 0..(req.n - 1)
  BY <1>1 DEF Buffer, NoRequest
<1> QED
  BY <1>1, <1>2 DEF IInv, Typed, AtBoundary, Filled, Stored, OthersUntouched

\* The next part continues where the last one ended, and ends on a track boundary
\* or with the run.
LEMMA NextPart ==
    ASSUME IInv, RunsFit, More
    PROVE  /\ Len \in Nat /\ off + Len <= req.n
           /\ Len # 0 => Block = req.block + off
           /\ off + Len < req.n =>
                req.block <= SECTORS /\ req.block + (off + Len) = SECTORS * (idx + 1)
<1>1. req \in Requests /\ Fits(req) /\ pc = "run"
  BY DEF IInv, Typed, RunsFit, More
<1>2. /\ req.block \in Nat /\ req.n \in Nat /\ req.op \in {"read", "write"}
      /\ off \in Nat /\ off <= req.n /\ idx \in Nat /\ SECTORS \in Nat \ {0}
  BY <1>1, GeometryConstants DEF IInv, Typed, Fits
<1>3. CASE idx = 0
  <2>1. off = 0 /\ Len = FirstLen /\ Block = req.block
    BY <1>1, <1>3 DEF IInv, AtBoundary, Len, Block
  <2>2. SECTORS * (idx + 1) = SECTORS
    BY <1>2, <1>3
  <2>3. CASE req.block > SECTORS
    BY <1>2, <2>1, <2>3 DEF FirstLen
  <2>4. CASE ~(req.block > SECTORS)
    <3>1. FirstLen = IF SECTORS - req.block <= req.n THEN SECTORS - req.block
                     ELSE req.n
      BY <1>2, <2>4, MinOfTwo DEF FirstLen
    <3> QED
      BY <1>2, <2>1, <2>2, <2>4, <3>1
  <2> QED
    BY <2>3, <2>4
<1>4. CASE idx # 0
  <2>1. off < req.n
    BY <1>4 DEF More
  <2>2. req.block <= SECTORS /\ req.block + off = SECTORS * idx
    BY <1>1, <1>4, <2>1 DEF IInv, AtBoundary
  <2>3. Len = IF SECTORS <= req.n - off THEN SECTORS ELSE req.n - off
    BY <1>2, <1>4, MinOfTwo DEF Len, LaterLen
  <2>4. SECTORS * (idx + 1) = SECTORS * idx + SECTORS /\ SECTORS * idx \in Nat
    BY <1>2
  <2>5. Block = req.block + off
    <3>1. CASE req.op = "read"
      <4>1. Block = SECTORS + (idx - 1) * SECTORS
        BY <1>4, <3>1 DEF Block, LaterBlock
      <4>2. SECTORS + (idx - 1) * SECTORS = SECTORS * idx
        BY <1>2
      <4> QED
        BY <2>2, <4>1, <4>2
    <3>2. CASE req.op = "write"
      <4>1. req.block + req.n <= 2 * SECTORS
        BY <1>1, <2>2, <3>2 DEF Fits
      <4>2. ASSUME 2 <= idx PROVE FALSE
        <5>1. SECTORS * 2 <= SECTORS * idx
          BY <1>2, <4>2, Monotonic
        <5> QED
          BY <1>2, <2>1, <2>2, <2>4, <4>1, <5>1
      <4>3. idx = 1
        BY <1>2, <1>4, <4>2
      <4>4. Block = SECTORS + (1 - 1) * CYL_BOUNDARY
        BY <3>2, <4>3 DEF Block, LaterBlock
      <4>5. CYL_BOUNDARY \in Nat
        BY GeometryConstants DEF CYL_BOUNDARY
      <4>6. Block = SECTORS /\ SECTORS * idx = SECTORS
        BY <1>2, <4>3, <4>4, <4>5
      <4> QED
        BY <2>2, <4>6
    <3> QED
      BY <1>2, <3>1, <3>2
  <2> QED
    BY <1>2, <2>1, <2>2, <2>3, <2>4, <2>5
<1> QED
  BY <1>3, <1>4

\* An accepted part of a run lies on the sectors the run asks for.
LEMMA PartWithin ==
    ASSUME IInv, RunsFit, More, Len # 0, Accepted(Block, Len)
    PROVE  \A i \in 0..(Len - 1) :
              /\ Place(lba_to_chs(Block % U16), i) = req.block + (off + i)
              /\ req.block + (off + i) \in Image
<1>1. /\ Fits(req) /\ req.block \in Nat /\ req.n \in Nat /\ off \in Nat
  BY DEF IInv, Typed, RunsFit, More, Fits
<1>2. Len \in Nat /\ off + Len <= req.n /\ Block = req.block + off
  BY NextPart
<1>3. ASSUME NEW i \in 0..(Len - 1) PROVE Block + i \in Reach
  <2>1. off + i \in 0..(req.n - 1) /\ Block + i = req.block + (off + i)
    BY <1>1, <1>2
  <2> QED
    BY <1>1, <2>1 DEF Fits
<1>4. Block \in Nat /\ Len \in Nat \ {0} /\ FitsBytes
  BY <1>1, <1>2 DEF RunsFit
<1>5. \A i \in 0..(Len - 1) :
        Place(lba_to_chs(Block % U16), i) = Block + i /\ Block + i \in Image
  BY <1>3, <1>4, PartPlace
<1>6. \A i \in 0..(Len - 1) : Block + i = req.block + (off + i)
  BY <1>1, <1>2
<1> QED
  BY <1>5, <1>6

\* What the transfer of the first k sectors of a part does.
LEMMA PartMoved ==
    ASSUME IInv, RunsFit, More, Len # 0, Accepted(Block, Len),
           NEW k \in 1..Len, Moved(Block, k)
    PROVE  \/ /\ req.op = "read" /\ image' = image
              /\ DOMAIN buf' = DOMAIN buf
              /\ \A i \in DOMAIN buf :
                   buf'[i] = IF i \in off..(off + k - 1) THEN image[req.block + i]
                             ELSE buf[i]
           \/ /\ req.op = "write" /\ buf' = buf
              /\ \A s \in Image :
                   image'[s] = IF s \in (req.block + off)..(req.block + off + k - 1)
                               THEN buf[s - req.block] ELSE image[s]
<1> DEFINE Sector(i) == Place(lba_to_chs(Block % U16), i)
<1>1. /\ req.block \in Nat /\ req.n \in Nat /\ off \in Nat
  BY DEF IInv, Typed, RunsFit, More, Fits
<1>2. Len \in Nat
  BY NextPart
<1>3. \A i \in 0..(Len - 1) : Sector(i) = req.block + (off + i)
  BY PartWithin
<1>4. \A i \in 0..(k - 1) : i \in 0..(Len - 1)
  BY <1>2
<1>5. \A i \in 0..(k - 1) : Sector(i) = req.block + (off + i)
  BY <1>3, <1>4
<1>6. CASE /\ req.op = "read"
           /\ buf' = [i \in DOMAIN buf |-> IF i \in off..(off + k - 1)
                                           THEN image[Sector(i - off)] ELSE buf[i]]
           /\ UNCHANGED image
  <2>1. ASSUME NEW i \in off..(off + k - 1) PROVE Sector(i - off) = req.block + i
    <3>1. i - off \in 0..(k - 1) /\ req.block + (off + (i - off)) = req.block + i
      BY <1>1
    <3> QED
      BY <1>5, <3>1
  <2> HIDE DEF Sector
  <2> QED
    BY <1>6, <2>1
<1>7. CASE /\ req.op = "write"
           /\ image' = [s \in Image |->
                  IF \E i \in 0..(k - 1) : s = Sector(i)
                  THEN buf[off + (CHOOSE i \in 0..(k - 1) : s = Sector(i))]
                  ELSE image[s]]
           /\ UNCHANGED buf
  <2> HIDE DEF Sector
  <2> SUFFICES ASSUME NEW s \in Image
               PROVE  image'[s] = IF s \in (req.block + off)..(req.block + off + k - 1)
                                  THEN buf[s - req.block] ELSE image[s]
    BY <1>7
  <2>0. s \in Int
    BY DEF Image
  <2>1. CASE s \in (req.block + off)..(req.block + off + k - 1)
    <3> DEFINE j == s - req.block - off
               c == CHOOSE i \in 0..(k - 1) : s = Sector(i)
    <3>1. j \in 0..(k - 1) /\ req.block + (off + j) = s
      BY <1>1, <2>0, <2>1
    <3>2. \E i \in 0..(k - 1) : s = Sector(i)
      BY <1>5, <3>1
    <3>3. c \in 0..(k - 1) /\ s = Sector(c)
      BY <3>2
    <3>4. off + c = s - req.block
      <4> HIDE DEF c
      <4>1. s = req.block + (off + c)
        BY <1>5, <3>3
      <4> QED
        BY <1>1, <2>0, <3>3, <4>1
    <3> QED
      BY <1>7, <2>1, <3>2, <3>4
  <2>2. CASE s \notin (req.block + off)..(req.block + off + k - 1)
    <3>1. ASSUME NEW i \in 0..(k - 1), s = Sector(i) PROVE FALSE
      <4>1. s = req.block + (off + i)
        BY <1>5, <3>1
      <4> QED
        BY <1>1, <2>0, <2>2, <4>1
    <3> QED
      BY <1>7, <2>2, <3>1
  <2> QED
    BY <2>1, <2>2
<1> QED
  BY <1>6, <1>7 DEF Moved

\* A part, whole or broken off, stays within the request.
LEMMA OthersKept ==
    ASSUME IInv, RunsFit, More, Len # 0, Accepted(Block, Len),
           NEW k \in 1..Len, Moved(Block, k), before' = before, req' = req
    PROVE  OthersUntouched'
<1>1. /\ req.block \in Nat /\ req.n \in Nat /\ off \in Nat
  BY DEF IInv, Typed, RunsFit, More, Fits
<1>2. Len \in Nat /\ off + Len <= req.n
  BY NextPart
<1>3. \A s \in Image \ Wanted : s \notin (req.block + off)..(req.block + off + k - 1)
  <2>1. \A s \in Int : s \in (req.block + off)..(req.block + off + k - 1) =>
                       s \in req.block..(req.block + req.n - 1)
    BY <1>1, <1>2
  <2>2. \A s \in Image : s \in Int
    BY DEF Image
  <2> QED
    BY <2>1, <2>2 DEF Wanted
<1>4. \A s \in Image \ Wanted : image'[s] = image[s]
  BY <1>3, PartMoved
<1>5. Wanted' = Wanted
  BY DEF Wanted
<1> QED
  BY <1>4, <1>5 DEF IInv, OthersUntouched

\* A part that worked.
LEMMA PartIInv ==
    ASSUME IInv, RunsFit, Part
    PROVE  IInv'
<1>1. /\ More /\ PartDone(Block, Len) /\ off' = off + Len /\ idx' = idx + 1
      /\ before' = before /\ req' = req /\ pc' = pc /\ pc = "run"
  BY DEF Part, More
<1>2. /\ req \in Requests /\ req.block \in Nat /\ req.n \in Nat
      /\ off \in Nat /\ idx \in Nat /\ req.op \in {"read", "write"} /\ DOMAIN buf = 0..(req.n - 1)
  BY <1>1 DEF IInv, Typed, RunsFit, Fits
<1>3. /\ Len \in Nat /\ off + Len <= req.n
      /\ off + Len < req.n =>
                req.block <= SECTORS /\ req.block + (off + Len) = SECTORS * (idx + 1)
  BY <1>1, NextPart
<1>4. AtBoundary'
  BY <1>1, <1>2, <1>3 DEF AtBoundary
<1>5. CASE Len = 0
  <2>1. buf' = buf /\ image' = image /\ off' = off
    BY <1>1, <1>2, <1>5 DEF PartDone
  <2>2. Typed' /\ Filled' /\ Stored' /\ OthersUntouched'
    BY <1>1, <1>2, <2>1 DEF IInv, Typed, Filled, Stored, OthersUntouched, Wanted
  <2> QED
    BY <1>4, <2>2 DEF IInv
<1>6. CASE Len # 0
  <2>1. Accepted(Block, Len) /\ Moved(Block, Len) /\ Len \in 1..Len
    BY <1>1, <1>3, <1>6 DEF PartDone
  <2>2. OthersUntouched'
    BY <1>1, <1>6, <2>1, OthersKept
  <2>3. \A i \in 0..(Len - 1) : req.block + (off + i) \in Image
    BY <1>1, <1>6, <2>1, PartWithin
  <2>4. ASSUME NEW i \in 0..(off + Len - 1), i >= off
        PROVE  req.block + i \in Image /\ i \in off..(off + Len - 1)
    <3>1. i - off \in 0..(Len - 1) /\ off + (i - off) = i
      BY <1>2, <1>3, <2>4
    <3>2. req.block + (off + (i - off)) \in Image
      BY <2>3, <3>1
    <3>3. i \in off..(off + Len - 1)
      BY <1>2, <1>3, <2>4
    <3> QED
      BY <3>1, <3>2, <3>3
  <2>5. CASE req.op = "read"
    <3>1. /\ image' = image /\ DOMAIN buf' = DOMAIN buf
          /\ \A i \in DOMAIN buf :
               buf'[i] = IF i \in off..(off + Len - 1) THEN image[req.block + i]
                         ELSE buf[i]
      BY <1>1, <1>6, <2>1, <2>5, PartMoved
    <3>2. ASSUME NEW i \in 0..(off + Len - 1)
          PROVE  req.block + i \in Image /\ buf'[i] = image[req.block + i]
      <4>1. i \in DOMAIN buf
        BY <1>2, <1>3
      <4>2. CASE i >= off
        BY <2>4, <3>1, <4>1, <4>2
      <4>3. CASE ~(i >= off)
        <5>1. i \in 0..(off - 1) /\ i \notin off..(off + Len - 1)
          BY <1>2, <1>3, <4>3
        <5>2. req.block + i \in Image /\ buf[i] = image[req.block + i]
          BY <1>1, <2>5, <5>1 DEF IInv, Filled
        <5> QED
          BY <3>1, <4>1, <5>1, <5>2
      <4> QED
        BY <4>2, <4>3
    <3>3. Filled'
      <4>1. \A i \in 0..(off' - 1) : /\ req'.block + i \in Image
                                     /\ buf'[i] = image'[req'.block + i]
        BY <1>1, <1>2, <1>3, <3>1, <3>2
      <4> QED
        BY <4>1, Zenon DEF Filled
    <3>4. Stored' /\ Typed'
      BY <1>1, <1>2, <1>3, <2>5, <3>1 DEF Stored, Typed
    <3> QED
      BY <1>4, <2>2, <3>3, <3>4 DEF IInv
  <2>6. CASE req.op = "write"
    <3>1. /\ buf' = buf
          /\ \A s \in Image :
               image'[s] = IF s \in (req.block + off)..(req.block + off + Len - 1)
                           THEN buf[s - req.block] ELSE image[s]
      BY <1>1, <1>6, <2>1, <2>6, PartMoved
    <3>2. \A i \in 0..(req.n - 1) : buf[i] = Data(i)
      BY <1>1, <2>6 DEF IInv, Stored
    <3>3. ASSUME NEW i \in 0..(off + Len - 1)
          PROVE  req.block + i \in Image /\ image'[req.block + i] = Data(i)
      <4>1. i \in 0..(req.n - 1) /\ (req.block + i) - req.block = i
        BY <1>2, <1>3
      <4>2. CASE i >= off
        <5>1. req.block + i \in (req.block + off)..(req.block + off + Len - 1)
          BY <1>2, <1>3, <4>2
        <5> QED
          BY <2>4, <3>1, <3>2, <4>1, <4>2, <5>1
      <4>3. CASE ~(i >= off)
        <5>1. /\ i \in 0..(off - 1)
              /\ req.block + i \notin (req.block + off)..(req.block + off + Len - 1)
          BY <1>2, <1>3, <4>3
        <5>2. req.block + i \in Image /\ image[req.block + i] = Data(i)
          BY <1>1, <2>6, <5>1 DEF IInv, Stored
        <5> QED
          BY <3>1, <5>1, <5>2
      <4> QED
        BY <4>2, <4>3
    <3>4. Stored'
      <4>1. \A i \in 0..(off' - 1) : /\ req'.block + i \in Image
                                     /\ image'[req'.block + i] = Data(i)
        BY <1>1, <1>2, <1>3, <3>3
      <4>2. \A i \in 0..(req'.n - 1) : buf'[i] = Data(i)
        BY <1>1, <3>1, <3>2
      <4> QED
        BY <4>1, <4>2, Zenon DEF Stored, Data
    <3>5. Filled' /\ Typed'
      BY <1>1, <1>2, <1>3, <2>6, <3>1 DEF Filled, Typed
    <3> QED
      BY <1>4, <2>2, <3>4, <3>5 DEF IInv
  <2> QED
    BY <1>2, <2>5, <2>6
<1> QED
  BY <1>5, <1>6

\* A part that was refused or broke off ends the call.
LEMMA FailIInv ==
    ASSUME IInv, RunsFit, Fail
    PROVE  IInv'
<1>1. /\ More /\ (PartRefused(Block, Len) \/ PartFails(Block, Len))
      /\ before' = before /\ req' = req /\ pc' = "err" /\ off' = off /\ idx' = idx
      /\ req \in Requests
  BY DEF Fail, More, IInv, Typed
<1>2. AtBoundary' /\ Filled' /\ Stored'
  BY <1>1 DEF AtBoundary, Filled, Stored
<1>3. CASE buf' = buf /\ image' = image
  BY <1>1, <1>2, <1>3 DEF IInv, Typed, OthersUntouched, Wanted
<1>4. ASSUME NEW k \in 0..Len, k # 0, PartFails(Block, Len), Moved(Block, k)
      PROVE  IInv'
  <2>0. Len \in Nat
    BY <1>1, NextPart
  <2>1. Len # 0 /\ Accepted(Block, Len) /\ k \in 1..Len
    BY <1>4, <2>0 DEF PartFails
  <2>2. OthersUntouched'
    BY <1>1, <1>4, <2>1, OthersKept
  <2>3. DOMAIN buf' = DOMAIN buf
    BY <1>1, <1>4, <2>1, PartMoved
  <2>4. Typed'
    BY <1>1, <2>3 DEF IInv, Typed
  <2> QED
    BY <1>2, <2>2, <2>4 DEF IInv
<1>5. CASE PartRefused(Block, Len)
  BY <1>3, <1>5 DEF PartRefused
<1>6. CASE PartFails(Block, Len)
  <2>1. PICK k \in 0..Len :
           IF k = 0 THEN UNCHANGED <<buf, image>> ELSE Moved(Block, k)
    BY <1>6 DEF PartFails
  <2> QED
    BY <1>3, <1>4, <1>6, <2>1
<1> QED
  BY <1>1, <1>5, <1>6

\* Every step of a run keeps the invariant.
LEMMA NextIInv ==
    ASSUME RunsFit
    PROVE  IInv /\ [Next]_vars => IInv'
<1> SUFFICES ASSUME IInv, [Next]_vars PROVE IInv'
  OBVIOUS
<1>1. CASE Part
  BY <1>1, PartIInv
<1>2. CASE Fail
  BY <1>2, FailIInv
<1>3. CASE Return
  <2>1. /\ pc = "run" /\ pc' = "ok" /\ ~More
        /\ UNCHANGED <<image, before, req, buf, off, idx>>
    BY <1>3 DEF Return
  <2>2. req \in Requests /\ req.n \in Nat /\ off \in Nat /\ off <= req.n
    BY <2>1 DEF IInv, Typed, RunsFit, Fits
  <2>3. off = req.n
    BY <2>1, <2>2 DEF More
  <2>4. AtBoundary'
    BY <2>1, <2>3 DEF AtBoundary
  <2>5. Typed' /\ Filled' /\ Stored' /\ OthersUntouched'
    BY <2>1, <2>2 DEF IInv, Typed, Filled, Stored, OthersUntouched, Wanted
  <2> QED
    BY <2>4, <2>5 DEF IInv
<1>4. ASSUME NEW r \in Requests, Call(r)
      PROVE  IInv'
  <2>1. /\ req' = r /\ buf' = Buffer(r) /\ before' = image /\ image' = image
        /\ off' = 0 /\ idx' = 0 /\ pc' = "run"
    BY <1>4 DEF Call
  <2>2. r.n \in Nat
    BY DEF RunsFit, Fits
  <2>3. /\ DOMAIN Buffer(r) = 0..(r.n - 1)
        /\ r.op = "write" => \A i \in 0..(r.n - 1) : Buffer(r)[i] = Data(i)
    BY DEF Buffer
  <2>4. Typed'
    BY <2>1, <2>2, <2>3 DEF Typed
  <2>5. AtBoundary' /\ Filled'
    BY <2>1 DEF AtBoundary, Filled
  <2>6. Stored'
    BY <2>1, <2>3 DEF Stored, Data
  <2>7. OthersUntouched'
    BY <2>1 DEF OthersUntouched
  <2> QED
    BY <2>4, <2>5, <2>6, <2>7 DEF IInv
<1>5. CASE UNCHANGED vars
  BY <1>5 DEF vars, IInv, Typed, AtBoundary, Filled, Stored, OthersUntouched, Wanted,
              Data
<1> QED
  BY <1>1, <1>2, <1>3, <1>4, <1>5 DEF Next, read_write

----------------------------------------------------------------------------
(* Theorems. *)

\* Between the parts of a run, what floppyfs.rs has moved is what it should have,
\* and the rest of the run starts on a track boundary.
THEOREM Invariance == ASSUME RunsFit PROVE Spec => []IInv
BY InitIInv, NextIInv, PTL DEF Spec

\* A read that returned Ok holds the requested sectors, for every geometry and for
\* runs over any number of tracks (floppyfs.rs, read; disk.rs, lba_to_chs).
THEOREM ReadsFaithful == ASSUME RunsFit PROVE Spec => []ReadFaithful
<1>1. IInv => ReadFaithful
  BY DEF IInv, AtBoundary, Filled, ReadFaithful
<1> QED
  BY <1>1, Invariance, PTL

\* A write of up to two parts that returned Ok has stored its buffer
\* (floppyfs.rs, write).
THEOREM WritesFaithful == ASSUME RunsFit PROVE Spec => []WriteFaithful
<1>1. IInv => WriteFaithful
  BY DEF IInv, AtBoundary, Stored, WriteFaithful
<1> QED
  BY <1>1, Invariance, PTL

\* No call, and no part that fails half-way, changes a sector outside its request.
THEOREM OthersKeptUntouched == ASSUME RunsFit PROVE Spec => []OthersUntouched
<1>1. IInv => OthersUntouched
  BY DEF IInv
<1> QED
  BY <1>1, Invariance, PTL

----------------------------------------------------------------------------
(* What is not refused. *)

\* A number is put together from its quotient and remainder in one way.
LEMMA DivUnique ==
    ASSUME NEW b \in Nat \ {0}, NEW q \in Nat, NEW d \in Nat,
           NEW r \in 0..(b - 1), NEW m \in 0..(b - 1), b * q + r = b * d + m
    PROVE  q = d /\ r = m
<1>1. b * q \in Nat /\ b * d \in Nat
  OBVIOUS
<1>2. ASSUME d < q PROVE FALSE
  <2>1. b * (d + 1) <= b * q
    BY <1>2, Monotonic
  <2>2. b * (d + 1) = b * d + b
    OBVIOUS
  <2> QED
    BY <1>1, <2>1, <2>2
<1>3. ASSUME q < d PROVE FALSE
  <2>1. b * (q + 1) <= b * d
    BY <1>3, Monotonic
  <2>2. b * (q + 1) = b * q + b
    OBVIOUS
  <2> QED
    BY <1>1, <2>1, <2>2
<1>4. q = d
  BY <1>2, <1>3
<1> QED
  BY <1>1, <1>4

\* The sectors of a track have its cylinder and its head.
LEMMA ChsOfTrack ==
    ASSUME FitsBytes, NEW t \in Nat, NEW a \in 0..(SECTORS - 1), SECTORS * t + a \in Reach
    PROVE  LET c == lba_to_chs(SECTORS * t + a)
           IN  /\ c.cyl \in Nat /\ c.head \in 0..(HEADS - 1) /\ c.sect \in 1..SECTORS
               /\ t = HEADS * c.cyl + c.head
<1> DEFINE c == lba_to_chs(SECTORS * t + a)
           m == c.cyl * HEADS + c.head
<1>1. SECTORS \in Nat \ {0} /\ HEADS \in Nat \ {0}
  BY GeometryConstants
<1>2. /\ c.cyl \in Nat /\ c.head \in 0..(HEADS - 1) /\ c.sect \in 1..SECTORS
      /\ m * SECTORS + c.sect - 1 = SECTORS * t + a
  BY ChsInverse
<1> HIDE DEF c
<1>3. m \in Nat /\ m = HEADS * c.cyl + c.head
  BY <1>1, <1>2
<1> HIDE DEF m
<1>4. m * SECTORS = SECTORS * m /\ SECTORS * m \in Nat /\ SECTORS * t \in Nat
  BY <1>1, <1>3
<1>5. c.sect - 1 \in 0..(SECTORS - 1) /\ SECTORS * m + (c.sect - 1) = SECTORS * t + a
  BY <1>1, <1>2, <1>4
<1>6. m = t
  BY <1>1, <1>3, <1>5, DivUnique
<1> QED
  BY <1>2, <1>3, <1>6 DEF c

\* A sector of the drive lies on one of its cylinders.
LEMMA CylinderExists ==
    ASSUME FitsBytes, NEW l \in Reach, l < Capacity
    PROVE  lba_to_chs(l).cyl < CYLINDERS
<1> DEFINE c == lba_to_chs(l)
           T == HEADS * SECTORS
<1>1. /\ SECTORS \in Nat \ {0} /\ HEADS \in Nat \ {0} /\ CYLINDERS \in Nat \ {0}
      /\ T \in Nat /\ l \in Nat
  BY GeometryConstants DEF Reach
<1>2. /\ c.cyl \in Nat /\ c.head \in 0..(HEADS - 1) /\ c.sect \in 1..SECTORS
      /\ (c.cyl * HEADS + c.head) * SECTORS + c.sect - 1 = l
  BY ChsInverse
<1> HIDE DEF c
<1>3. (c.cyl * HEADS + c.head) * SECTORS = T * c.cyl + c.head * SECTORS
  BY <1>1, <1>2
<1>4. Capacity = T * CYLINDERS
  BY <1>1 DEF Capacity
<1>5. c.head * SECTORS \in Nat /\ T * c.cyl \in Nat /\ T * CYLINDERS \in Nat
  BY <1>1, <1>2
<1>6. T * c.cyl < T * CYLINDERS
  BY <1>1, <1>2, <1>3, <1>4, <1>5
<1>7. ASSUME CYLINDERS <= c.cyl PROVE FALSE
  <2>1. T * CYLINDERS <= T * c.cyl
    BY <1>1, <1>2, <1>7, Monotonic
  <2> QED
    BY <1>5, <1>6, <2>1
<1>8. c.cyl < CYLINDERS
  BY <1>1, <1>2, <1>7
<1> QED
  BY <1>8 DEF c

\* send_read_write's checks pass for sectors of one track of the drive.
LEMMA TrackAccepted ==
    ASSUME FitsBytes, NEW t \in Nat, NEW a \in 0..(SECTORS - 1), NEW len \in Nat \ {0},
           a + len <= SECTORS, SECTORS * t + a \in Reach,
           SECTORS * t + (a + len - 1) \in Reach, SECTORS * t + (a + len - 1) < Capacity
    PROVE  Accepted(SECTORS * t + a, len)
<1> DEFINE l == SECTORS * t + a
           e == SECTORS * t + (a + len - 1)
           c == lba_to_chs(l)
           d == lba_to_chs(e)
<1>1. SECTORS \in Nat \ {0} /\ HEADS \in Nat \ {0} /\ U16 \in Nat \ {0}
  BY GeometryConstants
<1>2. a + len - 1 \in 0..(SECTORS - 1) /\ SECTORS * t \in Nat
  BY <1>1
<1>3. /\ c.cyl \in Nat /\ c.head \in 0..(HEADS - 1) /\ c.sect \in 1..SECTORS
      /\ t = HEADS * c.cyl + c.head
  BY ChsOfTrack
<1>4. /\ d.cyl \in Nat /\ d.head \in 0..(HEADS - 1) /\ t = HEADS * d.cyl + d.head
  BY <1>2, ChsOfTrack
<1>5. d.cyl < CYLINDERS
  BY CylinderExists
<1>6. l \in Nat /\ e \in Nat /\ l < U16 /\ e < U16 /\ l + len - 1 = e
  BY <1>1, <1>2 DEF Reach
<1>7. lba_to_chs(l % U16) = c /\ lba_to_chs(((l % U16) + len - 1) % U16) = d
  <2>1. (l % U16) = l /\ (e % U16) = e
    BY <1>1, <1>6, SmallMod
  <2> HIDE DEF l, e
  <2> QED
    BY <1>6, <2>1
<1> HIDE DEF c, d
<1> HIDE DEF l, e
<1>8. c.cyl = d.cyl /\ c.head = d.head
  <2>1. HEADS * c.cyl + c.head = HEADS * d.cyl + d.head
    BY <1>3, <1>4
  <2>2. HEADS \in Nat \ {0} /\ c.cyl \in Nat /\ d.cyl \in Nat
    BY <1>1, <1>3, <1>4
  <2>3. c.head \in 0..(HEADS - 1) /\ d.head \in 0..(HEADS - 1)
    BY <1>3, <1>4
  <2>4. PICK x \in Nat, y \in Nat, u \in 0..(HEADS - 1), v \in 0..(HEADS - 1) :
          x = c.cyl /\ y = d.cyl /\ u = c.head /\ v = d.head
    BY <2>2, <2>3
  <2>5. HEADS * x + u = HEADS * y + v
    BY <2>1, <2>4
  <2>6. x = y /\ u = v
    BY <2>2, <2>5, DivUnique
  <2> QED
    BY <2>4, <2>6
<1>9. Accepted(l, len)
  BY <1>3, <1>5, <1>7, <1>8 DEF Accepted
<1> QED
  BY <1>9 DEF l

\* A part of a run that starts on the first track, or lies on one, is on one track.
LEMMA PartOnTrack ==
    ASSUME IInv, RunsFit, More, Len # 0, req.block <= SECTORS \/ OneTrack
    PROVE  \E t \in Nat, a \in 0..(SECTORS - 1) :
              Block = SECTORS * t + a /\ a + Len <= SECTORS
<1>1. /\ Fits(req) /\ req.block \in Nat /\ req.n \in Nat /\ off \in Nat /\ idx \in Nat
      /\ pc = "run" /\ off <= req.n
  BY DEF IInv, Typed, RunsFit, More, Fits
<1>2. Len \in Nat /\ off + Len <= req.n /\ Block = req.block + off
  BY NextPart
<1>3. SECTORS \in Nat \ {0}
  BY GeometryConstants
<1>4. CASE idx = 0 /\ req.block <= SECTORS
  <2>1. off = 0 /\ Len = FirstLen
    BY <1>1, <1>4 DEF IInv, AtBoundary, Len
  <2>2. FirstLen = IF SECTORS - req.block <= req.n THEN SECTORS - req.block ELSE req.n
    BY <1>1, <1>3, <1>4, MinOfTwo DEF FirstLen
  <2>3. req.block \in 0..(SECTORS - 1) /\ req.block + Len <= SECTORS
    BY <1>1, <1>2, <1>3, <1>4, <2>1, <2>2
  <2>4. Block = SECTORS * 0 + req.block
    BY <1>1, <1>2, <1>3, <2>1
  <2> QED
    BY <2>3, <2>4
<1>5. CASE idx = 0 /\ ~(req.block <= SECTORS)
  <2> DEFINE t == req.block \div SECTORS
             a == req.block % SECTORS
             e == req.block + req.n - 1
             b == e % SECTORS
  <2>1. off = 0 /\ Len = req.n
    BY <1>1, <1>3, <1>5 DEF IInv, AtBoundary, Len, FirstLen
  <2>2. req.n >= 1 /\ e \in Nat
    BY <1>1, <1>2, <2>1
  <2>3. t \in Nat /\ a \in Nat /\ a < SECTORS /\ req.block = SECTORS * t + a
    BY <1>1, <1>3, DivMod
  <2>4. b \in Nat /\ b < SECTORS /\ e = SECTORS * (e \div SECTORS) + b
    BY <1>3, <2>2, DivMod
  <2>5. e \div SECTORS = t
    BY <1>5 DEF OneTrack
  <2>6. e = SECTORS * t + b
    BY <2>4, <2>5
  <2>7. e = req.block + req.n - 1
    OBVIOUS
  <2> HIDE DEF t, a, b, e
  <2>8. SECTORS * t \in Nat
    BY <1>3, <2>3
  <2>9. a + Len <= SECTORS
    BY <1>1, <1>3, <2>1, <2>3, <2>4, <2>6, <2>7, <2>8
  <2>10. a \in 0..(SECTORS - 1) /\ Block = SECTORS * t + a
    BY <1>1, <1>2, <1>3, <2>1, <2>3
  <2> QED
    BY <2>3, <2>9, <2>10
<1>6. CASE idx # 0
  <2>1. off < req.n
    BY <1>6 DEF More
  <2>2. req.block + off = SECTORS * idx
    BY <1>1, <1>6, <2>1 DEF IInv, AtBoundary
  <2>3. Len <= SECTORS
    BY <1>1, <1>3, <1>6, MinOfTwo DEF Len, LaterLen
  <2>4. SECTORS * idx \in Nat
    BY <1>1, <1>3
  <2>5. Block = SECTORS * idx + 0 /\ 0 + Len <= SECTORS /\ 0 \in 0..(SECTORS - 1)
    BY <1>2, <1>3, <2>2, <2>3, <2>4
  <2> QED
    BY <1>1, <2>5
<1> QED
  BY <1>4, <1>5, <1>6

\* The widths and the track boundary are the only reasons to refuse a run: one over
\* existing sectors that starts on the first track, or lies on one, fails only if
\* the hardware does (floppyfs.rs, read and write; disk.rs, send_read_write).
THEOREM FirstTrackServed == ASSUME RunsFit PROVE Spec => ServedFromFirstTrack
<1>1. ASSUME IInv, More, Len # 0, InRange, req.block <= SECTORS \/ OneTrack
      PROVE  Accepted(Block, Len)
  <2>1. PICK t \in Nat, a \in 0..(SECTORS - 1) :
          Block = SECTORS * t + a /\ a + Len <= SECTORS
    BY <1>1, PartOnTrack
  <2>2. /\ Fits(req) /\ req.block \in Nat /\ req.n \in Nat /\ off \in Nat
    BY <1>1 DEF IInv, Typed, RunsFit, More, Fits
  <2>3. Len \in Nat \ {0} /\ off + Len <= req.n /\ Block = req.block + off
    BY <1>1, NextPart
  <2>4. off \in 0..(req.n - 1) /\ off + Len - 1 \in 0..(req.n - 1)
    BY <2>2, <2>3
  <2>5. req.block + off \in Reach /\ req.block + (off + Len - 1) \in Reach
    BY <2>2, <2>4 DEF Fits
  <2>6. SECTORS * t \in Nat
    BY GeometryConstants
  <2>7. req.block + (off + Len - 1) = SECTORS * t + (a + Len - 1)
    BY <2>1, <2>2, <2>3, <2>6
  <2>8. Capacity \in Nat
    BY GeometryConstants DEF Capacity
  <2>9. req.block + (off + Len - 1) < Capacity
    BY <1>1, <2>2, <2>3, <2>8 DEF InRange
  <2> QED
    BY <2>1, <2>3, <2>5, <2>7, <2>9, TrackAccepted DEF RunsFit
<1>2. ASSUME IInv, Next, pc = "run", pc' = "err", FLOPPY_INIT, InRange,
             req.block <= SECTORS \/ OneTrack
      PROVE  hwFailed'
  <2>1. Fail
    BY <1>2 DEF Next, read_write, Part, Return, Call
  <2>2. CASE PartFails(Block, Len)
    BY <2>2, Zenon DEF PartFails
  <2>3. CASE PartRefused(Block, Len)
    <3>1. Len > 0 /\ ~Accepted(Block, Len)
      BY <1>2, <2>3 DEF PartRefused
    <3>2. More
      BY <2>1 DEF Fail
    <3>3. Len # 0
      BY <3>1
    <3> QED
      BY <1>1, <1>2, <3>1, <3>2, <3>3
  <2> QED
    BY <2>1, <2>2, <2>3 DEF Fail
<1>3. IInv /\ [Next]_vars =>
        [pc = "run" /\ pc' = "err" /\ FLOPPY_INIT /\ InRange
           /\ (req.block <= SECTORS \/ OneTrack) => hwFailed']_vars
  BY <1>2, Zenon
<1> QED
  BY <1>3, Invariance, PTL DEF Spec, ServedFromFirstTrack

----------------------------------------------------------------------------
(* Types. *)

Flags == FLOPPY_INIT \in BOOLEAN /\ hwFailed \in BOOLEAN

Bounds == DOMAIN image = Image /\ calls \in 0..MaxCalls

\* Every variable keeps its type: the offset never passes the end of the caller's
\* buffer, and a failing part leaves the buffer and the image as large as they were.
THEOREM TypeCorrect == ASSUME RunsFit PROVE Spec => []TypeOK
<1>1. Init => Flags /\ Bounds
  <2>1. Init => Flags
    BY Zenon DEF Init, Flags
  <2>2. Init => Bounds
    BY GeometryConstants DEF Init, Bounds
  <2> QED
    BY <2>1, <2>2
<1>2. Flags /\ [Next]_vars => Flags'
  <2> SUFFICES ASSUME Flags, [Next]_vars PROVE Flags'
    OBVIOUS
  <2>1. CASE Part \/ Return
    BY <2>1, Zenon DEF Part, PartDone, Return, Flags
  <2>2. CASE Fail
    BY <2>2, Zenon DEF Fail, PartRefused, PartFails, Flags
  <2>3. ASSUME NEW r \in Requests, Call(r) PROVE Flags'
    BY <2>3, Zenon DEF Call, Flags
  <2>4. CASE UNCHANGED vars
    BY <2>4, Zenon DEF vars, Flags
  <2> QED
    BY <2>1, <2>2, <2>3, <2>4, Zenon DEF Next, read_write
<1>3. Bounds /\ [Next]_vars => Bounds'
  <2> SUFFICES ASSUME Bounds, [Next]_vars PROVE Bounds'
    OBVIOUS
  <2>1. ASSUME NEW lba, NEW len, Moved(lba, len) PROVE DOMAIN image' = Image
    BY <2>1 DEF Moved, Bounds
  <2>2. CASE Part
    BY <2>1, <2>2 DEF Part, PartDone, Bounds
  <2>3. CASE Fail
    BY <2>1, <2>3 DEF Fail, PartRefused, PartFails, Bounds
  <2>4. CASE Return \/ UNCHANGED vars
    BY <2>4 DEF Return, vars, Bounds
  <2>5. ASSUME NEW r \in Requests, Call(r) PROVE Bounds'
    BY <2>5, GeometryConstants DEF Call, Bounds
  <2> QED
    BY <2>2, <2>3, <2>4, <2>5 DEF Next, read_write
<1>4. ASSUME Flags, Bounds, IInv PROVE TypeOK
  <2>1. /\ req \in Requests \cup {NoRequest} /\ DOMAIN buf = 0..(req.n - 1)
        /\ off \in Nat /\ off <= req.n /\ idx \in Nat
        /\ pc \in {"idle", "run", "ok", "err"}
    BY <1>4 DEF IInv, Typed
  <2>2. req.n \in Nat
    BY <2>1 DEF RunsFit, Fits, NoRequest
  <2>3. off \in 0..req.n
    BY <2>1, <2>2
  <2> QED
    BY <1>4, <2>1, <2>3, Zenon DEF Flags, Bounds, TypeOK
<1> QED
  BY <1>1, <1>2, <1>3, <1>4, Invariance, PTL DEF Spec

=============================================================================
