------------------------- MODULE InodeTableProofs -------------------------
(***************************************************************************)
(* The inode table and the block bitmap, for every size of the table, of a *)
(* block and of a nibble, and for every set of files and tables the disk   *)
(* may hold.                                                               *)
(*                                                                         *)
(* What makes it inductive is read_table's loop: between two inodes the    *)
(* bitmap is exact for those kept so far, each block has one user, and the *)
(* rest of the cached table is still zeroed.                               *)
(***************************************************************************)
EXTENDS InodeTable, FiniteSetTheorems, WellFoundedInduction, TLAPS

----------------------------------------------------------------------------
(* Arithmetic. *)

\* Division with remainder.
LEMMA DivMod ==
    ASSUME NEW a \in Nat, NEW b \in Nat \ {0}
    PROVE  /\ a \div b \in Nat /\ (a % b) \in Nat /\ (a % b) < b
           /\ a = b * (a \div b) + (a % b)
<1>1. a \div b \in Nat
  OBVIOUS
<1>2. (a % b) \in Nat /\ (a % b) < b
  OBVIOUS
<1>3. a = b * (a \div b) + (a % b)
  OBVIOUS
<1> QED
  BY <1>1, <1>2, <1>3

\* Multiplication is monotonic.
LEMMA Monotonic ==
    ASSUME NEW b \in Nat, NEW c \in Nat, NEW d \in Nat, c <= d
    PROVE  b * c <= b * d
OBVIOUS

\* The quotient of a number below a multiple of the divisor.
LEMMA DivBound ==
    ASSUME NEW a \in Nat, NEW b \in Nat \ {0}, NEW c \in Nat, a < b * c
    PROVE  a \div b < c
<1>1. a \div b \in Nat /\ (a % b) \in Nat /\ a = b * (a \div b) + (a % b)
  BY DivMod
<1>2. ASSUME c <= a \div b PROVE FALSE
  <2>1. b * c <= b * (a \div b)
    BY <1>1, <1>2, Monotonic
  <2>2. b * c \in Nat /\ b * (a \div b) \in Nat
    BY <1>1
  <2> QED
    BY <1>1, <2>1, <2>2
<1> QED
  BY <1>1, <1>2

\* A number is put together from its quotient and remainder in one way.
LEMMA DivUnique ==
    ASSUME NEW b \in Nat \ {0}, NEW q \in Nat, NEW r \in Nat, r < b
    PROVE  (b * q + r) \div b = q /\ ((b * q + r) % b) = r
<1> DEFINE a == b * q + r
           d == a \div b
           m == a % b
<1>1. b * q \in Nat /\ a \in Nat
  OBVIOUS
<1>2. d \in Nat /\ m \in Nat /\ m < b /\ b * q + r = b * d + m
  BY <1>1, DivMod
<1> HIDE DEF d, m
<1>3. ASSUME d < q PROVE FALSE
  <2>1. b * (d + 1) <= b * q
    BY <1>2, <1>3, Monotonic
  <2>2. b * (d + 1) = b * d + b
    BY <1>2
  <2>3. b * d \in Nat /\ b * q \in Nat
    BY <1>2
  <2> QED
    BY <1>2, <2>1, <2>2, <2>3
<1>4. ASSUME q < d PROVE FALSE
  <2>1. b * (q + 1) <= b * d
    BY <1>2, <1>4, Monotonic
  <2>2. b * (q + 1) = b * q + b
    OBVIOUS
  <2>3. b * d \in Nat /\ b * q \in Nat
    BY <1>2
  <2> QED
    BY <1>2, <2>1, <2>2, <2>3
<1>5. d = q
  BY <1>2, <1>3, <1>4
<1>6. m = r
  BY <1>1, <1>2, <1>5
<1> QED
  BY <1>5, <1>6 DEF d, m

\* Numbers below the modulus.
LEMMA SmallMod ==
    ASSUME NEW a \in Nat, NEW b \in Nat \ {0}, a < b
    PROVE  (a % b) = a
OBVIOUS

\* A set of numbers has a smallest one.
LEMMA MinIsIn ==
    ASSUME NEW S \in SUBSET Nat, S # {}
    PROVE  Min(S) \in S
<1>1. IsWellFoundedOn(OpToRel(<, Nat), Nat)
  BY NatLessThanWellFounded
<1>2. PICK x \in S : \A y \in S : ~(<<y, x>> \in OpToRel(<, Nat))
  BY <1>1, WFMin
<1>3. \A y \in S : ~(y < x)
  BY <1>2 DEF OpToRel
<1>4. \A y \in S : x <= y
  BY <1>3
<1> QED
  BY <1>4 DEF Min

----------------------------------------------------------------------------
(* The encoding of two pointers in three bytes. *)

\* The sizes of a byte and of a pointer.
LEMMA Sizes ==
    /\ Nibble \in Nat \ {0} /\ Byte \in Nat \ {0} /\ MAX_VAL \in Nat \ {0}
    /\ Byte = Nibble * Nibble /\ MAX_VAL = Nibble * Byte /\ MAX_VAL = Byte * Nibble
<1>1. Nibble \in Nat \ {0}
  BY NibbleAssumption
<1>2. Byte \in Nat \ {0}
  BY <1>1 DEF Byte
<1>3. Nibble * Byte \in Nat \ {0} /\ Nibble * Byte = Byte * Nibble
  BY <1>1, <1>2
<1> QED
  BY <1>1, <1>2, <1>3 DEF Byte, MAX_VAL

\* decode takes apart what encode has put together, for every pair of pointers of
\* three nibbles (lib.rs:253-269).
THEOREM CodecRoundTrip ==
    \A fst, snd \in Pointer : decode(encode(fst, snd)) = <<fst, snd>>
<1> SUFFICES ASSUME NEW fst \in Pointer, NEW snd \in Pointer
             PROVE  decode(encode(fst, snd)) = <<fst, snd>>
  OBVIOUS
<1> DEFINE h == fst \div Nibble
           l == fst % Nibble
           u == snd \div Byte
           w == snd % Byte
<1>1. /\ Nibble \in Nat \ {0} /\ Byte \in Nat \ {0} /\ MAX_VAL \in Nat \ {0}
      /\ MAX_VAL = Nibble * Byte /\ MAX_VAL = Byte * Nibble
  BY Sizes
<1>2. fst \in Nat /\ fst < MAX_VAL /\ snd \in Nat /\ snd < MAX_VAL
  BY <1>1 DEF Pointer
<1>3. h \in Nat /\ l \in Nat /\ l < Nibble /\ fst = Nibble * h + l
  BY <1>1, <1>2, DivMod
<1>4. u \in Nat /\ w \in Nat /\ w < Byte /\ snd = Byte * u + w
  BY <1>1, <1>2, DivMod
<1>5. h < Byte /\ u < Nibble
  BY <1>1, <1>2, DivBound
<1>6. encode(fst, snd) = <<h % Byte, l * Nibble + (u % Nibble), w>>
  BY DEF encode
<1> HIDE DEF h, l, u, w
<1>7. (h % Byte) = h /\ (u % Nibble) = u
  BY <1>1, <1>3, <1>4, <1>5, SmallMod
<1>8. l * Nibble = Nibble * l
  BY <1>1, <1>3
<1>9. encode(fst, snd) = <<h, Nibble * l + u, w>>
  BY <1>6, <1>7, <1>8
<1>10. (Nibble * l + u) \div Nibble = l /\ ((Nibble * l + u) % Nibble) = u
  BY <1>1, <1>3, <1>4, <1>5, DivUnique
<1>11. decode(<<h, Nibble * l + u, w>>) =
         <<BlockPtr(h * Nibble + l), BlockPtr(u * Byte + w)>>
  BY <1>10 DEF decode
<1>12. h * Nibble + l = fst /\ u * Byte + w = snd
  BY <1>1, <1>3, <1>4
<1>13. BlockPtr(fst) = fst /\ BlockPtr(snd) = snd
  BY <1>2 DEF BlockPtr
<1> QED
  BY <1>9, <1>11, <1>12, <1>13

----------------------------------------------------------------------------
(* Inodes and their pointers. *)

\* The inodes there can be: zeroed, of a file that was there before, or new.
Known == {Zeroed} \cup {FileNod(f) : f \in DOMAIN Files}
           \cup {Nod(NEW_ID + k, <<>>) : k \in Nat}

Tables == [1..INODES -> Known]

\* The blocks that the inodes of a table use, and that they share none.
Used(t) == UNION {Ptrs(t[i]) : i \in 1..INODES}

OneUse(t) ==
    \A i, j \in 1..INODES :
        \A p \in Places(t[i]), q \in Places(t[j]) :
            is_valid(ptr_at(t[i], p)) /\ ptr_at(t[i], p) = ptr_at(t[j], q)
                => i = j /\ p = q

\* An inode with zero links that the table knows is zeroed.
LEMMA AvailableIsZeroed ==
    /\ \A n \in Known : is_available(n) => n = Zeroed
    /\ is_available(Zeroed)
<1>1. \A f \in DOMAIN Files : f \in Nat \ {0}
  BY ImageConstants
<1>2. \A n \in Known : is_available(n) => n = Zeroed
  BY <1>1 DEF Known, is_available, FileNod, Nod, NEW_ID
<1> QED
  BY <1>2 DEF is_available, Zeroed, Nod

\* An inode without blocks.
LEMMA NoBlocks ==
    ASSUME NEW id
    PROVE  Places(Nod(id, <<>>)) = {} /\ Ptrs(Nod(id, <<>>)) = {}
  BY DEF Places, Ptrs, PtrsTo, Nod

\* The non-null pointers of an inode.
LEMMA PtrsAtPlaces ==
    ASSUME NEW n
    PROVE  \A ptr : ptr \in Ptrs(n) <=>
              is_valid(ptr) /\ \E p \in Places(n) : ptr_at(n, p) = ptr
  BY DEF Ptrs, PtrsTo, Places

\* An inode none of whose blocks is in use takes the place of a zeroed one.
LEMMA AddNod ==
    ASSUME NEW t, NEW k \in 1..INODES, NEW n, NEW u,
           t \in Tables, t[k] = Zeroed, OneUse(t), u = [t EXCEPT ![k] = n],
           \A p \in Places(n) :
              is_valid(ptr_at(n, p)) => ptr_at(n, p) \notin Used(t) \cup PtrsTo(n, p - 1)
    PROVE  OneUse(u) /\ Used(u) = Used(t) \cup Ptrs(n)
<1>1. \A i \in 1..INODES : u[i] = IF i = k THEN n ELSE t[i]
  BY DEF Tables
<1>2. Places(t[k]) = {} /\ Ptrs(t[k]) = {}
  BY NoBlocks DEF Zeroed
<1>3. \A i \in 1..INODES : \A q \in Places(t[i]) :
         is_valid(ptr_at(t[i], q)) => ptr_at(t[i], q) \in Used(t)
  BY PtrsAtPlaces DEF Used
<1>4. \A p \in Places(n), q \in Places(n) :
         is_valid(ptr_at(n, p)) /\ ptr_at(n, p) = ptr_at(n, q) => p = q
  <2>1. ASSUME NEW p \in Places(n), NEW q \in Places(n), q < p,
               is_valid(ptr_at(n, p)), ptr_at(n, p) = ptr_at(n, q)
        PROVE  FALSE
    <3>1. q \in 1..(p - 1)
      BY <2>1 DEF Places
    <3>2. ptr_at(n, p) \in PtrsTo(n, p - 1)
      BY <2>1, <3>1 DEF PtrsTo
    <3> QED
      BY <2>1, <3>2
  <2>2. ASSUME NEW p \in Places(n), NEW q \in Places(n) PROVE p < q \/ q < p \/ p = q
    BY DEF Places
  <2> QED
    BY <2>1, <2>2
<1>5. OneUse(u)
  <2> SUFFICES ASSUME NEW i \in 1..INODES, NEW j \in 1..INODES,
                      NEW p \in Places(u[i]), NEW q \in Places(u[j]),
                      is_valid(ptr_at(u[i], p)), ptr_at(u[i], p) = ptr_at(u[j], q)
               PROVE  i = j /\ p = q
    BY DEF OneUse
  <2>1. CASE i = k /\ j = k
    BY <1>1, <1>4, <2>1
  <2>2. CASE i = k /\ j # k
    BY <1>1, <1>3, <2>2
  <2>3. CASE i # k /\ j = k
    BY <1>1, <1>3, <2>3
  <2>4. CASE i # k /\ j # k
    BY <1>1, <2>4 DEF OneUse
  <2> QED
    BY <2>1, <2>2, <2>3, <2>4
<1>6. Used(u) = Used(t) \cup Ptrs(n)
  BY <1>1, <1>2 DEF Used
<1> QED
  BY <1>5, <1>6

\* The pointers that are decoded fit the bitmap.
LEMMA PtrsFit ==
    ASSUME NEW n \in Known
    PROVE  Ptrs(n) \subseteq 1..(MAX_VAL - 1)
<1>1. CASE n = Zeroed \/ \E k \in Nat : n = Nod(NEW_ID + k, <<>>)
  BY <1>1, NoBlocks DEF Zeroed
<1>2. ASSUME NEW f \in DOMAIN Files, n = FileNod(f) PROVE Ptrs(n) \subseteq 1..(MAX_VAL - 1)
  <2> DEFINE file == Files[f]
             Codes == {encode(c[1], c[2]) : c \in Pointer \X Pointer}
  <2>1. file \in Seq(Pointer \X Pointer)
    BY ImageConstants
  <2>2. DOMAIN file = 1..Len(file) /\ Len(file) \in Nat
        /\ \A i \in 1..Len(file) : file[i] \in Pointer \X Pointer
    BY <2>1
  <2>3. n.blocks = [i \in 1..Len(file) |-> encode(file[i][1], file[i][2])]
    BY <1>2, <2>2 DEF FileNod, Nod
  <2> HIDE DEF file
  <2>4. \A i \in 1..Len(file) : encode(file[i][1], file[i][2]) \in Codes
    BY <2>2
  <2>5. n.blocks \in Seq(Codes) /\ Len(n.blocks) = Len(file)
    <3> HIDE DEF Codes
    <3> QED
      BY <2>2, <2>3, <2>4
  <2>6. ASSUME NEW p \in Places(n) PROVE ptr_at(n, p) \in Pointer
    <3>1. (p + 1) \div 2 \in 1..Len(file) /\ 2 - (p % 2) \in {1, 2}
      BY <2>2, <2>5, <2>6 DEF Places
    <3> DEFINE i == (p + 1) \div 2
               side == 2 - (p % 2)
    <3>2. ptr_at(n, p) = decode(encode(file[i][1], file[i][2]))[side]
      BY <2>3, <3>1 DEF ptr_at
    <3>3. file[i][1] \in Pointer /\ file[i][2] \in Pointer
      BY <2>2, <3>1
    <3>4. ptr_at(n, p) = <<file[i][1], file[i][2]>>[side]
      BY <3>2, <3>3, CodecRoundTrip
    <3> HIDE DEF i, side
    <3>5. side \in {1, 2}
      BY <3>1 DEF side
    <3> QED
      BY <3>3, <3>4, <3>5
  <2>7. \A ptr \in Pointer : is_valid(ptr) => ptr \in 1..(MAX_VAL - 1)
    BY Sizes DEF Pointer, is_valid
  <2> QED
    BY <2>6, <2>7, PtrsAtPlaces
<1> QED
  BY <1>1, <1>2 DEF Known

----------------------------------------------------------------------------
(* The invariant. *)

\* What the steps need of the types.
Typed ==
    /\ INODE_TBL \in Tables /\ allocs \in Nat
    /\ disk \in [1..INODES -> [1..NODS_PER_BLOCK -> Known]]
    /\ BLOCK_BMP \subseteq 1..(MAX_VAL - 1)

\* Until read_table gets its buffer the statics are as they were made.
Untouched ==
    pc \in {"header", "ask", "format", "clear", "table"} =>
        INODE_TBL = EmptyTable /\ BLOCK_BMP = {} /\ given = {}

\* Between two inodes of read_table's loop.
Loop ==
    pc = "scan" =>
        /\ at \in Nat \ {0} /\ active_nods \in Nat /\ active_nods < at
        /\ \A i \in (active_nods + 1)..INODES : INODE_TBL[i] = Zeroed
        /\ given = {}

Exact ==
    pc \in {"scan", "mounted"} =>
        /\ BLOCK_BMP = Used(INODE_TBL) \cup {g[1] : g \in given}
        /\ OneUse(INODE_TBL)
        /\ \A g, h \in given : g[1] = h[1] => g = h
        /\ \A g \in given : g[1] \notin Used(INODE_TBL)

\* The inductive invariant.
IInv == Typed /\ Untouched /\ Loop /\ Exact

\* A table without inodes.
LEMMA EmptyTableFacts ==
    EmptyTable \in Tables /\ Used(EmptyTable) = {} /\ OneUse(EmptyTable)
<1>1. Zeroed \in Known
  BY DEF Known
<1>2. EmptyTable \in Tables
  BY <1>1 DEF EmptyTable, Tables
<1>3. \A i \in 1..INODES : Places(EmptyTable[i]) = {} /\ Ptrs(EmptyTable[i]) = {}
  BY NoBlocks DEF EmptyTable, Zeroed
<1> QED
  BY <1>2, <1>3 DEF Used, OneUse

\* An inode of the table on the disk.
LEMMA StoredKnown ==
    ASSUME disk \in [1..INODES -> [1..NODS_PER_BLOCK -> Known]], NEW i \in 1..INODES
    PROVE  Stored[i] \in Known
<1> DEFINE b == (i - 1) \div NODS_PER_BLOCK
           k == (i - 1) % NODS_PER_BLOCK
<1>1. INODES \in Nat /\ NODS_PER_BLOCK \in Nat \ {0} /\ i - 1 \in Nat /\ i - 1 < INODES
  BY TableConstants
<1>2. INODES <= NODS_PER_BLOCK * INODES
  BY <1>1
<1>3. NODS_PER_BLOCK * INODES \in Nat
  BY <1>1
<1>4. b \in Nat /\ k \in Nat /\ k < NODS_PER_BLOCK
  BY <1>1, DivMod
<1>5. b < INODES
  <2>1. i - 1 < NODS_PER_BLOCK * INODES
    BY <1>1, <1>2, <1>3
  <2> QED
    BY <1>1, <2>1, DivBound
<1>6. Stored[i] = disk[b + 1][k + 1]
  BY DEF Stored
<1> HIDE DEF b, k
<1>7. b + 1 \in 1..INODES /\ k + 1 \in 1..NODS_PER_BLOCK
  BY <1>1, <1>4, <1>5
<1> QED
  BY <1>6, <1>7

\* A table cut into blocks.
LEMMA BlocksKnown ==
    ASSUME NEW t \in Images
    PROVE  Blocks(t) \in [1..INODES -> [1..NODS_PER_BLOCK -> Known]]
<1>1. INODES \in Nat \ {0} /\ NODS_PER_BLOCK \in Nat \ {0}
  BY TableConstants
<1>2. TableBlocks \in Nat /\ NODS_PER_BLOCK * TableBlocks <= INODES
  <2>1. /\ INODES \div NODS_PER_BLOCK \in Nat /\ (INODES % NODS_PER_BLOCK) \in Nat
        /\ INODES = NODS_PER_BLOCK * (INODES \div NODS_PER_BLOCK)
                      + (INODES % NODS_PER_BLOCK)
    BY <1>1, DivMod
  <2>2. NODS_PER_BLOCK * (INODES \div NODS_PER_BLOCK) \in Nat
    BY <1>1, <2>1
  <2> QED
    BY <1>1, <2>1, <2>2 DEF TableBlocks
<1>3. \A i \in 1..INODES : t[i] \in Known
  BY ImageConstants DEF Known
<1>4. Zeroed \in Known
  BY DEF Known
<1>5. ASSUME NEW b \in 1..INODES, b <= TableBlocks, NEW i \in 1..NODS_PER_BLOCK
      PROVE  (b - 1) * NODS_PER_BLOCK + i \in 1..INODES
  <2>1. NODS_PER_BLOCK * b <= NODS_PER_BLOCK * TableBlocks
    BY <1>1, <1>2, <1>5, Monotonic
  <2>2. (b - 1) * NODS_PER_BLOCK + NODS_PER_BLOCK = NODS_PER_BLOCK * b
    BY <1>1
  <2>3. (b - 1) * NODS_PER_BLOCK \in Nat /\ NODS_PER_BLOCK * b \in Nat
        /\ NODS_PER_BLOCK * TableBlocks \in Nat
    BY <1>1, <1>2
  <2> QED
    BY <1>1, <1>2, <2>1, <2>2, <2>3
<1>6. \A b \in 1..INODES : Blocks(t)[b] \in [1..NODS_PER_BLOCK -> Known]
  <2> SUFFICES ASSUME NEW b \in 1..INODES
               PROVE  Blocks(t)[b] \in [1..NODS_PER_BLOCK -> Known]
    OBVIOUS
  <2>1. CASE b > TableBlocks
    BY <1>4, <2>1 DEF Blocks
  <2>2. CASE ~(b > TableBlocks)
    <3>1. b <= TableBlocks
      BY <1>2, <2>2
    <3>2. \A i \in 1..NODS_PER_BLOCK : t[(b - 1) * NODS_PER_BLOCK + i] \in Known
      BY <1>3, <1>5, <3>1
    <3>3. Blocks(t)[b] = [i \in 1..NODS_PER_BLOCK |-> t[(b - 1) * NODS_PER_BLOCK + i]]
      BY <2>2 DEF Blocks
    <3> QED
      BY <3>2, <3>3
  <2> QED
    BY <2>1, <2>2
<1> QED
  BY <1>6 DEF Blocks

\* The machine is switched on.
LEMMA InitIInv == Init => IInv
<1> SUFFICES ASSUME Init PROVE IInv
  OBVIOUS
<1>1. Typed
  BY EmptyTableFacts, BlocksKnown DEF Init, Typed
<1> QED
  BY <1>1 DEF Init, IInv, Untouched, Loop, Exact

\* The steps of init_floppyfs before read_table has its buffer.
LEMMA SetupIInv ==
    IInv /\ (ReadHeader \/ Answer \/ FormatHeader \/ FormatTable \/ TableFetch) => IInv'
<1> SUFFICES ASSUME IInv,
                    ReadHeader \/ Answer \/ FormatHeader \/ FormatTable \/ TableFetch
             PROVE  IInv'
  OBVIOUS
<1>1. UNCHANGED <<INODE_TBL, BLOCK_BMP, given, allocs>>
  BY DEF ReadHeader, Answer, FormatHeader, FormatTable, TableFetch, mem, hist
<1>2. INODE_TBL = EmptyTable /\ BLOCK_BMP = {} /\ given = {}
  BY DEF ReadHeader, Answer, FormatHeader, FormatTable, TableFetch, IInv, Untouched
<1>3. Typed'
  <2>1. disk' \in [1..INODES -> [1..NODS_PER_BLOCK -> Known]]
    <3>1. CASE FormatTable
      <4>1. Zeroed \in Known
        BY DEF Known
      <4> QED
        BY <3>1, <4>1 DEF FormatTable, IInv, Typed
    <3>2. CASE ReadHeader \/ Answer \/ FormatHeader \/ TableFetch
      BY <3>2 DEF ReadHeader, Answer, FormatHeader, TableFetch, IInv, Typed
    <3> QED
      BY <3>1, <3>2
  <2> QED
    BY <1>1, <2>1 DEF IInv, Typed
<1>4. Untouched'
  BY <1>1, <1>2 DEF Untouched
<1>5. Loop'
  <2>1. pc' = "scan" => at' = 1 /\ active_nods' = 0
    BY DEF ReadHeader, Answer, FormatHeader, FormatTable, TableFetch, Failed
  <2>2. \A i \in 1..INODES : EmptyTable[i] = Zeroed
    BY DEF EmptyTable
  <2> QED
    BY <1>1, <1>2, <2>1, <2>2 DEF Loop
<1>6. Exact'
  BY <1>1, <1>2, EmptyTableFacts DEF Exact
<1> QED
  BY <1>3, <1>4, <1>5, <1>6 DEF IInv

\* One turn of read_table's loop.
LEMMA ScanIInv ==
    ASSUME IInv, NEW i \in 1..INODES, ScanNod(i) \/ ScanClash(i)
    PROVE  IInv'
<1> DEFINE n == Stored[i]
           k == active_nods + 1
<1>1. pc = "scan" /\ i \in at..INODES
  BY DEF ScanNod, ScanClash, Scanning
<1>2. /\ at \in Nat \ {0} /\ active_nods \in Nat /\ active_nods < at /\ given = {}
      /\ \A j \in (active_nods + 1)..INODES : INODE_TBL[j] = Zeroed
  BY <1>1 DEF IInv, Loop
<1>3. k \in 1..INODES /\ INODES \in Nat
  BY <1>1, <1>2, TableConstants
<1>4. n \in Known
  BY StoredKnown DEF IInv, Typed
<1>5. INODE_TBL \in Tables /\ INODE_TBL[k] = Zeroed
  BY <1>2, <1>3 DEF IInv, Typed
<1>6. INODE_TBL' = [INODE_TBL EXCEPT ![k] = n] /\ UNCHANGED <<disk, given, allocs>>
  BY DEF ScanNod, ScanClash, Keep, hist
<1>7. INODE_TBL' \in Tables
  BY <1>4, <1>5, <1>6 DEF Tables
<1>8. Ptrs(n) \subseteq 1..(MAX_VAL - 1)
  BY <1>4, PtrsFit
<1>9. BLOCK_BMP = Used(INODE_TBL) /\ OneUse(INODE_TBL)
  BY <1>1, <1>2 DEF IInv, Exact
<1> HIDE DEF n
<1>10. CASE ScanNod(i)
  <2>1. /\ pc' = pc /\ at' = i + 1 /\ active_nods' = k
        /\ BLOCK_BMP' = BLOCK_BMP \cup Ptrs(n)
        /\ \A p \in Places(n) : ~Refused(n, p)
    BY <1>10 DEF ScanNod, n
  <2>2. OneUse(INODE_TBL') /\ Used(INODE_TBL') = Used(INODE_TBL) \cup Ptrs(n)
    <3>1. \A p \in Places(n) :
            is_valid(ptr_at(n, p)) => ptr_at(n, p) \notin Used(INODE_TBL) \cup PtrsTo(n, p - 1)
      BY <1>9, <2>1 DEF Refused
    <3> HIDE DEF k
    <3> QED
      BY <1>3, <1>5, <1>6, <1>9, <3>1, AddNod
  <2>3. Typed'
    BY <1>6, <1>7, <1>8, <2>1 DEF IInv, Typed
  <2>4. Loop'
    <3>1. i + 1 \in Nat \ {0} /\ k \in Nat /\ k < i + 1
      BY <1>1, <1>2, <1>3
    <3>2. \A j \in (k + 1)..INODES : INODE_TBL'[j] = Zeroed
      BY <1>2, <1>3, <1>5, <1>6 DEF Tables
    <3> QED
      BY <1>2, <1>6, <2>1, <3>1, <3>2 DEF Loop
  <2>5. Exact'
    BY <1>2, <1>6, <1>9, <2>1, <2>2 DEF Exact
  <2> QED
    BY <1>1, <2>1, <2>3, <2>4, <2>5 DEF IInv, Untouched
<1>11. CASE ScanClash(i)
  <2>1. pc' = "failed"
    BY <1>11 DEF ScanClash, Failed
  <2>2. PICK p \in Places(n) : BLOCK_BMP' = BLOCK_BMP \cup PtrsTo(n, p - 1)
    BY <1>11 DEF ScanClash, n
  <2>3. PtrsTo(n, p - 1) \subseteq Ptrs(n)
    <3>1. \A q \in 1..(p - 1) : q \in Places(n)
      BY DEF Places
    <3> QED
      BY <3>1, PtrsAtPlaces DEF PtrsTo
  <2>4. Typed'
    BY <1>6, <1>7, <1>8, <2>2, <2>3 DEF IInv, Typed
  <2> QED
    BY <2>1, <2>4 DEF IInv, Untouched, Loop, Exact
<1> QED
  BY <1>10, <1>11

\* The other steps.
LEMMA NextIInv == IInv /\ [Next]_vars => IInv'
<1> SUFFICES ASSUME IInv, [Next]_vars PROVE IInv'
  OBVIOUS
<1>1. CASE ScanDone
  BY <1>1 DEF ScanDone, mem, hist, IInv, Typed, Untouched, Loop, Exact
<1>2. CASE alloc_inode
  <2> DEFINE k == Min(FreeSlots)
             tbl == [INODE_TBL EXCEPT ![k] = NewNod]
  <2>1. FreeSlots \subseteq 1..INODES /\ FreeSlots \subseteq Nat /\ FreeSlots # {}
    BY <1>2, TableConstants DEF alloc_inode, FreeSlots
  <2>2. k \in FreeSlots
    BY <2>1, MinIsIn
  <2> HIDE DEF k
  <2>3. k \in 1..INODES /\ is_available(INODE_TBL[k]) /\ alloc_slot + 1 = k
    BY <2>1, <2>2 DEF FreeSlots, alloc_slot, k
  <2>4. INODE_TBL \in Tables /\ INODE_TBL[k] = Zeroed
    BY <2>3, AvailableIsZeroed DEF IInv, Typed, Tables
  <2>5. NewNod \in Known /\ Places(NewNod) = {} /\ Ptrs(NewNod) = {}
    BY NoBlocks DEF NewNod, Known, IInv, Typed
  <2>6. tbl \in Tables
    BY <2>4, <2>5 DEF Tables
  <2>7. /\ pc = "mounted" /\ pc' \in {"mounted", "panic"} /\ INODE_TBL' = tbl
        /\ allocs' = allocs + 1 /\ UNCHANGED <<BLOCK_BMP, given>>
    BY <1>2, <2>3 DEF alloc_inode
  <2>8. disk' \in [1..INODES -> [1..NODS_PER_BLOCK -> Known]]
    <3>1. CASE UNCHANGED disk
      BY <3>1 DEF IInv, Typed
    <3>2. CASE /\ alloc_slot + NODS_PER_BLOCK <= INODES
               /\ disk' = [disk EXCEPT ![WriteBlock(alloc_slot)] = WriteBuf(tbl, alloc_slot)]
      <4>1. \A i \in 1..NODS_PER_BLOCK : alloc_slot + i \in 1..INODES
        BY <2>1, <2>2, <2>3, <3>2, TableConstants DEF alloc_slot, k
      <4>2. WriteBuf(tbl, alloc_slot) \in [1..NODS_PER_BLOCK -> Known]
        BY <2>6, <4>1 DEF WriteBuf, Tables
      <4> QED
        BY <3>2, <4>2 DEF IInv, Typed
    <3> QED
      BY <1>2, <2>3, <3>1, <3>2 DEF alloc_inode
  <2>9. OneUse(tbl) /\ Used(tbl) = Used(INODE_TBL)
    <3>1. OneUse(INODE_TBL)
      BY <2>7 DEF IInv, Exact
    <3> QED
      BY <2>3, <2>4, <2>5, <3>1, AddNod
  <2>10. Typed'
    BY <2>6, <2>7, <2>8 DEF IInv, Typed
  <2> QED
    BY <2>7, <2>9, <2>10 DEF IInv, Untouched, Loop, Exact
<1>3. CASE alloc_next_bmp
  <2> DEFINE b == Min(free_blocks)
  <2>1. free_blocks \subseteq Nat /\ free_blocks # {}
    BY <1>3, Sizes DEF alloc_next_bmp, free_blocks
  <2>2. b \in 1..(MAX_VAL - 1) /\ b \notin BLOCK_BMP
    BY <2>1, MinIsIn DEF free_blocks
  <2>3. /\ pc = "mounted" /\ allocs' = allocs + 1
        /\ BLOCK_BMP' = BLOCK_BMP \cup {b} /\ given' = given \cup {<<b, allocs>>}
        /\ UNCHANGED <<pc, disk, INODE_TBL>>
    BY <1>3 DEF alloc_next_bmp
  <2> HIDE DEF b
  <2>4. Typed'
    BY <2>2, <2>3 DEF IInv, Typed
  <2>5. /\ BLOCK_BMP = Used(INODE_TBL) \cup {g[1] : g \in given} /\ OneUse(INODE_TBL)
        /\ \A g, h \in given : g[1] = h[1] => g = h
        /\ \A g \in given : g[1] \notin Used(INODE_TBL)
    BY <2>3 DEF IInv, Exact
  <2>6. \A g \in given : g[1] # b
    BY <2>2, <2>5
  <2>7. \A g \in given' : g \in given \/ (g = <<b, allocs>> /\ g[1] = b)
    BY <2>3
  <2>8. \A g, h \in given' : g[1] = h[1] => g = h
    BY <2>5, <2>6, <2>7
  <2>9. \A g \in given' : g[1] \notin Used(INODE_TBL)
    BY <2>2, <2>5, <2>7
  <2>10. BLOCK_BMP' = Used(INODE_TBL) \cup {g[1] : g \in given'}
    <3>1. <<b, allocs>> \in given' /\ <<b, allocs>>[1] = b /\ given \subseteq given'
      BY <2>3
    <3>2. {g[1] : g \in given'} = {g[1] : g \in given} \cup {b}
      BY <2>7, <3>1
    <3> QED
      BY <2>3, <2>5, <3>2
  <2>11. Exact'
    BY <2>3, <2>5, <2>8, <2>9, <2>10 DEF Exact
  <2> QED
    BY <2>3, <2>4, <2>11 DEF IInv, Untouched, Loop
<1>4. CASE Restart
  BY <1>4, EmptyTableFacts DEF Restart, IInv, Typed, Untouched, Loop, Exact
<1>5. CASE UNCHANGED vars
  BY <1>5 DEF vars, IInv, Typed, Untouched, Loop, Exact
<1> QED
  BY <1>1, <1>2, <1>3, <1>4, <1>5, SetupIInv, ScanIInv
     DEF Next, init_floppyfs, read_table

\* The invariant holds in every reachable state.
THEOREM Invariance == Spec => []IInv
  BY InitIInv, NextIInv, PTL DEF Spec

\* After a mount no block has two users, whatever the disk held: read_table refuses
\* shared blocks (init.rs:68-74) and alloc_next_bmp gives out none that is marked
\* (table.rs:85-94).
THEOREM BlocksExclusive == Spec => []OneUserPerBlock
<1>1. IInv => OneUserPerBlock
  BY DEF IInv, Exact, OneUse, Used, OneUserPerBlock
<1> QED
  BY <1>1, Invariance, PTL

\* After a mount the bitmap marks the blocks in use and no others (table.rs:33).
THEOREM BitmapIsExact == Spec => []BitmapExact
<1>1. IInv => BitmapExact
  BY DEF IInv, Exact, Used, BitmapExact
<1> QED
  BY <1>1, Invariance, PTL

\* The number of inodes in use among the first i of a table: it grows by one at each
\* of them and not otherwise.
InUse(t, i) == {j \in 1..i : ~is_available(t[j])}

LEMMA CountFacts ==
    ASSUME NEW t, NEW i \in Nat
    PROVE  /\ IsFiniteSet(InUse(t, i)) /\ Cardinality(InUse(t, i)) \in Nat
           /\ ~is_available(t[i + 1]) =>
                Cardinality(InUse(t, i + 1)) = Cardinality(InUse(t, i)) + 1
           /\ \A j \in 1..i :
                /\ Cardinality(InUse(t, j)) \in Nat
                /\ Cardinality(InUse(t, j)) <= Cardinality(InUse(t, i))
                /\ ~is_available(t[j]) => Cardinality(InUse(t, j)) >= 1
<1>1. \A j \in Nat : IsFiniteSet(InUse(t, j)) /\ Cardinality(InUse(t, j)) \in Nat
  <2> SUFFICES ASSUME NEW j \in Nat
               PROVE  IsFiniteSet(InUse(t, j)) /\ Cardinality(InUse(t, j)) \in Nat
    OBVIOUS
  <2>1. IsFiniteSet(1..j)
    BY FS_Interval
  <2>2. InUse(t, j) \subseteq 1..j
    BY DEF InUse
  <2> QED
    BY <2>1, <2>2, FS_Subset, FS_CardinalityType
<1>2. ASSUME ~is_available(t[i + 1])
      PROVE  Cardinality(InUse(t, i + 1)) = Cardinality(InUse(t, i)) + 1
  <2>1. InUse(t, i + 1) = InUse(t, i) \cup {i + 1} /\ i + 1 \notin InUse(t, i)
    BY <1>2 DEF InUse
  <2> QED
    BY <1>1, <2>1, FS_AddElement
<1>3. ASSUME NEW j \in 1..i
      PROVE  /\ Cardinality(InUse(t, j)) \in Nat
             /\ Cardinality(InUse(t, j)) <= Cardinality(InUse(t, i))
             /\ ~is_available(t[j]) => Cardinality(InUse(t, j)) >= 1
  <2>1. InUse(t, j) \subseteq InUse(t, i) /\ j \in Nat
    BY DEF InUse
  <2>2. ~is_available(t[j]) => InUse(t, j) # {}
    BY DEF InUse
  <2> QED
    BY <1>1, <2>1, <2>2, FS_Subset, FS_EmptySet
<1> QED
  BY <1>1, <1>2, <1>3

\* Between two inodes of the loop: those before are where they belong.
Placed ==
    pc = "scan" =>
        /\ at \in 1..(INODES + 1)
        /\ active_nods = Rank(at - 1)
        /\ \A j \in 1..(at - 1) :
               ~is_available(Stored[j]) => INODE_TBL[Rank(j)] = Stored[j]

LEMMA RankIs == \A i : Rank(i) = Cardinality(InUse(Stored, i))
  BY DEF Rank, InUse

\* The inode that the loop is at goes behind those before it and moves none of them.
LEMMA ScanPlaced ==
    ASSUME IInv, Placed, NEW i \in 1..INODES, ScanNod(i)
    PROVE  Placed'
<1>1. /\ pc = "scan" /\ i \in at..INODES /\ ~is_available(Stored[i])
      /\ \A j \in at..(i - 1) : is_available(Stored[j])
      /\ INODE_TBL' = [INODE_TBL EXCEPT ![active_nods + 1] = Stored[i]]
      /\ active_nods' = active_nods + 1 /\ at' = i + 1 /\ disk' = disk
  BY DEF ScanNod, Scanning, Keep
<1>2. /\ at \in 1..(INODES + 1) /\ active_nods = Rank(at - 1)
      /\ \A j \in 1..(at - 1) :
            ~is_available(Stored[j]) => INODE_TBL[Rank(j)] = Stored[j]
  BY <1>1 DEF Placed
<1>3. /\ INODE_TBL \in Tables /\ active_nods \in Nat /\ active_nods < at
      /\ INODES \in Nat
  BY <1>1, TableConstants DEF IInv, Typed, Loop
<1>4. Stored' = Stored
  BY <1>1 DEF Stored
<1>5. InUse(Stored, i - 1) = InUse(Stored, at - 1)
  BY <1>1, <1>2, <1>3 DEF InUse
<1>6. Rank(i) = active_nods + 1
  <2>1. i - 1 \in Nat /\ (i - 1) + 1 = i
    BY <1>3
  <2> QED
    BY <1>1, <1>2, <1>5, <2>1, CountFacts, RankIs
<1>7. \A j : Rank(j)' = Rank(j)
  BY <1>4 DEF Rank
<1>8. ASSUME NEW j \in 1..i, ~is_available(Stored[j])
      PROVE  INODE_TBL'[Rank(j)] = Stored[j]
  <2>1. CASE j = i
    <3>1. active_nods + 1 \in 1..INODES
      BY <1>1, <1>2, <1>3
    <3> QED
      BY <1>1, <1>3, <1>6, <2>1, <3>1 DEF Tables
  <2>2. CASE j # i
    <3>1. j \in 1..(at - 1) /\ at - 1 \in Nat
      BY <1>1, <1>2, <1>3, <1>8, <2>2
    <3>2. Rank(j) \in Nat /\ Rank(j) >= 1 /\ Rank(j) <= active_nods
      BY <1>2, <1>8, <3>1, CountFacts, RankIs
    <3>3. Rank(j) \in 1..INODES /\ Rank(j) # active_nods + 1
      BY <1>1, <1>2, <1>3, <3>2
    <3> QED
      BY <1>1, <1>2, <1>3, <1>8, <3>1, <3>3 DEF Tables
  <2> QED
    BY <2>1, <2>2
<1>9. (i + 1) \in 1..(INODES + 1) /\ (i + 1) - 1 = i
  BY <1>3
<1> QED
  BY <1>1, <1>4, <1>6, <1>7, <1>8, <1>9 DEF Placed

LEMMA NextPlaced == IInv /\ Placed /\ [Next]_vars => Placed'
<1> SUFFICES ASSUME IInv, Placed, [Next]_vars PROVE Placed'
  OBVIOUS
<1>1. CASE TableFetch
  <2>1. pc' = "scan" => at' = 1 /\ active_nods' = 0
    BY <1>1 DEF TableFetch
  <2>2. Rank(0)' = 0
    <3>1. InUse(Stored', 0) = {}
      BY DEF InUse
    <3> QED
      BY <3>1, FS_EmptySet DEF Rank, InUse
  <2> QED
    BY <2>1, <2>2, TableConstants DEF Placed
<1>2. CASE UNCHANGED vars
  BY <1>2 DEF vars, Placed, Rank, Stored
<1>3. CASE ReadHeader \/ Answer \/ FormatHeader \/ FormatTable \/ ScanDone \/ Restart
  BY <1>3 DEF ReadHeader, Answer, FormatHeader, FormatTable, ScanDone, Restart, Failed,
       Placed
<1>4. CASE alloc_inode \/ alloc_next_bmp
  BY <1>4 DEF alloc_inode, alloc_next_bmp, Placed
<1>5. CASE \E i \in 1..INODES : ScanClash(i)
  BY <1>5 DEF ScanClash, Failed, Placed
<1>6. CASE \E i \in 1..INODES : ScanNod(i)
  BY <1>6, ScanPlaced
<1> QED
  BY <1>1, <1>2, <1>3, <1>4, <1>5, <1>6 DEF Next, init_floppyfs, read_table

\* read_table loses, repeats and reorders no inode in use, for every table on the disk
\* (init.rs:61-65): the loop keeps each at its rank, and behind the last are free ones.
THEOREM MountComplete == Spec => MountKeepsInodes
<1>1. Init => Placed
  BY DEF Init, Placed
<1>2. ASSUME IInv, Placed, [Next]_vars, pc # "mounted", pc' = "mounted"
      PROVE  Compacted'
  <2>1. ScanDone
    BY <1>2 DEF Next, init_floppyfs, read_table, ReadHeader, Answer, FormatHeader,
         FormatTable, TableFetch, ScanNod, ScanClash, Scanning, Failed, alloc_inode,
         alloc_next_bmp, Restart, vars
  <2>2. /\ pc = "scan" /\ UNCHANGED <<disk, INODE_TBL>>
        /\ \A i \in at..INODES : is_available(Stored[i])
    BY <2>1 DEF ScanDone, mem
  <2>3. /\ at \in 1..(INODES + 1) /\ active_nods = Rank(at - 1) /\ INODES \in Nat
        /\ \A j \in 1..(at - 1) :
              ~is_available(Stored[j]) => INODE_TBL[Rank(j)] = Stored[j]
        /\ \A j \in (active_nods + 1)..INODES : INODE_TBL[j] = Zeroed
    BY <1>2, <2>2, TableConstants DEF IInv, Placed, Loop
  <2>4. InUse(Stored, INODES) = InUse(Stored, at - 1)
    BY <2>2, <2>3 DEF InUse
  <2>5. Rank(INODES) = active_nods
    BY <2>3, <2>4, RankIs
  <2>6. \A j \in 1..INODES :
          ~is_available(Stored[j]) => INODE_TBL[Rank(j)] = Stored[j]
    BY <2>2, <2>3
  <2>7. \A j \in (Rank(INODES) + 1)..INODES : is_available(INODE_TBL[j])
    BY <2>3, <2>5 DEF is_available, Zeroed, Nod
  <2>8. Compacted
    BY <2>6, <2>7 DEF Compacted
  <2> QED
    BY <2>2, <2>8 DEF Compacted, Rank, Stored
<1>3. IInv /\ Placed /\ [Next]_vars =>
        [pc # "mounted" /\ pc' = "mounted" => Compacted']_vars
  BY <1>2
<1>4. Spec => []Placed
  BY <1>1, NextPlaced, Invariance, PTL DEF Spec
<1> QED
  BY <1>3, <1>4, Invariance, PTL DEF Spec, MountKeepsInodes

\* The pointers of a file are those that were encoded, after any number of mounts
\* and allocations (lib.rs:253-269, init.rs:61-66).
THEOREM PointersKept == Spec => []PointersSurvive
<1>1. IInv => PointersSurvive
  <2> SUFFICES ASSUME IInv, NEW i \in 1..INODES, INODE_TBL[i].id \in DOMAIN Files
               PROVE  [k \in DOMAIN INODE_TBL[i].blocks |-> decode(INODE_TBL[i].blocks[k])]
                        = Files[INODE_TBL[i].id]
    BY DEF PointersSurvive
  <2> DEFINE n == INODE_TBL[i]
             file == Files[n.id]
  <2>1. n \in Known /\ n.id \in 1..Len(Files) /\ Len(Files) < NEW_ID /\ Len(Files) \in Nat
    <3>1. n \in Known
      BY DEF IInv, Typed, Tables
    <3>2. DOMAIN Files = 1..Len(Files) /\ Len(Files) \in Nat /\ Len(Files) < NEW_ID
      BY ImageConstants
    <3> QED
      BY <3>1, <3>2
  <2>2. n = FileNod(n.id)
    BY <2>1 DEF Known, Zeroed, Nod, FileNod, NEW_ID
  <2>3. file \in Seq(Pointer \X Pointer)
    BY ImageConstants
  <2>4. \A k \in DOMAIN file : /\ file[k][1] \in Pointer /\ file[k][2] \in Pointer
                               /\ file[k] = <<file[k][1], file[k][2]>>
    BY <2>3
  <2>5. n.blocks = [k \in DOMAIN file |-> encode(file[k][1], file[k][2])]
    BY <2>2 DEF FileNod, Nod
  <2> HIDE DEF n, file
  <2>6. [k \in DOMAIN n.blocks |-> decode(n.blocks[k])]
          = [k \in DOMAIN file |-> decode(encode(file[k][1], file[k][2]))]
    BY <2>5
  <2>7. [k \in DOMAIN file |-> decode(encode(file[k][1], file[k][2]))]
          = [k \in DOMAIN file |-> file[k]]
    BY <2>4, CodecRoundTrip
  <2>8. [k \in DOMAIN file |-> file[k]] = file
    BY <2>3
  <2> QED
    BY <2>6, <2>7, <2>8 DEF n, file
<1> QED
  BY <1>1, Invariance, PTL

----------------------------------------------------------------------------
(* Types. *)

Flags == magic \in BOOLEAN /\ FLOPPYFS_INIT \in BOOLEAN /\ ours \in BOOLEAN

AtLabel == pc \in {"header", "ask", "format", "clear", "table", "scan", "mounted",
                   "failed", "panic"}

\* Every variable keeps its type. The bitmap only ever holds pointers it has a bit
\* for: alloc_bmp's index into it (table.rs:52-56) is never out of range.
THEOREM TypeCorrect == Spec => []TypeOK
<1>1. Init => Flags /\ AtLabel
  BY Zenon DEF Init, Flags, AtLabel
<1>2. Flags /\ [Next]_vars => Flags'
  <2> SUFFICES ASSUME Flags, [Next]_vars PROVE Flags'
    OBVIOUS
  <2> USE DEF Flags
  <2>1. CASE ReadHeader \/ Answer \/ FormatHeader \/ FormatTable
    BY <2>1, Zenon DEF ReadHeader, Answer, FormatHeader, FormatTable, hist
  <2>2. CASE read_table
    BY <2>2, Zenon DEF read_table, TableFetch, ScanDone, ScanNod, ScanClash, hist
  <2>3. CASE alloc_inode \/ alloc_next_bmp \/ Restart \/ UNCHANGED vars
    BY <2>3, Zenon DEF alloc_inode, alloc_next_bmp, Restart, vars
  <2> QED
    BY <2>1, <2>2, <2>3 DEF Next, init_floppyfs
<1>3. AtLabel /\ [Next]_vars => AtLabel'
  BY DEF AtLabel, Next, init_floppyfs, ReadHeader, Answer, FormatHeader, FormatTable,
       Failed, read_table, TableFetch, ScanDone, ScanNod, ScanClash, alloc_inode,
       alloc_next_bmp, Restart, vars
<1>4. Flags /\ AtLabel /\ IInv => TypeOK
  <2>1. IInv => /\ DOMAIN INODE_TBL = 1..INODES /\ BLOCK_BMP \subseteq 1..(MAX_VAL - 1)
                /\ \A b \in DOMAIN disk : DOMAIN disk[b] = 1..NODS_PER_BLOCK
    BY DEF IInv, Typed, Tables
  <2> QED
    BY <2>1, Zenon DEF Flags, AtLabel, TypeOK
<1> QED
  BY Invariance, <1>1, <1>2, <1>3, <1>4, PTL DEF Spec

----------------------------------------------------------------------------
(* The release of a filesystem, and its format. *)

\* The dates a release has room for: nine bits of the day are read back and six of
\* the year.
Dates == [day : 0..511, year : YEAR_START..(YEAR_START + 63)]

\* The calendar.
Later(d, e) ==
    \/ d.year > e.year
    \/ d.year = e.year /\ d.day > e.day

\* Year and day are read back from a release.
LEMMA YearDay ==
    ASSUME NEW d \in Dates
    PROVE  /\ FsRelease(d.day, d.year) \in Nat
           /\ year_day(FsRelease(d.day, d.year)) = <<d.year - YEAR_START, d.day>>
<1>1. PICK y \in 0..63, n \in 0..511 : d.year = YEAR_START + y /\ d.day = n
  <2>1. d.day \in 0..511 /\ d.year \in YEAR_START..(YEAR_START + 63)
    BY DEF Dates
  <2>2. d.year - YEAR_START \in 0..63 /\ d.year = YEAR_START + (d.year - YEAR_START)
    BY <2>1 DEF YEAR_START
  <2> QED
    BY <2>1, <2>2
<1>2. d.year - YEAR_START = y
  BY <1>1 DEF YEAR_START
<1>3. FsRelease(d.day, d.year) = y * 1024 + n
  <2>1. y * 1024 \in Nat /\ y * 1024 < 65536 /\ ((y * 1024) % 65536) = y * 1024
    OBVIOUS
  <2> QED
    BY <1>1, <1>2, <2>1 DEF FsRelease
<1>4. (y * 1024 + n) \div 1024 = y /\ ((y * 1024 + n) % 512) = n
  OBVIOUS
<1> QED
  BY <1>1, <1>2, <1>3, <1>4 DEF year_day

\* Releases are ordered as their dates are (header.rs:131-146).
THEOREM ReleasesOrdered ==
    \A d, e \in Dates :
        newer(FsRelease(d.day, d.year), FsRelease(e.day, e.year)) <=> Later(d, e)
<1> SUFFICES ASSUME NEW d \in Dates, NEW e \in Dates
             PROVE  newer(FsRelease(d.day, d.year), FsRelease(e.day, e.year))
                      <=> Later(d, e)
  OBVIOUS
<1> DEFINE a == FsRelease(d.day, d.year)
           b == FsRelease(e.day, e.year)
<1>1. /\ year_day(a)[1] = d.year - YEAR_START /\ year_day(a)[2] = d.day
      /\ year_day(b)[1] = e.year - YEAR_START /\ year_day(b)[2] = e.day
  BY YearDay
<1>2. /\ d.year \in Nat /\ d.day \in Nat /\ e.year \in Nat /\ e.day \in Nat
      /\ YEAR_START \in Nat
  BY DEF Dates, YEAR_START
<1>3. d.year = e.year /\ d.day = e.day => a = b
  OBVIOUS
<1>4. d.year # e.year \/ d.day # e.day => a # b
  <2> HIDE DEF a, b
  <2> QED
    BY <1>1, <1>2
<1> HIDE DEF a, b
<1>5. newer(a, b) <=> Later(d, e)
  <2> DEFINE A == year_day(a)
             B == year_day(b)
  <2>1. newer(a, b) <=> a # b /\ ~(B[1] > A[1]) /\ ~(A[1] = B[1] /\ B[2] > A[2])
    BY DEF newer
  <2> HIDE DEF A, B
  <2>2. /\ B[1] > A[1] <=> e.year > d.year
        /\ A[1] = B[1] <=> d.year = e.year
        /\ B[2] > A[2] <=> e.day > d.day
    BY <1>1, <1>2 DEF A, B
  <2>3. a = b <=> d.year = e.year /\ d.day = e.day
    BY <1>3, <1>4
  <2>4. Later(d, e) <=> d.year > e.year \/ (d.year = e.year /\ d.day > e.day)
    BY DEF Later
  <2> QED
    BY <1>2, <2>1, <2>2, <2>3, <2>4
<1> QED
  BY <1>5 DEF a, b

\* From the reading of the header on, warned is what it says; a formatted drive has
\* the kernel's own release.
Compared ==
    /\ release \in {FsRelease(d.day, d.year) : d \in Releases \cup {Good}}
    /\ pc \in {"header", "ask", "format", "clear"} => ~warned
    /\ pc = "clear" => release = GoodRelease
    /\ pc \in {"table", "scan", "mounted"} => (warned <=> newer(release, GoodRelease))

\* A release is not newer than itself.
LEMMA NotNewerThanItself == ~newer(GoodRelease, GoodRelease)
BY DEF newer

\* Every step keeps it.
LEMMA NextCompared == Compared /\ [Next]_vars => Compared'
<1> SUFFICES ASSUME Compared, [Next]_vars PROVE Compared'
  OBVIOUS
<1>1. CASE ReadHeader
  <2>1. release' = release /\ pc = "header" /\ pc' \in {"failed", "ask", "table"}
    BY <1>1 DEF ReadHeader, Failed
  <2>2. pc' = "ask" => ~warned'
    BY <1>1, Zenon DEF ReadHeader, Failed, Compared
  <2>3. pc' = "table" => warned' = newer(release, GoodRelease)
    BY <1>1 DEF ReadHeader, Failed
  <2>4. newer(release, GoodRelease) \in BOOLEAN
    BY DEF newer
  <2>5. pc' = "table" => (warned' <=> newer(release, GoodRelease))
    BY <2>3, <2>4, Zenon
  <2> QED
    BY <2>1, <2>2, <2>5 DEF Compared, GoodRelease
<1>2. CASE Answer
  BY <1>2, Zenon DEF Answer, Failed, Compared, hist
<1>3. CASE FormatHeader
  <2>1. GoodRelease \in {FsRelease(d.day, d.year) : d \in Releases \cup {Good}}
    BY DEF GoodRelease
  <2> QED
    BY <1>3, <2>1, Zenon DEF FormatHeader, Failed, Compared
<1>4. CASE FormatTable
  <2>1. ~warned /\ release = GoodRelease /\ UNCHANGED <<release, warned>>
    BY <1>4, Zenon DEF FormatTable, Compared
  <2>2. pc' \in {"failed", "table"}
    BY <1>4 DEF FormatTable, Failed
  <2> QED
    BY <2>1, <2>2, NotNewerThanItself, Zenon DEF Compared
<1>5. CASE read_table
  <2>1. UNCHANGED <<release, warned>>
    BY <1>5 DEF read_table, TableFetch, ScanDone, ScanNod, ScanClash, hist
  <2>2. pc \in {"table", "scan"} /\ pc' \in {"failed", "scan", "mounted"}
    BY <1>5 DEF read_table, TableFetch, ScanDone, ScanNod, ScanClash, Scanning, Failed
  <2> QED
    BY <2>1, <2>2, Zenon DEF Compared
<1>6. CASE alloc_inode \/ alloc_next_bmp
  <2>1. UNCHANGED <<release, warned>> /\ pc = "mounted" /\ pc' \in {"mounted", "panic"}
    BY <1>6 DEF alloc_inode, alloc_next_bmp
  <2> QED
    BY <2>1, Zenon DEF Compared
<1>7. CASE Restart
  BY <1>7, Zenon DEF Restart, Compared
<1>8. CASE UNCHANGED vars
  BY <1>8, Zenon DEF vars, Compared
<1> QED
  BY <1>1, <1>2, <1>3, <1>4, <1>5, <1>6, <1>7, <1>8 DEF Next, init_floppyfs

\* A kernel notices a filesystem newer than itself for all dates that fit a release,
\* and warns of no other (floppyfs.rs:128).
THEOREM NewerIsNoticed ==
    ASSUME Releases \subseteq Dates, Good \in Dates
    PROVE  Spec => []NewerNoticed
<1>1. Init => Compared
  BY Zenon DEF Init, Compared
<1>2. Compared => NewerNoticed
  <2> SUFFICES ASSUME Compared, pc = "mounted"
               PROVE  warned <=> \E d \in Releases :
                         FsRelease(d.day, d.year) = release /\ Later(d, Good)
    <3> DEFINE P(d) == FsRelease(d.day, d.year) = release /\ Later(d, Good)
    <3>1. NewerNoticed <=> (pc = "mounted" => (warned <=> \E d \in Releases : P(d)))
      BY Zenon DEF NewerNoticed, Later
    <3> QED
      BY <3>1, Zenon
  <2>1. warned <=> newer(release, GoodRelease)
    BY Zenon DEF Compared
  <2>2. ASSUME NEW d \in Releases, FsRelease(d.day, d.year) = release
        PROVE  newer(release, GoodRelease) <=> Later(d, Good)
    BY <2>2, ReleasesOrdered DEF GoodRelease
  <2>3. ASSUME newer(release, GoodRelease)
        PROVE  \E d \in Releases : FsRelease(d.day, d.year) = release
    <3>1. release # GoodRelease
      BY <2>3 DEF newer
    <3> QED
      BY <3>1, Zenon DEF Compared, GoodRelease
  <2> QED
    BY <2>1, <2>2, <2>3, Zenon
<1> QED
  BY <1>1, <1>2, NextCompared, PTL DEF Spec

\* reformat_drive, when it succeeds, leaves no inode in the table, for every size of
\* table and block (init.rs:37-50).
THEOREM FormatEmpties == Spec => FormattedIsEmpty
<1>1. ASSUME IInv, [Next]_vars, pc = "clear", pc' = "table", NEW i \in 1..INODES
      PROVE  is_available(Stored[i])'
  <2> DEFINE b == (i - 1) \div NODS_PER_BLOCK
             k == (i - 1) % NODS_PER_BLOCK
  <2>1. FormatTable
    BY <1>1 DEF Next, init_floppyfs, ReadHeader, Answer, FormatHeader, read_table,
         TableFetch, ScanDone, ScanNod, ScanClash, Scanning, alloc_inode,
         alloc_next_bmp, Restart, vars
  <2>2. /\ DOMAIN disk = 1..INODES
        /\ disk' = [c \in DOMAIN disk |-> IF c <= TableBlocks
                       THEN [j \in 1..NODS_PER_BLOCK |-> Zeroed] ELSE disk[c]]
    BY <1>1, <2>1 DEF FormatTable, Failed, IInv, Typed
  <2>3. INODES \in Nat \ {0} /\ NODS_PER_BLOCK \in Nat \ {0} /\ i - 1 \in Nat /\ i - 1 < INODES
    BY TableConstants
  <2>4. TableBlocks \in Nat /\ INODES = NODS_PER_BLOCK * TableBlocks
    <3>1. /\ INODES \div NODS_PER_BLOCK \in Nat
          /\ INODES = NODS_PER_BLOCK * (INODES \div NODS_PER_BLOCK)
                        + (INODES % NODS_PER_BLOCK)
      BY <2>3, DivMod
    <3>2. (INODES % NODS_PER_BLOCK) = 0
      BY TableConstants
    <3>3. NODS_PER_BLOCK * (INODES \div NODS_PER_BLOCK) \in Nat
      BY <2>3, <3>1
    <3> QED
      BY <3>1, <3>2, <3>3 DEF TableBlocks
  <2>5. b \in Nat /\ k \in Nat /\ k < NODS_PER_BLOCK /\ b < TableBlocks
    <3>1. b \in Nat /\ k \in Nat /\ k < NODS_PER_BLOCK
      BY <2>3, DivMod
    <3>2. i - 1 < NODS_PER_BLOCK * TableBlocks
      BY <2>3, <2>4
    <3>3. b < TableBlocks
      BY <2>3, <2>4, <3>2, DivBound
    <3> QED
      BY <3>1, <3>3
  <2>6. TableBlocks <= INODES
    <3>1. TableBlocks <= NODS_PER_BLOCK * TableBlocks
      BY <2>3, <2>4
    <3> QED
      BY <2>4, <3>1
  <2>7. Stored'[i] = disk'[b + 1][k + 1]
    BY DEF Stored
  <2> HIDE DEF b, k
  <2>8. b + 1 \in 1..INODES /\ b + 1 <= TableBlocks /\ k + 1 \in 1..NODS_PER_BLOCK
    BY <2>3, <2>4, <2>5, <2>6
  <2>9. Stored'[i] = Zeroed
    BY <2>2, <2>7, <2>8
  <2> QED
    BY <2>9 DEF is_available, Zeroed, Nod
<1>2. IInv /\ [Next]_vars =>
        [pc = "clear" /\ pc' = "table" => \A i \in 1..INODES :
           is_available(Stored'[i])]_vars
  BY <1>1
<1> QED
  BY <1>2, Invariance, PTL DEF Spec, FormattedIsEmpty

=============================================================================
