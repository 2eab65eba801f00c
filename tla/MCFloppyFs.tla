---------------------------- MODULE MCFloppyFs ----------------------------
(* Requests for FloppyFs, on a drive of 3 sectors, 2 heads and 3 cylinders. *)
EXTENDS FloppyFs

RequestsOf(op, blocks, lens) == [op : {op}, block : blocks, n : lens]

\* Runs that start on the first track, reads of up to the whole drive and past
\* it, and writes of at most two parts, like the header and the inode table.
KernelRequests ==
    RequestsOf("read", 0..3, 0..19)
    \cup {r \in RequestsOf("write", 0..3, 0..6) : r.block + r.n <= 6}

\* Writes of three parts and more.
LongWrites == RequestsOf("write", 0..1, 7..9)

\* Runs that start behind the first track.
LaterReads == RequestsOf("read", 4..8, 1..4)

\* Both, and writes that start there.
EveryStart == KernelRequests \cup LaterReads \cup RequestsOf("write", 4..8, 1..4)

\* Runs behind the end of the drive.
FarReads == RequestsOf("read", 18..30, 1..2)

=============================================================================
