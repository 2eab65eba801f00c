--------------------------- MODULE MCInodeTable ---------------------------
(* Disk images for InodeTable: 4 inodes, two to a block, pointers of three    *)
(* bits with the edges of their encoding among them.                          *)
EXTENDS InodeTable

\* The pointers of the files on the disk: null and largest ones, and blocks that two
\* files, or one file twice, use.
SampleFiles == << << <<1, 0>> >>, << <<2, 1>> >>, << <<3, 3>> >>, << <<4, 7>> >>,
                  << <<7, 5>> >>, << <<6, 0>>, <<0, 2>> >> >>

\* Every table of these inodes.
AnyImages == [1..INODES -> {Zeroed} \cup {FileNod(f) : f \in DOMAIN Files}]

\* A freshly formatted drive.
EmptyImage == {EmptyTable}

GoodDate  == [day |-> 40, year |-> 2026]
SomeDates == {GoodDate, [day |-> 366, year |-> 2025], [day |-> 41, year |-> 2026],
              [day |-> 1, year |-> 2027]}
OneDate   == {GoodDate}

=============================================================================
