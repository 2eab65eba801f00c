CONSTANTS
    INODES = 4
    NODS_PER_BLOCK = 2
    Nibble = 2
    Releases <- SomeDates
    Good <- GoodDate
    Files <- SampleFiles
    Images <- AnyImages
    MaxAllocs = 3
    MaxRestarts = 1
SPECIFICATION Spec
INVARIANTS OneUserPerBlock BitmapExact PointersSurvive
PROPERTY MountKeepsInodes
CHECK_DEADLOCK FALSE
