CONSTANTS
    INODES = 4
    NODS_PER_BLOCK = 2
    Nibble = 2
    Releases <- OneDate
    Good <- GoodDate
    Files <- SampleFiles
    Images <- EmptyImage
    MaxAllocs = 3
    MaxRestarts = 1
SPECIFICATION Spec
PROPERTY ReturnsPointer
CHECK_DEADLOCK FALSE
