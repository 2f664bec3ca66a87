SPECIFICATION Spec
CONSTANTS
    Lengths <- MCLengths
    WordsOf <- MCWords
    TypesOf <- MCTypes
    VersionsOf <- MCVersions
    MAX_FIELD_COUNT = 14
    MAX_FIELD_LEN = 74
    MAX_FIELDNAME_LEN = 1
    CharsOf <- MCCharsOf
    UINT32 = 1048576
    RING = 4
    PAGE = 3
    MaxUploads = 2
    MaxTurns = 2
INVARIANTS
    LabelIsOwn
CHECK_DEADLOCK FALSE
