SPECIFICATION ParserSpec
CONSTANTS
    Lengths <- TransferLengths
    WordsOf <- MCWords
    TypesOf <- MCTypes
    VersionsOf <- MCVersions
    MAX_FIELD_COUNT = 14
    MAX_FIELD_LEN = 74
    MAX_FIELDNAME_LEN = 4
    CharsOf <- MCCharsOf
    UINT32 = 1048576
INVARIANT XemIsOfNem
CHECK_DEADLOCK FALSE
