SPECIFICATION Spec
CONSTANTS
    Digits = {0, 1, 9}
    MaxNumber = 199999999
    Bytes = {10, 65, 126, 200, 255}
    MaxBytes = 5
    TextSizes = {1, 4, 5, 8, 9, 11, 40, 41, 51}
    KeySteps = {0, 1, 7, 64, 101, 255}
CHECK_DEADLOCK FALSE
INVARIANTS
    TokenIsAmount
    NumberReadsBack
    AsciiKeepsPrintable
    HexReadsBack
    Base32Decodes
    SboxIsFieldInverse
    ColumnsMixAsField
    CipherGivesKnownAnswers
    DelegatedKeyOpens
