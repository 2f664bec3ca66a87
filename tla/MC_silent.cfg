SPECIFICATION Spec
CONSTANTS
    p1 = p1  p2 = p2  p3 = p3
    a = a  b = b  c = c  x = x  cos = cos
    Path <- MCPath
    MainnetPaths <- MCMainnet
    TestnetPaths <- MCTestnet
    Payload <- MCPayload
    WellFormed <- MCWellFormed
    Cosignatures <- MCCosignatures
    Commands <- MixedCommands
    Faults = {}
    Host = "patient"
    MaxCommands = 3
    MAX_RAW_TX = 400
INVARIANT NoSilentDrop
