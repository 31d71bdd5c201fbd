CONSTANTS
    OffBits <- MC_OffBits
    UsizeBits <- MC_UsizeBits
    P <- MC_P
    Mem <- MC_Mem
    Words <- MC_Words
    Registers <- MC_Registers
SPECIFICATION Spec
INVARIANTS
    TypeOK
    RoundTrip
    FlagPrefixMatchesPaper
    CallMatchesReference
CHECK_DEADLOCK FALSE
