CONSTANTS
    OffBits <- MC_OffBits
    UsizeBits <- MC_UsizeBits
    P <- MC_P
    Mem <- MC_Mem
    Words <- AddrWords
    Registers <- MC_RegistersHigh
SPECIFICATION Spec
INVARIANTS
    CallMatchesReference
CHECK_DEADLOCK FALSE
