\* The two routines are computations that return (or panic): a final state
\* has no successor by design.
CONSTANTS
    N <- MC_N
    ShiftPoint <- MC_ShiftPoint
    NSteps <- MC_NSteps
    ScalarBits <- MC_ScalarBits
SPECIFICATION Spec
CHECK_DEADLOCK FALSE
INVARIANTS
    MimicIffAirOk
