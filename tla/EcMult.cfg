\* The two routines are computations that return (or panic): a final state
\* has no successor by design.  Weak fairness is needed only by BothReturn.
CONSTANTS
    N <- MC_N
    ShiftPoint <- MC_ShiftPoint
    NSteps <- MC_NSteps
    ScalarBits <- MC_ScalarBits
SPECIFICATION FairSpec
CHECK_DEADLOCK FALSE
INVARIANTS
    TypeOK
    MimicComputesShiftedMult
    TraceSatisfiesRows
    MimicMatchesReference
    GenMatchesReference
PROPERTIES
    BothReturn
