\* InstanceTrace::new returns or panics: a final state has no successor.
CONSTANTS
    N <- MC_N
    ShiftPoint <- MC_ShiftPoint
    NSteps <- MC_NSteps
    ScalarBits <- MC_ScalarBits
SPECIFICATION Spec
CHECK_DEADLOCK FALSE
INVARIANTS
    ValidCandidateAccepted
