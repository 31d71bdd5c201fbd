\* The reader returns or panics: a final state has no successor.
CONSTANTS
    s1 = s1
    s2 = s2
    s3 = s3
    State <- MC_State
    MaxRecords <- MC_MaxRecords
SPECIFICATION Spec
CHECK_DEADLOCK FALSE
INVARIANTS
    TypeOK
    ReturnsWholeStream
