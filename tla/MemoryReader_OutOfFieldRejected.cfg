\* The reader returns or panics: a final state has no successor.
CONSTANTS
    Address <- MC_Address
    UsizeMax <- MC_UsizeMax
    Value <- MC_Value
    Modulus <- MC_Modulus
    MaxCells <- MC_MaxCells
    MaxRecords <- MC_MaxRecords
SPECIFICATION Spec
CHECK_DEADLOCK FALSE
INVARIANTS
    OutOfFieldRejected
