CONSTANTS
    Layouts <- MC_Layouts
    Entries <- MC_Entries
    MaxEntries <- MC_MaxEntries
SPECIFICATION Spec
INVARIANTS
    TypeOK
    EncodesSchema
    FailsExactlyWhenUnencodable
CHECK_DEADLOCK FALSE
