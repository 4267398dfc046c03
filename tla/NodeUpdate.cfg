\* Two parameters with two values; the user changes fields twice.
SPECIFICATION Spec
CONSTANTS
    Fields = {1, 2}
    Vals = {0, 1}
    Retries = 2
    MaxEdits = 2
    MaxLink = 2
    None = None
\* The user may stop editing.
CHECK_DEADLOCK FALSE
INVARIANTS
    DriftHasCause
PROPERTIES
    UploadEnds
