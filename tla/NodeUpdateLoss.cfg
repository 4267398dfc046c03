\* One upload of two parameters over a link that loses packets.
SPECIFICATION Spec
CONSTANTS
    Fields = {1, 2}
    Vals = {0, 1}
    Retries = 1
    MaxEdits = 2
    MaxLink = 2
    None = None
CHECK_DEADLOCK FALSE
INVARIANTS
    AllWritten
