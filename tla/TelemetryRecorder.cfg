\* Two recorded values; three records, of this vehicle or of another one; four
\* samples, choices of the user and failures in any order; at most two samples
\* wait for a record.
SPECIFICATION Spec
CONSTANTS
    Facts = {f1, f2}
    Vals = {v1, v2}
    Configs = {c1}
    Keys = {1, 2, 3}
    PendingLimit = 2
    MaxInputs = 4
    None = None
SYMMETRY Symmetry
\* Samples and choices are bounded.
CHECK_DEADLOCK FALSE
INVARIANTS
    OwnRecord
    OneEraOneRecord
    Replayable
    ConfigIsNamed
    PendingIsAwaited
PROPERTIES
    CommittedStays
