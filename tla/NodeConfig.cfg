\* A node with or without a script, as firmware changes, and any two events from
\* outside.
SPECIFICATION FairSpec
CONSTANTS
    Dicts = {h1, h2}
    Scripted = {h1}
    Vals = {0, 1}
    MaxEvents = 2
    Junk = Junk
    None = None
\* A node that is known is asked for nothing more.
CHECK_DEADLOCK FALSE
INVARIANTS
    ShownIsHeld
    ConfigsAreTrue
PROPERTIES
    BecomesValid
