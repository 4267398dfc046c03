\* Two vehicles, and squawks enough for a free one to be found whenever one is
\* to be assigned (see README).
SPECIFICATION FairSpec
CONSTANTS
    Vehicles = {v1, v2}
    Squawks = {1, 2, 3, 4}
    BlacklistLimit = 1
    MaxLink = 1
    MaxEvents = 1
    None = None
\* A crash ends everything but the vehicles.
CHECK_DEADLOCK FALSE
INVARIANTS
    MapNamesTheLiving
PROPERTIES
    SettledStays
    Settles
