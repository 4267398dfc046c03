\* Two items: of one node, of two, or one of them the chip on the port.
SPECIFICATION FairUpgradeSpec
CONSTANTS
    Uids = {nav, ifc}
    Types = {"fw", "ldr"}
    IdentRetries = 1
    MaxItems = 2
    MaxStops = 1
    NoNode = NoNode
\* The bounds on items and stops end every behaviour.
CHECK_DEADLOCK FALSE
INVARIANTS
    ResultIsTrue
PROPERTIES
    QueueMovesOn
