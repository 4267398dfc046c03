\* Three requests on two nodes, of three classes: one that is always alone
\* (ident), one without retries (usr), and one that goes on for several packets
\* and that the node may withdraw (file).  The theorems cover every class.
SPECIFICATION FairSpec
CONSTANTS
    Reqs = {r1, r2, r3}
    Nodes = {n1, n2}
    Kinds = {"ident", "usr", "file"}
    Names = {a}
    Retries = 1
    MaxSteps = 1
    None = None
\* In the end all requests are deleted.
CHECK_DEADLOCK FALSE
INVARIANTS
    SequencerInv
    ListsAgree
    FinishedOnce
PROPERTIES
    ImplementsFifo
    Turns
    EveryRequestEnds
