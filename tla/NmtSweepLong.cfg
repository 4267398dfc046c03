\* Lists on which the pass leaves requests of the node.
SPECIFICATION SweepSpec
CONSTANTS
    MaxLen = 7
\* The pass ends.
CHECK_DEADLOCK FALSE
INVARIANTS
    ClearsNode
