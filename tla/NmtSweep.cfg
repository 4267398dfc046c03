\* Every list of at most seven requests, every set of requests to remove, with and without
\* an ident request that is answered.
SPECIFICATION SweepSpec
CONSTANTS
    MaxLen = 7
\* The pass ends.
CHECK_DEADLOCK FALSE
INVARIANTS
    ShortIsExact
    FirstIsRemoved
    AnswerIsSafe
