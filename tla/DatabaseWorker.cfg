\* Two requests of any class, and the end of the session; a batch is full after
\* two, and so is the queue.
SPECIFICATION FairSpec
CONSTANTS
    Reqs = {r1, r2}
    Kinds = {"plain", "bulk", "import", "trash", "fields"}
    BatchLimit = 0
    QueueLimit = 2
    None = None
\* The worker may hang or crash, and a destroyed session does nothing more.
CHECK_DEADLOCK FALSE
INVARIANTS
    AnsweredOnce
    ErrorLeavesNothing
    IdleIsCommitted
    ToldTheTruth
PROPERTIES
    LossHasCause
    ImplementsGroupCommit
    EveryRequestAnswered
    CloseEnds
