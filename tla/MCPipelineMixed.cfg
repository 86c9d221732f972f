SPECIFICATION Spec
CONSTANTS
    t1 = t1
    t2 = t2
    t3 = t3
    Txs = {t1, t2, t3}
    NoTx = NoTx
    Score <- MCScore
    PreDecodeRejects = {t3}
    LookupWorkers = {l1}
    EvalWorkers = {e1}
    LookupQueueCapacity = 1
    EvalQueueCapacity = 1
    MaxBatch = 3
    SeenCapacity = 2
    LookupBudgets = {1, 2}
    Setups <- MCFull
    MaxDeliveries = 4
    MaxToggles = 2
INVARIANTS
    SeenWindowCoherent
    DuplicateOnlyAfterEviction
PROPERTIES
    BestCandidateFirst
    PauseCommitsNothing
CHECK_DEADLOCK FALSE
