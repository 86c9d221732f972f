SPECIFICATION Spec
CONSTANTS
    t1 = t1
    t2 = t2
    t3 = t3
    Txs = {t1, t2}
    NoTx = NoTx
    Score <- MCScore
    PreDecodeRejects = {}
    LookupWorkers = {l1}
    EvalWorkers = {e1}
    LookupQueueCapacity = 1
    EvalQueueCapacity = 1
    MaxBatch = 3
    SeenCapacity = 1
    LookupBudgets = {2}
    Setups <- MCHash
    MaxDeliveries = 6
    MaxToggles = 0
INVARIANTS
    HashAdmissionNeverBlocks
PROPERTIES
    CandidatesResolve
    FailedRunStopsWorkers
    InboxDrains
CHECK_DEADLOCK FALSE
