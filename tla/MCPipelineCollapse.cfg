SPECIFICATION Spec
CONSTANTS
    t1 = t1
    t2 = t2
    t3 = t3
    Txs = {t1, t2}
    NoTx = NoTx
    Score <- MCScore
    PreDecodeRejects = {}
    LookupWorkers = {l1}
    EvalWorkers = {e1}
    LookupQueueCapacity = 1
    EvalQueueCapacity = 1
    MaxBatch = 2
    SeenCapacity = 1
    LookupBudgets = {1}
    Setups <- MCFull
    MaxDeliveries = 6
    MaxToggles = 0
INVARIANTS
    NoBackpressureCollapse
CHECK_DEADLOCK FALSE
