SPECIFICATION Spec
CONSTANTS
    t1 = t1
    t2 = t2
    t3 = t3
    Txs = {t1}
    NoTx = NoTx
    Score <- MCScore
    PreDecodeRejects = {}
    LookupWorkers = {l1}
    EvalWorkers = {e1}
    LookupQueueCapacity = 1
    EvalQueueCapacity = 1
    MaxBatch = 3
    SeenCapacity = 1
    LookupBudgets = {2}
    Setups <- MCLowCap
    MaxDeliveries = 2
    MaxToggles = 0
INVARIANTS
    EvalWorkersSurvive
CHECK_DEADLOCK FALSE
