SPECIFICATION Spec
CONSTANTS
    o1 = o1
    o2 = o2
    o3 = o3
    pairA = pairA
    pairB = pairB
    cluA = cluA
    cluB = cluB
    router = router
    Opps = {o1, o2, o3}
    NoOpp = NoOpp
    Info <- MCInfo
    Paths = {p1, p2}
    NoPath = NoPath
    Balances = {0, 2}
    MinBuffer = 1
    TargetBuffer = 2
    MaxBuffer = 3
    CapitalWindow = 1
    MaxWindowExposure = 3
    MaxClusterExposure = 2
    MaxPairExposure = 2
    StopLossLosses = 2
    StopLossFreeze = 1
    ContextLosses = 2
    ContextFreeze = 2
    DecayFloor = 1
    Fanout = 1
    ObserveRounds = 1
    Bands = {0, 3}
    Setups <- MCDirect
    MaxTime = 3
INVARIANTS
    WindowExposureBounded
CHECK_DEADLOCK FALSE
