SPECIFICATION Spec
CONSTANTS
    a = a
    b = b
    Tasks = {a, b}
    None = None
    Configs <- MCConfigs
    Txs <- MCTxs
    Signals <- MCSignals
    Payloads <- MCPayloads
    Preflights <- MCPreflights
    Quotes <- MCQuotes
    SmallBudget = 1
    ReplayCapacity = 1
    ReplayMinRepeat = 1
    MaxSwitches = 1
    MaxWindows = 1
INVARIANTS
    FunnelBalances
    PanicOnlyByRacedSwitch
    ReadyIsJustified
PROPERTIES
    ReplayReachesStorage
CHECK_DEADLOCK FALSE
