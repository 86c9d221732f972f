CONSTANTS
    GasPrices = {0, 3, 30, 100}
    BaseFees = {0, 1, 76, 200}
    GasCaps = {3, 100}
    Overpays <- MCOverpays
    Endpoints = {1, 2}
    Capacity <- MCCapacity
    Modes = {"conservative", "scavenger"}
    Configured = {50}
    WindowTicks = 3
    RefreshTicks = 2
    MaxOffers = 6
    Callers = {c1, c2}
    Ttl = 1
    BlockSlack = 1
    NodeLag = 1
    MaxHead = 3
    MaxGets = 3
    Handlers = {h1, h2}
    Fields = {f1, f2}
    Values = {0, 1, 2}
    OpportunityModes = {"conservative", "scavenger"}
    InitialMode = "conservative"
    InitialValue = 1
    MaxRequests = 3
    Writers = {w1, w2}
    KeepFiles = 2
    MaxLines = 1
    SampleRate = 2
    RejectKeys = {k1}
    MaxRecords = 5
    Relays = {r1, r2}
    Latencies = {100, 400}
    Captures = {0, 12500}
    Markets <- MCMarkets
    MaxOutcomes = 5
    Tokens = {"weth", "usdc", "pol", "x"}
    Leaves <- MCLeaves
    Commands <- MCCommands
    Monitored <- MCMonitored
    Counterpart <- MCCounterpart
    PriceEth <- MCPriceEth
    DecimalsFactor <- MCDecimalsFactor
    MinLargeSwap = 2
    DecoderModes = {"conservative", "aggressive", "scavenger"}
    MaxWraps = 2
    MaxNests = 4
SPECIFICATION Spec
CHECK_DEADLOCK FALSE
INVARIANTS
    FeesAreSound
    CacheIsSound
    LogNamesEffective
    EarlyLossOnlyByOverlap
    RatesAreShares
    FailedRelayNotFirst
    SignalIsFaithful
    NestingNeverHides
PROPERTIES
    BudgetFollowsHealth
    RegressionOnlyByRace
    UpdateLostOnlyByRace
    BadOutcomeNeverHelps
