SPECIFICATION Spec
CONSTANTS
    e1 = e1
    e2 = e2
    Endpoints = {e1, e2}
    Kind <- MCKind
    ReadPreference = "GetBlock"
    SendPreference = "Auto"
    Threads = {r1}
    FailureKinds = {"Remote"}
    Operations = {"success", "failure", "enable", "getblock"}
    TickMs = 30000
    MaxCount = 1
    MaxCallers = 2
INVARIANT StaleOfferOnlyByRace
PROPERTIES
    ReadsPreferHealthy
    DisabledEventuallyAvoided
