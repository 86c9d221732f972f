SPECIFICATION Spec
CONSTANTS
    e1 = e1
    e2 = e2
    Endpoints = {e1}
    Kind <- MCKind
    ReadPreference = "GetBlock"
    SendPreference = "Auto"
    Threads = {}
    FailureKinds = {"Timeout", "RateLimited", "CapacityExhausted", "Stale",
                    "Transport", "Remote"}
    Operations = {"success", "failure", "enable", "reserve_read",
                  "reserve_send"}
    TickMs = 5000
    MaxCount = 5
    MaxCallers = 1
INVARIANT TypeOK
PROPERTY CooldownCutOnlyByBurst
