\* The flow test: two sessions, two selections, display refreshes.
SPECIFICATION FlowSpec
CONSTANTS
    MaxSessions = 2
    MaxVends = 2
    MaxCancels = 2
    InvalidCap = 2
    Amounts = {1}
    Messages <- AllMessages
    FallbackDisplay = "Available"
    SetupDisplays <- PlainDisplay
    LinkMayFail = FALSE
    StartStates <- Enabled
    Patient = FALSE
    MaxRequests = 2
    MaxResets = 0
    MaxBacklog = 1
    MaxKeys = 1
INVARIANTS
    HarnessTypeOK
    PaidForThisVend
    ReportsHonest
    ReportsMatchProduct
