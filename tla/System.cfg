\* Reader and machine: two sessions, a vend, and a reset or an opened door.
SPECIFICATION SystemSpec
CONSTANTS
    MaxSessions = 2
    MaxVends = 1
    MaxCancels = 2
    InvalidCap = 2
    Amounts = {1}
    Messages <- AllMessages
    FallbackDisplay = "Available"
    SetupDisplays <- PlainDisplay
    LinkMayFail = FALSE
    StartStates <- Enabled
    Patient = FALSE
    MaxRequests = 1
    MaxResets = 1
    MaxBacklog = 0
INVARIANTS
    SystemTypeOK
    ReportsMatchProduct
