\* Reader and machine under fairness.
SPECIFICATION FairSystem
CONSTANTS
    MaxSessions = 1
    MaxVends = 1
    MaxCancels = 1
    InvalidCap = 1
    Amounts = {1}
    Messages <- AllMessages
    FallbackDisplay = "Available"
    SetupDisplays <- PlainDisplay
    LinkMayFail = FALSE
    StartStates <- Enabled
    Patient = FALSE
    MaxRequests = 1
    MaxResets = 0
    MaxBacklog = 0
PROPERTIES
    FinishReturnsEventually
    MachineReleased
