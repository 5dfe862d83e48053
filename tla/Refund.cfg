\* VEND FAILURE after an out-of-sequence message.
SPECIFICATION SystemSpec
CONSTANTS
    MaxSessions = 1
    MaxVends = 1
    MaxCancels = 1
    InvalidCap = 1
    Amounts = {1}
    Messages <- AllMessages
    FallbackDisplay = "Available"
    SetupDisplays <- PlainDisplay
    LinkMayFail = FALSE
    StartStates <- Enabled
    Patient = TRUE
    MaxRequests = 1
    MaxResets = 1
    MaxBacklog = 0
INVARIANT
    FailureIsRefunded
