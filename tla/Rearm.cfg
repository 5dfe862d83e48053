\* The flow test and a reset before the selection.
SPECIFICATION FlowSpec
CONSTANTS
    MaxSessions = 2
    MaxVends = 1
    MaxCancels = 1
    InvalidCap = 2
    Amounts = {1}
    Messages <- AllMessages
    FallbackDisplay = "Available"
    SetupDisplays <- PlainDisplay
    LinkMayFail = FALSE
    StartStates <- Enabled
    Patient = TRUE
    MaxRequests = 1
    MaxResets = 1
    MaxBacklog = 0
    MaxKeys = 1
PROPERTY
    RearmsAfterEnd
