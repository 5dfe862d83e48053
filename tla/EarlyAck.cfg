\* An ACK of an earlier frame while END SESSION is outstanding.
SPECIFICATION SystemSpec
CONSTANTS
    MaxSessions = 1
    MaxVends = 1
    MaxCancels = 1
    InvalidCap = 1
    Amounts = {1}
    Messages <- AllMessages
    FallbackDisplay = "Available"
    SetupDisplays <- PlainDisplay
    LinkMayFail = FALSE
    StartStates <- Enabled
    Patient = TRUE
    MaxRequests = 1
    MaxResets = 0
    MaxBacklog = 0
PROPERTY
    EndSessionSettled
