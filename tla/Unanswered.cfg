\* A VEND REQUEST when every handle has been dropped.
SPECIFICATION Spec
CONSTANTS
    MaxSessions = 1
    MaxVends = 1
    MaxCancels = 1
    InvalidCap = 1
    Amounts = {1}
    Messages <- VendMessages
    FallbackDisplay = "Available"
    SetupDisplays <- PlainDisplay
    LinkMayFail = FALSE
PROPERTY
    VendRequestAnswered
