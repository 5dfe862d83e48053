\* Two sessions, one vend of two amounts, every message, a link that may break.
SPECIFICATION Spec
CONSTANTS
    MaxSessions = 2
    MaxVends = 1
    MaxCancels = 1
    InvalidCap = 1
    Amounts = {1, 2}
    Messages <- AllMessages
    FallbackDisplay = "Available"
    SetupDisplays <- PlainDisplay
    LinkMayFail = TRUE
INVARIANTS
    TypeOK
    DeviceMeansNoSession
    NoLostWaiter
    StatusMatchesSession
    OutcomeConsistent
