\* The refinement of VendLedger and progress, with a link that may break.
SPECIFICATION FairSpec
CONSTANTS
    MaxSessions = 1
    MaxVends = 2
    MaxCancels = 1
    InvalidCap = 1
    Amounts = {1}
    Messages <- OpenEndedMessages
    FallbackDisplay = "Unknown"
    SetupDisplays <- NoDisplay
    LinkMayFail = TRUE
PROPERTIES
    KeepsLedger
    DecisionReturns
    VendBounded
    ActorStops
