\* Two vends in one session; the table of invalid vends holds one entry.
SPECIFICATION Spec
CONSTANTS
    MaxSessions = 1
    MaxVends = 2
    MaxCancels = 2
    InvalidCap = 1
    Amounts = {1}
    Messages <- VendMessages
    FallbackDisplay = "Available"
    SetupDisplays <- PlainDisplay
    LinkMayFail = FALSE
INVARIANTS
    NoVendAfterEndRequest
    ApprovedVendAccounted
    SingleAnswer
    DecisionHonest
    InvalidTable
    PendingHasDecider
