CONSTANTS
    Leads = {l1}
    Channels = {email, phone}
    Workers = {w1}
    Assignments = {a1}
    Destinations <- AllChannels
    MaxAttempts = 2
    MaxClaims = 9
    MaxCrashes = 1
    Events = {"stall", "erase", "transient", "reject"}
    None = None
SPECIFICATION FairSpec
PROPERTIES
    EveryDeliverySettles
CHECK_DEADLOCK FALSE
