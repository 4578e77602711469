SPECIFICATION MCSpec
CONSTANTS
    a = a
    b = b
    c = c
    Nodes = {a, b, c}
    Watcher = a
    Pollers = {a, b}
    Hears <- Announced
    Old = {}
    Trust <- Line
    Grants <- LineGrants
    Addresses <- Dialled
    Editors = {a, b}
    Id <- Ids
    Rank <- Links
    MaxSightings = 1
    MaxVouched = 2
    MaxEvents = 3
    LineEvents = 1
    MaxAsks = 1
INVARIANTS RequestsRunByGrant WordIsFirstHand
CHECK_DEADLOCK FALSE
PROPERTIES DownIsNoticed VouchedIsRouted UnpairedIsForgotten
