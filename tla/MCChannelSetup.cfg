SPECIFICATION FairSpec
CONSTANTS
    Requests = {r1, r2}
    MaxTokens = 3
    MaxTries = 3
    MaxFaults = 1
    Opened = {1}
    Updates = {u1, u2}
    Deliveries = {d1, d2}
    Connections = {k1, k2}
    Workspaces = {p1}
    PerMinute = 1
    MaxFailures = 1
    Switches = {c1, c2}
    MaxChoices = 2
INVARIANTS PagesAreTrue LinksAreSound
PROPERTIES OnlyTheEntitledConfirm EveryStartAnswered
CHECK_DEADLOCK FALSE
