SPECIFICATION FairDelivery
CONSTANTS
    Checks = {c1}
    Projects = {p1, p2}
    Channels = {h1, h2}
    Alerts = {a1}
    Gone = Gone
    Legacy = Legacy
    NoChannel = NoChannel
    MaxAttempts = 2
    MaxStalls = 1
    MaxIncidents = 2
INVARIANTS OnlySelected ServedAndTold
PROPERTIES AlertsSettle
CHECK_DEADLOCK FALSE
