SPECIFICATION FairSpec
CONSTANTS
    Checks = {c1}
    Sweepers = {s1, s2}
    Jobs = {j1}
    Pings = {g1}
    Cadences <- MCCadences
    NoCadence = NoCadence
    NoCheck = NoCheck
    MaxClock = 3
    MaxTries = 1
    MaxFaults = 1
INVARIANTS StatusAgrees AlertsAccountedFor
PROPERTIES PauseAndDeleteHold ImplementsContract OverdueIsNoticed
