SPECIFICATION ProcessSpec
CONSTANTS
    Checks = {c1}
    Schedulers = {s1}
    Workers = {w1}
    Intervals = {i1}
    MaxStamp = 6
    Null = Null
    Keep = 1
    MaxTries = 2
    MaxEdits = 2
    MaxFaults = 1
    Jobs = {j1, j2}
    MaxStarts = 2
    MaxFailures = 2
INVARIANTS ShutdownInOrder
PROPERTIES DueIsProbedUnlessRemembered NoHeartbeatRevives NothingHangs
CHECK_DEADLOCK FALSE
