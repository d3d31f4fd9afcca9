SPECIFICATION Spec
CONSTANTS
    Checks = {c1}
    Schedulers = {s1, s2}
    Workers = {w1, w2}
    Intervals = {i1}
    MaxStamp = 4
    Null = Null
    Keep = 1
    MaxTries = 2
    MaxEdits = 1
    MaxFaults = 1
SYMMETRY MCSymmetry
INVARIANTS QueueIsSound
CHECK_DEADLOCK FALSE
