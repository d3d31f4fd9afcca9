SPECIFICATION HistorySpec
CONSTANTS
    Open = 99
    NoEvent <- MCNoEvent
    MaxTimelineSpans = 1
    Interval = 1
    MinGap = 2
    Skew = 1
    Period = 4
    Bucket = 2
    MaxTime = 5
    MaxWrites = 3
INVARIANTS HistoryIsSound ViewIsSound FixedWhenBroken
CHECK_DEADLOCK FALSE
