SPECIFICATION FairRecorderSpec
CONSTANTS
    Senders = {s1, s2}
    Stoppers = {t1, t2}
    BufSize = 2
    Events = {e1, e2}
    NoEvent = none
INVARIANTS TypeOK NeverPanics InOrder StopDrains
PROPERTY EveryStopReturns
