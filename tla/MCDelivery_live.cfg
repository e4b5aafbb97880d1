CONSTANTS
    Workers = {w1}
    Producers = {p1}
    Messages = {m1, m2}
    Poison = {}
    NoMsg = NoMsg
    Types = {"kafka", "inmemory", "constant"}
    Capacity = 1
    MaxMessages = 1
    Queries = {}
    NoQuery = NoQuery
    MaxSwitches = 2
    MaxFailures = 0
    MaxRestarts = 1
SPECIFICATION FairSpec
PROPERTIES ImplementsAtLeastOnce StopQuiesces EventuallyPushed EnqueueReturns
CHECK_DEADLOCK FALSE
