CONSTANTS
    Workers = {w1}
    Producers = {p1}
    Messages = {m1, m2}
    Poison = {}
    NoMsg = NoMsg
    Types = {"kafka"}
    Capacity = 1
    MaxMessages = 1
    Queries = {}
    NoQuery = NoQuery
    MaxSwitches = 0
    MaxFailures = 1
    MaxRestarts = 0
SPECIFICATION Spec
INVARIANT NoMessageLost
CHECK_DEADLOCK FALSE
