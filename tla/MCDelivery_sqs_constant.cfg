CONSTANTS
    Workers = {w1, w2}
    Producers = {p1}
    Messages = {m1, m2}
    Poison = {}
    NoMsg = NoMsg
    Types = {"sqs", "constant"}
    Capacity = 1
    MaxMessages = 2
    Queries = {q1}
    NoQuery = NoQuery
    MaxSwitches = 1
    MaxFailures = 1
    MaxRestarts = 1
SPECIFICATION Spec
INVARIANTS NoMessageLost SettledOrGivenUp ConstantHasBody
SYMMETRY Symmetry
CHECK_DEADLOCK FALSE
