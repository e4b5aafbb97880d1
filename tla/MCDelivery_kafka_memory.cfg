CONSTANTS
    Workers = {w1, w2}
    Producers = {p1}
    Messages = {m1, m2, bad}
    Poison = {bad}
    NoMsg = NoMsg
    Types = {"kafka", "inmemory"}
    Capacity = 1
    MaxMessages = 1
    Queries = {}
    NoQuery = NoQuery
    MaxSwitches = 2
    MaxFailures = 1
    MaxRestarts = 1
SPECIFICATION Spec
SYMMETRY Symmetry
INVARIANTS TypeOK SettledOrGivenUp NothingLostWithoutFailure OncePerProcess SizeAgrees
PROPERTY SwitchIsInvisible
CHECK_DEADLOCK FALSE
