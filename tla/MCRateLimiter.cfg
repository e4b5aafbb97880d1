CONSTANTS
    Burst = 2
    Token = 2
    Never = 100
    w1 = w1
    w2 = w2
    Workers = {w1, w2}
    Teams <- MCTeams
    Rates <- MCRates
    Second = 1
    MaxDebt = 4
    MaxLate = 1
SPECIFICATION FairSpec
INVARIANTS DrainBounded ZeroRatePauses NegativeRateEnds
PROPERTIES Drains WorkersEnd
