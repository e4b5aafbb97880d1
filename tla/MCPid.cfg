CONSTANTS
    NaN = NaN
    NoParams = NoParams
    Decay <- MCDecay
    Configs <- MCConfigs
    Setpoints <- MCSetpoints
    Measures <- MCMeasures
    Times <- MCTimes
SPECIFICATION Spec
INVARIANTS TypeOK IntegralBounded NoWindup ReferenceArrives
PROPERTY LeavesLimits
