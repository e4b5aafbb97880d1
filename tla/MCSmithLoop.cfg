CONSTANTS
    NaN = NaN
    Decay <- MCDecay
    Persist <- MCPersist
    Configs <- MCConfigs
    Setpoints <- MCSetpoints
    Times <- MCTimes
SPECIFICATION Spec
INVARIANT DeadTimeCancelled
