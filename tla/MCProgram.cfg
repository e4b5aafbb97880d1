CONSTANTS
    NaN = NaN
    None = None
    Configured = Configured
    LagPoller = "lag"
    Workers = {"w1"}
    Decay <- MCDecay
    Types = {"pid", "smith", "step"}
    Protocols = {"none", "exporter", "prometheusapi"}
    Mappings <- TwoMappings
    Samples <- MCSamples
    Points <- MCPoints
    MeasureSpec <- Averaged
    Times <- MCTimes
SPECIFICATION FairSpec
INVARIANTS StaleRateOnce GracefulStop
PROPERTIES QuietAfterStop SwitchTakesEffect ProgramEnds
CHECK_DEADLOCK FALSE
