CONSTANTS
    NaN = NaN
    Decay <- MCDecay
    Specs <- AllSpecs
    Samples <- Numbers
SPECIFICATION Spec
PROPERTIES NoOvershoot MeanOfLast
