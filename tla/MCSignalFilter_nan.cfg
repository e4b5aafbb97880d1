CONSTANTS
    NaN = NaN
    Decay <- MCDecay
    Specs <- ThreeWide
    Samples <- WithNaN
SPECIFICATION Spec
INVARIANT NaNForgotten
