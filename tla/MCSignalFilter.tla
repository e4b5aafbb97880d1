----------------------------- MODULE MCSignalFilter -----------------------------
(* SignalFilter on small instances: the configurations MCSignalFilter_*.cfg. *)
EXTENDS SignalFilter

AllSpecs   == [kind : FilterKinds, size : 0 .. 3]
ThreeWide  == {[kind |-> "moving_average", size |-> 3]}
Numbers    == {0, 6, 15}
WithNaN    == {0, 6, NaN}

MCDecay == [n \in 0 .. 3 |-> <<0, 37, 61, 72>>[n + 1]]
=============================================================================
