------------------------------- MODULE MCProgram -------------------------------
(* Program on a small instance: the configuration MCProgram.cfg.             *)
EXTENDS Program

Averaged == [kind |-> "moving_average", size |-> 1]
MCTimes  == 0 .. 1
MCDecay  == [n \in 0 .. 3 |-> <<0, 37, 61, 72>>[n + 1]]

TwoMappings == [s \in {"busy", "used"} |-> IF s = "busy" THEN "cpu" ELSE "memory"]
MCSamples == {[kind |-> "gauge", value |-> 4], [kind |-> "counter", value |-> NaN]}
MCPoints == {[value |-> 4, at |-> 0], [value |-> 4, at |-> 1]}
=============================================================================
