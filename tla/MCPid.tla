--------------------------------- MODULE MCPid ---------------------------------
(* Pid on small instances: the configuration MCPid.cfg.                      *)
EXTENDS Pid

Plain == [Kp |-> 1, Ki |-> 1, Kd |-> 0, FFGain |-> 0, Setpoint |-> 2,
          SetpointFilter |-> [kind |-> "none", size |-> 0],
          Min |-> 0, Max |-> 6, IClamp |-> 4]

MA(n)   == [kind |-> "moving_average", size |-> n]
Lag     == [kind |-> "exponential", size |-> 2]

(* Gains and limits: derivative, feedforward, a smaller clamp, refused ones. *)
GainConfigs ==
    {Plain, [Plain EXCEPT !.Kd = 1], [Plain EXCEPT !.Kp = 4, !.IClamp = 1], [Plain EXCEPT !.FFGain = 1, !.IClamp = 1],
     [Plain EXCEPT !.Min = 7], [Plain EXCEPT !.IClamp = -1]}

(* The same controller behind one setpoint filter or another.                *)
FilterConfigs ==
    {[Plain EXCEPT !.SetpointFilter = s] : s \in {MA(0), MA(3), Lag}}

MCConfigs    == GainConfigs \cup FilterConfigs
MCMeasures   == {0, 3, 5}
MCSetpoints  == {2, 8}
MCTimes      == 0 .. 2

MCDecay == [n \in 0 .. 3 |-> <<0, 37, 61, 72>>[n + 1]]
=============================================================================
