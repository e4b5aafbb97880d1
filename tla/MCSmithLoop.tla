------------------------------ MODULE MCSmithLoop ------------------------------
(* SmithLoop on a small instance: the configuration MCSmithLoop.cfg.         *)
EXTENDS SmithLoop, TLC

(* A dead time of 3 at one sample in 2 is two samples.                       *)
Base == [Kp |-> 1, Ki |-> 1, Setpoint |-> 2,
         SetpointFilter |-> [kind |-> "none", size |-> 0],
         Model |-> [K |-> 2, Tau |-> 2, Theta |-> 3], SampleSeconds |-> 2,
         Min |-> 0, Max |-> 3, IClamp |-> 2]

MCConfigs ==
    {Base, [Base EXCEPT !.Ki = 0, !.IClamp = 1],
     [Base EXCEPT !.SetpointFilter = [kind |-> "moving_average", size |-> 2]],
     [Base EXCEPT !.Model.Theta = 0], [Base EXCEPT !.Model.Theta = 2], [Base EXCEPT !.Model.Tau = 0]}

MCSetpoints == {2, 4}
MCTimes     == 0 .. 2
MCDecay     == <<37, 61>>
MCPersist   == <<2, 0>> :> 100 @@ <<2, 1>> :> 61 @@ <<2, 2>> :> 37
=============================================================================
