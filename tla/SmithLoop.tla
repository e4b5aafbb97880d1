-------------------------------- MODULE SmithLoop --------------------------------
(****************************************************************************)
(* The Smith controller and the target it controls.  The target is what the   *)
(* controller's model says of it at the start: a first-order response to the  *)
(* drain rate, seen through a dead time of a whole number of samples.         *)
(****************************************************************************)
EXTENDS Smith, Sequences

CONSTANTS Setpoints,    \* what SetSetpoint may be called with
          Times         \* times of the samples

ASSUME SmithAssumption ==
    /\ Configs \subseteq [Kp : Int, Ki : Int, Setpoint : Int,
                          SetpointFilter : [kind : FilterKinds, size : Int],
                          Model : [K : Int, Tau : Int, Theta : Int], SampleSeconds : Int,
                          Min : Int, Max : Int, IClamp : Int]
    /\ Setpoints \subseteq Int
    /\ Times \subseteq Int
    /\ NaN \notin Int
    /\ \A p \in Configs : Decay[Normalize(p.SetpointFilter).size] \in 0 .. 100
    /\ \A p \in Configs, a, b \in Times :
          ValidModel(p) /\ a <= b => Persist[<<p.Model.Tau, b - a>>] \in 0 .. 100

VARIABLES plant,     \* the target: its model, its output and what is still under way
          matched    \* history: the predictor has followed the target from the start
vars == <<smith, plant, matched>>

Init ==
    /\ SmithInit
    /\ plant = [model |-> params.Model, output |-> 0,
                line |-> [i \in 1 .. DelaySamples(params) |-> 0]]
    /\ matched = TRUE

(* A poll: the target has run at the last drain rate since the sample before,*)
(* and shows what it did a dead time ago.                                    *)
Sample(at) ==
    LET output == Response(plant.model, plant.output, terms.Output, Elapsed(clock, at))
        line   == Append(plant.line, output)
    IN /\ Compute(Head(line), at)
       /\ plant' = [plant EXCEPT !.output = output, !.line = Tail(line)]
       /\ UNCHANGED matched

(* A PATCH.                                                                  *)
Retune(p) == /\ SetParams(p)
             /\ matched' = (matched /\ p.Model = params.Model
                                    /\ p.SampleSeconds = params.SampleSeconds)
             /\ UNCHANGED plant

ChangeSetpoint(sp) == SetSetpoint(sp) /\ UNCHANGED <<plant, matched>>

(* The controller is switched away from and back to.                         *)
Restart == Reset /\ matched' = FALSE /\ UNCHANGED plant

Next == \/ \E at \in Times : Sample(at)
        \/ \E p \in Configs : Retune(p)
        \/ \E sp \in Setpoints : ChangeSetpoint(sp)
        \/ Restart

Spec == Init /\ [][Next]_vars

TypeOK ==
    /\ \E p \in Configs : params = [Normal(p) EXCEPT !.Setpoint = params.Setpoint]
    /\ ValidParams(params)
    /\ SpecOf(ref.filter) = params.SetpointFilter
    /\ clock.started \in BOOLEAN /\ clock.last \in Int
    /\ integral \in Int
    /\ predictor.model = params.Model
    /\ DOMAIN predictor.delay = 0 .. DelaySamples(params) - 1
    /\ predictor.head \in 0 .. DelaySamples(params)
    /\ \A k \in DOMAIN NoTerms : terms[k] \in Int
    /\ matched \in BOOLEAN

(* README.md, controller types: the Smith predictor compensates the dead     *)
(* time.  While the model is right, the controller acts on what the target   *)
(* does now, as if there were no dead time, through every change of gains,   *)
(* limits, setpoint and filter (smith.go:105-111).                           *)
DeadTimeCancelled == matched => terms.Feedback = terms.Prediction
=============================================================================
