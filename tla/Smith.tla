---------------------------------- MODULE Smith ----------------------------------
(****************************************************************************)
(* pkg/control/smith.go and model.go: a PI controller fed not with the         *)
(* measurement alone but with what the model predicts it will be once the     *)
(* dead time has passed.  Methods are atomic, and a refused call no step, as  *)
(* in Pid.                                                                    *)
(****************************************************************************)
EXTENDS Control, FiniteSets

CONSTANTS
    Configs,    \* the SmithParams a caller may pass, valid or not
    Persist     \* Persist[<<tau, dt>>]: e^(-dt/tau) in hundredths

VARIABLES params, ref, clock, integral, predictor,
          terms     \* of the Terms that Compute returned last, what is not kept elsewhere
smith == <<params, ref, clock, integral, predictor, terms>>

NoTerms == [I |-> 0, Output |-> 0, Feedback |-> 0, Prediction |-> 0]

(* SmithParams.normalize, with Model.validate.                               *)
ValidModel(p)  == p.Model.Tau > 0 /\ p.SampleSeconds > 0 /\ p.Model.Theta >= 0
ValidParams(p) == ValidLimits(p) /\ ValidModel(p)
Normal(p) == [p EXCEPT !.SetpointFilter = Normalize(@)]

(* Model.DelaySamples, rounded to the nearest.                               *)
DelaySamples(p) == (2 * p.Model.Theta + p.SampleSeconds) \div (2 * p.SampleSeconds)

(* newPredictor.                                                             *)
NewPredictor(p) == [model |-> p.Model, output |-> 0, held |-> 0, head |-> 0,
                    delay |-> [i \in 0 .. DelaySamples(p) - 1 |-> 0]]

(* The response of a first-order model without its dead time.                *)
Response(model, output, input, dt) ==
    LET a == Persist[<<model.Tau, dt>>]
    IN (a * output + model.K * (100 - a) * input) \div 100

(* predictor.push: what leaves the delay line as y enters it.                *)
Leaving(d, y) == IF DOMAIN d.delay = {} THEN y ELSE d.delay[d.head]

(* predictor.push.                                                           *)
Pushed(d, y) ==
    IF DOMAIN d.delay = {} THEN d
    ELSE [d EXCEPT !.delay[d.head] = y, !.head = (@ + 1) % Cardinality(DOMAIN d.delay)]

(* predictor.advance, then predictor.hold.                                   *)
Predicted(dt) == Response(predictor.model, predictor.output, predictor.held, dt)

AdvancedPredictor(dt, u) ==
    [Pushed(predictor, Predicted(dt)) EXCEPT !.output = Predicted(dt), !.held = u]

(* Smith.step.                                                               *)
StepTerms(measured, dt) ==
    LET now      == Predicted(dt)
        feedback == measured + now - Leaving(predictor, now)
        e        == Output(ref.filter, params.Setpoint) - feedback
        p        == params.Kp * e
        i        == Integrate(params, integral, params.Ki * e * dt, p)
    IN [I |-> i, Output |-> Clamp(p + i, params.Min, params.Max),
        Feedback |-> feedback, Prediction |-> now]

(* NewSmith.                                                                 *)
SmithInit ==
    /\ \E p \in Configs : ValidParams(p) /\ params = Normal(p)
    /\ ref = NewReference(params.SetpointFilter)
    /\ clock = NewClock
    /\ integral = 0
    /\ predictor = NewPredictor(params)
    /\ terms = NoTerms

Compute(measured, at) ==
    /\ ~Outdated(clock, at)
    /\ clock' = Advanced(at)
    /\ ref' = NextReference(ref, params.Setpoint)
    /\ terms' = StepTerms(measured, Elapsed(clock, at))
    /\ integral' = terms'.I
    /\ predictor' = AdvancedPredictor(Elapsed(clock, at), terms'.Output)
    /\ UNCHANGED params

(* Mutant: every change of the params starts a new predictor.                *)
AlwaysNewPredictor(p) == NewPredictor(p)

(* retunePredictor: only another delay needs another delay line.             *)
RetunedPredictor(p) ==
    IF p.Model.Theta # params.Model.Theta \/ p.SampleSeconds # params.SampleSeconds
    THEN NewPredictor(p)
    ELSE [predictor EXCEPT !.model = p.Model]

SetParams(p) ==
    /\ ValidParams(p)
    /\ ref' = Retuned(ref, p.SetpointFilter)
    /\ predictor' = RetunedPredictor(p)
    /\ params' = Normal(p)
    /\ integral' = 0
    /\ UNCHANGED <<clock, terms>>

SetSetpoint(sp) ==
    /\ params' = [params EXCEPT !.Setpoint = sp]
    /\ UNCHANGED <<ref, clock, integral, predictor, terms>>

Reset ==
    /\ integral' = 0
    /\ clock' = NewClock
    /\ ref' = ResetReference(ref)
    /\ predictor' = NewPredictor(params)
    /\ UNCHANGED <<params, terms>>
=============================================================================
