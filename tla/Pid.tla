---------------------------------- MODULE Pid ----------------------------------
(****************************************************************************)
(* pkg/control/pid.go: the PID controller, with any order of calls to it.     *)
(* Every method holds the controller's mutex from start to end; a call that   *)
(* is refused changes nothing, and so is no step.                             *)
(****************************************************************************)
EXTENDS Control

CONSTANTS
    Configs,     \* the PIDParams a caller may pass, valid or not
    Setpoints,   \* what SetSetpoint may be called with
    Measures,    \* measured values
    Times,       \* times of the samples
    NoParams     \* before the first sample

ASSUME PidAssumption ==
    /\ Configs \subseteq [Kp : Int, Ki : Int, Kd : Int, FFGain : Int, Setpoint : Int,
                          SetpointFilter : [kind : FilterKinds, size : Int],
                          Min : Int, Max : Int, IClamp : Int]
    /\ Setpoints \subseteq Int
    /\ Measures \subseteq Int
    /\ Times \subseteq Int
    /\ NaN \notin Int
    /\ NoParams \notin [Kp : Int, Ki : Int, Kd : Int, FFGain : Int, Setpoint : Int,
                         SetpointFilter : [kind : FilterKinds, size : Int],
                         Min : Int, Max : Int, IClamp : Int]
    /\ \A p \in Configs : Decay[Normalize(p.SetpointFilter).size] \in 0 .. 100

VARIABLES params, ref, clock, integral, prevError,
          terms,    \* the Terms that Compute returned last
          used,     \* history: the params it used
          steady    \* history: samples since the reference last had to move
vars == <<params, ref, clock, integral, prevError, terms, used, steady>>

(* Every field but the integral is copied from one call.                     *)
NoTerms == [Setpoint |-> 0, Error |-> 0, P |-> 0, I |-> 0, D |-> 0, FF |-> 0, Output |-> 0]

(* PIDParams.normalize.                                                      *)
Normal(p) == [p EXCEPT !.SetpointFilter = Normalize(@)]

(* What the terms other than the integral add up to.                         *)
Others(t) == t.FF + t.P + t.D

(* PID.derivative, PID.feedforward.                                          *)
Derivative(e, dt) == IF dt <= 0 THEN 0 ELSE (params.Kd * (e - prevError)) \div dt
Feedforward(sp)   == IF params.FFGain <= 0 THEN 0 ELSE sp \div params.FFGain

(* PID.step.                                                                 *)
StepTerms(measured, dt) ==
    LET sp    == Output(ref.filter, params.Setpoint)
        e     == sp - measured
        p     == params.Kp * e
        d     == Derivative(e, dt)
        ff    == Feedforward(sp)
        i     == Integrate(params, integral, params.Ki * e * dt, ff + p + d)
    IN [Setpoint |-> sp, Error |-> e, P |-> p, I |-> i, D |-> d, FF |-> ff,
        Output |-> Clamp(ff + p + i + d, params.Min, params.Max)]

(* The window of the setpoint filter is full of the setpoint.                *)
Settled == ref.filter.kind # "exponential" /\ steady >= ref.filter.size

Init ==
    /\ \E p \in Configs : ValidLimits(p) /\ params = Normal(p)
    /\ ref = NewReference(params.SetpointFilter)
    /\ clock = NewClock
    /\ integral = 0
    /\ prevError = 0
    /\ terms = NoTerms
    /\ used = NoParams
    /\ steady = 0

Compute(measured, at) ==
    /\ ~Outdated(clock, at)
    /\ clock' = Advanced(at)
    /\ ref' = NextReference(ref, params.Setpoint)
    /\ terms' = StepTerms(measured, Elapsed(clock, at))
    /\ integral' = terms'.I
    /\ prevError' = terms'.Error
    /\ used' = params
    /\ steady' = Smaller(steady + 1, ref.filter.size)
    /\ UNCHANGED params

(* Mutant: the integral outlives the limits it was kept in.                  *)
SetParamsKeepingIntegral(p) ==
    /\ ValidLimits(p)
    /\ ref' = Retuned(ref, p.SetpointFilter)
    /\ params' = Normal(p)
    /\ steady' = 0
    /\ UNCHANGED <<clock, integral, prevError, terms, used>>

(* Mutant: the limits are not checked.                                       *)
SetParamsUnchecked(p) ==
    /\ ref' = Retuned(ref, p.SetpointFilter)
    /\ params' = Normal(p)
    /\ integral' = 0
    /\ steady' = 0
    /\ UNCHANGED <<clock, prevError, terms, used>>

SetParams(p) ==
    /\ ValidLimits(p)
    /\ ref' = Retuned(ref, p.SetpointFilter)
    /\ params' = Normal(p)
    /\ integral' = 0
    /\ steady' = IF p.Setpoint = params.Setpoint /\ Settled THEN ref'.filter.size
                 ELSE IF p.Setpoint = params.Setpoint /\ ref' = ref THEN steady ELSE 0
    /\ UNCHANGED <<clock, prevError, terms, used>>

SetSetpoint(sp) ==
    /\ params' = [params EXCEPT !.Setpoint = sp]
    /\ steady' = IF sp = params.Setpoint THEN steady ELSE 0
    /\ UNCHANGED <<ref, clock, integral, prevError, terms, used>>

Reset ==
    /\ integral' = 0
    /\ prevError' = 0
    /\ clock' = NewClock
    /\ ref' = ResetReference(ref)
    /\ steady' = 0
    /\ UNCHANGED <<params, terms, used>>

Next == \/ \E measured \in Measures, at \in Times : Compute(measured, at)
        \/ \E p \in Configs : SetParams(p)
        \/ \E sp \in Setpoints : SetSetpoint(sp)
        \/ Reset

Spec == Init /\ [][Next]_vars

TermsOK(t) ==
    /\ DOMAIN t = DOMAIN NoTerms
    /\ \A k \in DOMAIN NoTerms : t[k] \in Int

TypeOK ==
    /\ \E p \in Configs : params = [Normal(p) EXCEPT !.Setpoint = params.Setpoint]
    /\ params.Setpoint \in Int
    /\ ValidLimits(params)
    /\ SpecOf(ref.filter) = params.SetpointFilter
    /\ ref.filter.idx \in 0 .. ref.filter.size - 1
    /\ ref.effective \in Int
    /\ clock.started \in BOOLEAN /\ clock.last \in Int
    /\ integral \in Int /\ prevError \in Int
    /\ TermsOK(terms)
    /\ steady \in 0 .. ref.filter.size

(* README.md:90, controlling the drain rate: whatever limits a client sets   *)
(* while samples arrive, the integral lies within those in force.            *)
IntegralBounded == -params.IClamp <= integral /\ integral <= params.IClamp

(* README.md:200: no windup.  Unless the other terms alone are further out   *)
(* of range than the integral may compensate, the limits cut nothing off the *)
(* output: the integral never holds more than the output uses.               *)
NoWindup ==
    used # NoParams =>
        LET o == Others(terms)
        IN (used.Min - used.IClamp <= o /\ o <= used.Max + used.IClamp) =>
               terms.Output = o + terms.I

(* Back at a limit from which the error now points away, the output leaves   *)
(* it with the first such sample, however long it has been there: this is    *)
(* what a wound-up integral would delay.  Of a controller without derivative *)
(* and with a reference that stands still.                                   *)
SameLoop == /\ used = params
            /\ params.Kd = 0 /\ params.Kp > 0 /\ params.Ki >= 0
            /\ params.Min < params.Max
            /\ integral = terms.I
            /\ terms'.FF = terms.FF
            /\ params.Min - params.IClamp <= Others(terms)
            /\ Others(terms) <= params.Max + params.IClamp

LeavesLimits ==
    [][\A measured \in Measures, at \in Times :
          Compute(measured, at) /\ SameLoop =>
              /\ terms.Error >= 0 /\ terms'.Error < 0 => terms'.Output < params.Max
              /\ terms.Error <= 0 /\ terms'.Error > 0 => terms'.Output > params.Min]_vars

(* README.md:99: a moving average of N samples brings the reference to the   *)
(* setpoint in exactly N samples, whatever was in the window before, and     *)
(* another filter, chosen once it is there, does not move it away again      *)
(* (reference_test.go, TestSetParamsSwitchesFilterFromCurrentEffective-      *)
(* Reference).                                                               *)
ReferenceArrives == Settled => ref.effective = params.Setpoint
=============================================================================
