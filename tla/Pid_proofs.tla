------------------------------- MODULE Pid_proofs -------------------------------
(****************************************************************************)
(* What Pid promises of the integral and of the limits, for every gain, limit *)
(* and filter.  The invariant is one of numbers: all that enters the integral *)
(* is an integer, the limits in force are valid, and the integral is kept     *)
(* within them by each of the calls that change either.                       *)
(****************************************************************************)
EXTENDS Pid, Control_proofs

ParamsSet == [Kp : Int, Ki : Int, Kd : Int, FFGain : Int, Setpoint : Int,
              SetpointFilter : [kind : FilterKinds, size : Int],
              Min : Int, Max : Int, IClamp : Int]

(* The numbers of the controller.                                            *)
Numbers ==
    /\ params \in ParamsSet
    /\ ValidLimits(params)
    /\ NumberFilter(ref.filter)
    /\ ref \in [filter : FilterSet, effective : Int]
    /\ clock.last \in Int
    /\ integral \in Int
    /\ prevError \in Int

TermNumbers ==
    /\ terms.FF \in Int /\ terms.P \in Int /\ terms.D \in Int
    /\ terms.I \in Int /\ terms.Error \in Int /\ terms.Output \in Int

(* The terms of the last sample, by the limits it was computed with.         *)
LastSample ==
    used # NoParams =>
        /\ used \in ParamsSet
        /\ ValidLimits(used)
        /\ (used.Min - used.IClamp <= Others(terms) /\ Others(terms) <= used.Max + used.IClamp)
               => /\ used.Min <= Others(terms) + terms.I
                  /\ Others(terms) + terms.I <= used.Max
                  /\ terms.Output = Others(terms) + terms.I

IInv == Numbers /\ TermNumbers /\ IntegralBounded /\ LastSample

-----------------------------------------------------------------------------
LEMMA NormalInSet ==
    ASSUME NEW p \in ParamsSet
    PROVE  Normal(p) \in ParamsSet
  <1>1. Normalize(p.SetpointFilter) \in [kind : FilterKinds, size : Int]
    BY DEF ParamsSet, Normalize
  <1> QED BY <1>1 DEF Normal, ParamsSet

LEMMA NormalSameLimits ==
    ASSUME NEW p \in ParamsSet
    PROVE  ValidLimits(Normal(p)) = ValidLimits(p) /\ Normal(p).IClamp = p.IClamp
           /\ Normal(p).SetpointFilter = Normalize(p.SetpointFilter)
  BY DEF Normal, ParamsSet, ValidLimits

(* The terms of a sample are numbers, and those the limits promise.          *)
LEMMA StepTermsWithin ==
    ASSUME PidAssumption, Numbers, NEW measured \in Int, NEW dt \in Int
    PROVE  LET t == StepTerms(measured, dt)
           IN /\ t.FF \in Int /\ t.P \in Int /\ t.D \in Int
              /\ t.I \in Int /\ t.Error \in Int /\ t.Output \in Int
              /\ -params.IClamp <= t.I /\ t.I <= params.IClamp
              /\ t.Error = Output(ref.filter, params.Setpoint) - measured
              /\ t.P = params.Kp * t.Error
              /\ t.I = Integrate(params, integral, params.Ki * t.Error * dt, Others(t))
              /\ t.Output = Clamp(Others(t) + t.I, params.Min, params.Max)
  <1> DEFINE sp == Output(ref.filter, params.Setpoint)
             e == sp - measured
             p == params.Kp * e
             d == Derivative(e, dt)
             ff == Feedforward(sp)
             delta == params.Ki * e * dt
             i == Integrate(params, integral, delta, ff + p + d)
             o == Clamp(ff + p + i + d, params.Min, params.Max)
  <1>1. /\ params.Kp \in Int /\ params.Ki \in Int /\ params.Kd \in Int /\ params.FFGain \in Int
        /\ params.Setpoint \in Int /\ params.Min \in Int /\ params.Max \in Int
        /\ params.IClamp \in Int /\ params.Min <= params.Max
    BY DEF Numbers, ParamsSet, ValidLimits
  <1>2. integral \in Int /\ prevError \in Int
    BY DEF Numbers
  <1>3. sp \in Int
    BY <1>1, FilterIsNumber DEF Numbers, PidAssumption
  <1> HIDE DEF sp
  <1>4. e \in Int
    BY <1>3
  <1> HIDE DEF e
  <1>5. p \in Int /\ delta \in Int
    BY <1>1, <1>4
  <1>6. d \in Int
    BY <1>1, <1>2, <1>4 DEF Derivative
  <1>7. ff \in Int
    BY <1>1, <1>3 DEF Feedforward
  <1> HIDE DEF p, d, ff, delta
  <1>8. i \in Int /\ -params.IClamp <= i /\ i <= params.IClamp
    BY <1>1, <1>2, <1>5, <1>6, <1>7, IntegrateWithin DEF Numbers
  <1> HIDE DEF i
  <1>9. o \in Int
    <2>1. ff + p + i + d \in Int
      BY <1>5, <1>6, <1>7, <1>8
    <2> QED BY <1>1, <2>1, ClampWithin
  <1>10. ff + p + i + d = (ff + p + d) + i
    BY <1>5, <1>6, <1>7, <1>8
  <1> HIDE DEF o
  <1>11. StepTerms(measured, dt) = [Setpoint |-> sp, Error |-> e, P |-> p, I |-> i, D |-> d,
                                    FF |-> ff, Output |-> o]
    BY DEF StepTerms, sp, e, p, d, ff, delta, i, o
  <1> QED BY <1>4, <1>5, <1>6, <1>7, <1>8, <1>9, <1>10, <1>11
          DEF Others, o, i, delta, p, e, sp

-----------------------------------------------------------------------------
LEMMA InitIInv ==
    ASSUME PidAssumption, Init
    PROVE  IInv
  <1>1. PICK p \in Configs : ValidLimits(p) /\ params = Normal(p)
    BY DEF Init
  <1>2. p \in ParamsSet
    BY DEF PidAssumption, ParamsSet
  <1>3. params \in ParamsSet /\ ValidLimits(params)
    BY <1>1, <1>2, NormalInSet, NormalSameLimits
  <1>4. NumberFilter(ref.filter) /\ ref \in [filter : FilterSet, effective : Int]
    <2> DEFINE g == NewSignal(params.SetpointFilter, FALSE)
    <2>1. params.SetpointFilter = Normalize(p.SetpointFilter)
      BY <1>1, <1>2, NormalSameLimits
    <2>2. Normalize(params.SetpointFilter).size = Normalize(p.SetpointFilter).size
      BY <1>2, <2>1 DEF Normalize, ParamsSet
    <2>3. Decay[Normalize(params.SetpointFilter).size] \in 0 .. 100
      BY <2>2 DEF PidAssumption
    <2>4. params.SetpointFilter \in [kind : FilterKinds, size : Int]
      BY <1>3 DEF ParamsSet
    <2>5. NumberFilter(g)
      BY <2>3, <2>4, NewIsNumber
    <2>6. ref = [filter |-> g, effective |-> 0]
      BY DEF Init, NewReference
    <2> HIDE DEF g
    <2> QED BY <2>5, <2>6 DEF NumberFilter
  <1>5. integral = 0 /\ prevError = 0 /\ clock.last = 0 /\ used = NoParams /\ terms = NoTerms
    BY DEF Init, NewClock
  <1>6. params.IClamp \in Int /\ params.IClamp >= 0
    BY <1>3 DEF ParamsSet, ValidLimits
  <1>7. Numbers
    BY <1>3, <1>4, <1>5 DEF Numbers
  <1>8. TermNumbers
    BY <1>5 DEF TermNumbers, NoTerms
  <1>9. IntegralBounded
    BY <1>5, <1>6 DEF IntegralBounded
  <1>10. LastSample
    BY <1>5 DEF LastSample
  <1> QED BY <1>7, <1>8, <1>9, <1>10 DEF IInv

(* Compute: the integral and the sum of the terms keep to the limits.        *)
LEMMA ComputeIInv ==
    ASSUME PidAssumption, IInv, NEW measured \in Measures, NEW at \in Times,
           Compute(measured, at)
    PROVE  IInv'
  <1> DEFINE dt == Elapsed(clock, at)
  <1>1. Numbers
    BY DEF IInv
  <1>2. measured \in Int /\ at \in Int /\ dt \in Int
    <2>1. measured \in Int /\ at \in Int
      BY DEF PidAssumption
    <2>2. clock.last \in Int
      BY <1>1 DEF Numbers
    <2> QED BY <2>1, <2>2 DEF Elapsed
  <1>3. /\ terms' = StepTerms(measured, dt) /\ params' = params /\ used' = params
        /\ integral' = terms'.I /\ prevError' = terms'.Error
        /\ clock' = Advanced(at) /\ ref' = NextReference(ref, params.Setpoint)
    BY DEF Compute
  <1> HIDE DEF dt
  <1>4. /\ terms'.FF \in Int /\ terms'.P \in Int /\ terms'.D \in Int
        /\ terms'.I \in Int /\ terms'.Error \in Int /\ terms'.Output \in Int
        /\ -params.IClamp <= terms'.I /\ terms'.I <= params.IClamp
        /\ terms'.I = Integrate(params, integral, params.Ki * terms'.Error * dt, Others(terms'))
        /\ terms'.Output = Clamp(Others(terms') + terms'.I, params.Min, params.Max)
    BY <1>1, <1>2, <1>3, StepTermsWithin
  <1>5. TermNumbers'
    BY <1>4 DEF TermNumbers
  <1>6. IntegralBounded'
    BY <1>3, <1>4 DEF IntegralBounded
  <1>7. Numbers'
    <2>1. params' \in ParamsSet /\ ValidLimits(params')
      BY <1>1, <1>3 DEF Numbers
    <2>2. NumberFilter(ref'.filter) /\ ref' \in [filter : FilterSet, effective : Int]
      <3> DEFINE g == Filtered(ref.filter, params.Setpoint)
                 v == Output(ref.filter, params.Setpoint)
      <3>1. params.Setpoint \in Int /\ NumberFilter(ref.filter)
        BY <1>1 DEF Numbers, ParamsSet
      <3>2. NumberFilter(g) /\ v \in Int
        BY <3>1, FilterIsNumber DEF PidAssumption
      <3>3. ref' = [filter |-> g, effective |-> v]
        BY <1>3 DEF NextReference
      <3> HIDE DEF g, v
      <3> QED BY <3>2, <3>3 DEF NumberFilter
    <2>3. clock'.last \in Int
      BY <1>2, <1>3 DEF Advanced
    <2>4. integral' \in Int /\ prevError' \in Int
      BY <1>3, <1>4
    <2> QED BY <2>1, <2>2, <2>3, <2>4 DEF Numbers
  <1>8. LastSample'
    <2> DEFINE o == Others(terms')
    <2>1. params \in ParamsSet /\ ValidLimits(params) /\ integral \in Int
      BY <1>1 DEF Numbers
    <2>2. params.Min \in Int /\ params.Max \in Int /\ params.Min <= params.Max
          /\ params.Ki \in Int /\ params.IClamp \in Int
      BY <2>1 DEF ParamsSet, ValidLimits
    <2>3. o \in Int /\ params.Ki * terms'.Error * dt \in Int
      BY <1>2, <1>4, <2>2 DEF Others
    <2> HIDE DEF o
    <2>4. (params.Min - params.IClamp <= o /\ o <= params.Max + params.IClamp) =>
              params.Min <= o + terms'.I /\ o + terms'.I <= params.Max
      BY <1>4, <2>1, <2>2, <2>3, IntegrateWithin DEF o
    <2>5. o + terms'.I \in Int
      BY <1>4, <2>3
    <2>6. (params.Min <= o + terms'.I /\ o + terms'.I <= params.Max) =>
              terms'.Output = o + terms'.I
      BY <1>4, <2>2, <2>5, ClampWithin DEF o
    <2> QED BY <1>3, <2>1, <2>4, <2>6 DEF LastSample, o
  <1> QED BY <1>5, <1>6, <1>7, <1>8 DEF IInv

(* SetParams: the integral starts again from zero, within any valid limits.  *)
LEMMA SetParamsIInv ==
    ASSUME PidAssumption, IInv, NEW p \in Configs, SetParams(p)
    PROVE  IInv'
  <1>1. p \in ParamsSet /\ ValidLimits(p) /\ Numbers
    BY DEF PidAssumption, ParamsSet, SetParams, IInv
  <1>2. params' = Normal(p) /\ ref' = Retuned(ref, p.SetpointFilter) /\ integral' = 0
        /\ clock' = clock /\ prevError' = prevError /\ terms' = terms /\ used' = used
    BY DEF SetParams
  <1>3. params' \in ParamsSet /\ ValidLimits(params')
    BY <1>1, <1>2, NormalInSet, NormalSameLimits
  <1>4. NumberFilter(ref'.filter) /\ ref' \in [filter : FilterSet, effective : Int]
    <2>1. ref \in [filter : FilterSet, effective : Int] /\ NumberFilter(ref.filter)
      BY <1>1 DEF Numbers
    <2>2. CASE Normalize(p.SetpointFilter) = SpecOf(ref.filter)
      BY <1>2, <2>1, <2>2 DEF Retuned
    <2>3. CASE Normalize(p.SetpointFilter) # SpecOf(ref.filter)
      <3> DEFINE g == Seed(NewSignal(p.SetpointFilter, FALSE), ref.effective)
      <3>1. NumberFilter(NewSignal(p.SetpointFilter, FALSE))
        <4>1. p.SetpointFilter \in [kind : FilterKinds, size : Int]
          BY <1>1 DEF ParamsSet
        <4>2. Decay[Normalize(p.SetpointFilter).size] \in 0 .. 100
          BY DEF PidAssumption
        <4> QED BY <4>1, <4>2, NewIsNumber
      <3>2. ref.effective \in Int
        BY <2>1
      <3>3. NumberFilter(g)
        BY <3>1, <3>2, SeedIsNumber DEF PidAssumption
      <3>4. ref' = [ref EXCEPT !.filter = g]
        BY <1>2, <2>3 DEF Retuned
      <3> HIDE DEF g
      <3>5. g \in FilterSet
        BY <3>3 DEF NumberFilter
      <3>6. ref' \in [filter : FilterSet, effective : Int] /\ ref'.filter = g
        BY <2>1, <3>4, <3>5
      <3> QED BY <3>3, <3>6
    <2> QED BY <2>2, <2>3
  <1>5. Numbers'
    BY <1>1, <1>2, <1>3, <1>4 DEF Numbers
  <1>6. IntegralBounded'
    <2>1. params'.IClamp \in Int /\ params'.IClamp >= 0
      BY <1>3 DEF ParamsSet, ValidLimits
    <2> QED BY <1>2, <2>1 DEF IntegralBounded
  <1>7. TermNumbers' /\ LastSample'
    BY <1>2 DEF IInv, TermNumbers, LastSample
  <1> QED BY <1>5, <1>6, <1>7 DEF IInv

LEMMA SetSetpointIInv ==
    ASSUME PidAssumption, IInv, NEW sp \in Setpoints, SetSetpoint(sp)
    PROVE  IInv'
  <1>1. params' = [params EXCEPT !.Setpoint = sp] /\ ref' = ref /\ integral' = integral
        /\ clock' = clock /\ prevError' = prevError /\ terms' = terms /\ used' = used
    BY DEF SetSetpoint
  <1>2. sp \in Int /\ params \in ParamsSet /\ ValidLimits(params) /\ Numbers
    BY DEF PidAssumption, IInv, Numbers
  <1>3. params' \in ParamsSet /\ params'.IClamp = params.IClamp
        /\ params'.Min = params.Min /\ params'.Max = params.Max
    BY <1>1, <1>2 DEF ParamsSet
  <1>4. Numbers'
    BY <1>1, <1>2, <1>3 DEF Numbers, ValidLimits
  <1>5. IntegralBounded'
    BY <1>1, <1>3 DEF IntegralBounded, IInv
  <1>6. TermNumbers' /\ LastSample'
    BY <1>1 DEF IInv, TermNumbers, LastSample
  <1> QED BY <1>4, <1>5, <1>6 DEF IInv

LEMMA ResetIInv ==
    ASSUME PidAssumption, IInv, Reset
    PROVE  IInv'
  <1>1. params' = params /\ ref' = ResetReference(ref) /\ integral' = 0 /\ prevError' = 0
        /\ clock' = NewClock /\ terms' = terms /\ used' = used
    BY DEF Reset
  <1>2. params \in ParamsSet /\ ValidLimits(params) /\ NumberFilter(ref.filter)
    BY DEF IInv, Numbers
  <1>3. NumberFilter(ref'.filter) /\ ref' \in [filter : FilterSet, effective : Int]
    <2> DEFINE g == ResetSignal(ref.filter)
    <2>1. NumberFilter(g)
      BY <1>2, ResetIsNumber
    <2>2. ref' = [filter |-> g, effective |-> 0]
      BY <1>1 DEF ResetReference
    <2> HIDE DEF g
    <2> QED BY <2>1, <2>2 DEF NumberFilter
  <1>4. clock'.last \in Int
    BY <1>1 DEF NewClock
  <1>5. Numbers'
    BY <1>1, <1>2, <1>3, <1>4 DEF Numbers
  <1>6. IntegralBounded'
    <2>1. params.IClamp \in Int /\ params.IClamp >= 0
      BY <1>2 DEF ParamsSet, ValidLimits
    <2> QED BY <1>1, <2>1 DEF IntegralBounded
  <1>7. TermNumbers' /\ LastSample'
    BY <1>1 DEF IInv, TermNumbers, LastSample
  <1> QED BY <1>5, <1>6, <1>7 DEF IInv

LEMMA StutterIInv ==
    ASSUME IInv, UNCHANGED vars
    PROVE  IInv'
  BY DEF vars, IInv, Numbers, TermNumbers, IntegralBounded, LastSample

LEMMA NextIInv ==
    ASSUME PidAssumption, IInv, [Next]_vars
    PROVE  IInv'
  <1>1. ASSUME NEW measured \in Measures, NEW at \in Times, Compute(measured, at)
        PROVE  IInv'
    BY <1>1, ComputeIInv
  <1>2. ASSUME NEW p \in Configs, SetParams(p)
        PROVE  IInv'
    BY <1>2, SetParamsIInv
  <1>3. ASSUME NEW sp \in Setpoints, SetSetpoint(sp)
        PROVE  IInv'
    BY <1>3, SetSetpointIInv
  <1>4. CASE Reset
    BY <1>4, ResetIInv
  <1>5. CASE UNCHANGED vars
    BY <1>5, StutterIInv
  <1> QED BY <1>1, <1>2, <1>3, <1>4, <1>5 DEF Next

THEOREM Invariance == Spec => []IInv
  <1>1. Init => IInv
    BY InitIInv, PidAssumption
  <1>2. IInv /\ [Next]_vars => IInv'
    BY NextIInv, PidAssumption
  <1> QED BY <1>1, <1>2, PTL DEF Spec

(* Whatever a client sets and whenever, the integral lies within the limits  *)
(* in force (control.go:60, pid.go:111).                                     *)
THEOREM IntegralStaysBounded == Spec => []IntegralBounded
  <1>1. IInv => IntegralBounded
    BY DEF IInv
  <1> QED BY <1>1, Invariance, PTL

(* While the other terms are within the integral's reach of the limits, the  *)
(* limits cut nothing off the output (control.go:60-67).                     *)
THEOREM NeverWindsUp == Spec => []NoWindup
  <1>1. IInv => NoWindup
    BY DEF IInv, LastSample, NoWindup
  <1> QED BY <1>1, Invariance, PTL

-----------------------------------------------------------------------------
(* A negative error takes the integral and the other terms down together,    *)
(* and with them the output off its maximum.                                 *)
LEMMA FallsFromMax ==
    ASSUME NEW p \in ParamsSet, ValidLimits(p), p.Min < p.Max,
           NEW i \in Int, NEW delta \in Int, NEW before \in Int, NEW other \in Int,
           -p.IClamp <= i, i <= p.IClamp, before + i <= p.Max, other < before, delta <= 0
    PROVE  Clamp(other + Integrate(p, i, delta, other), p.Min, p.Max) < p.Max
  <1> DEFINE lo == Larger(-p.IClamp, p.Min - other)
             hi == Smaller(p.IClamp, p.Max - other)
             next == Integrate(p, i, delta, other)
  <1>1. p.Min \in Int /\ p.Max \in Int /\ p.IClamp \in Int
    BY DEF ParamsSet
  <1>2. /\ lo \in Int /\ hi \in Int /\ i + delta \in Int /\ -p.IClamp \in Int
        /\ i + delta <= hi /\ i + delta <= p.IClamp
        /\ lo = -p.IClamp \/ lo = p.Min - other
    BY <1>1 DEF Larger, Smaller
  <1>3. next = i + delta \/ next = -p.IClamp \/ next = p.Min - other
    <2>1. CASE lo > hi
      <3>1. next = Clamp(i + delta, -p.IClamp, p.IClamp)
        BY <2>1 DEF Integrate
      <3> HIDE DEF lo, hi, next
      <3>2. -p.IClamp <= p.IClamp
        BY <1>1
      <3>3. Clamp(i + delta, -p.IClamp, p.IClamp) \in {i + delta, -p.IClamp}
        BY <1>1, <1>2, <3>2 DEF Clamp, Larger, Smaller
      <3> QED BY <3>1, <3>3
    <2>2. CASE ~(lo > hi)
      <3>1. next = Clamp(i + delta, lo, hi)
        BY <2>2 DEF Integrate
      <3> HIDE DEF lo, hi, next
      <3>2. lo <= hi
        BY <1>2, <2>2
      <3>3. next = i + delta \/ next = lo
        BY <1>2, <3>1, <3>2, ClampWithin
      <3> QED BY <1>2, <3>3
    <2> QED BY <2>1, <2>2
  <1> HIDE DEF lo, hi, next
  <1>4. next \in Int /\ other + next < p.Max
    BY <1>1, <1>3
  <1> QED BY <1>1, <1>4 DEF Clamp, Larger, Smaller, next

(* And a positive error takes it off its minimum.                            *)
LEMMA RisesFromMin ==
    ASSUME NEW p \in ParamsSet, ValidLimits(p), p.Min < p.Max,
           NEW i \in Int, NEW delta \in Int, NEW before \in Int, NEW other \in Int,
           -p.IClamp <= i, i <= p.IClamp, p.Min <= before + i, before < other, 0 <= delta
    PROVE  Clamp(other + Integrate(p, i, delta, other), p.Min, p.Max) > p.Min
  <1> DEFINE lo == Larger(-p.IClamp, p.Min - other)
             hi == Smaller(p.IClamp, p.Max - other)
             next == Integrate(p, i, delta, other)
  <1>1. p.Min \in Int /\ p.Max \in Int /\ p.IClamp \in Int
    BY DEF ParamsSet
  <1>2. /\ lo \in Int /\ hi \in Int /\ i + delta \in Int /\ -p.IClamp \in Int
        /\ lo <= i + delta /\ -p.IClamp <= i + delta
        /\ hi = p.IClamp \/ hi = p.Max - other
    BY <1>1 DEF Larger, Smaller
  <1>3. next = i + delta \/ next = p.IClamp \/ next = p.Max - other
    <2>1. CASE lo > hi
      <3>1. next = Clamp(i + delta, -p.IClamp, p.IClamp)
        BY <2>1 DEF Integrate
      <3> HIDE DEF lo, hi, next
      <3>2. -p.IClamp <= p.IClamp
        BY <1>1
      <3>3. Clamp(i + delta, -p.IClamp, p.IClamp) \in {i + delta, p.IClamp}
        BY <1>1, <1>2, <3>2 DEF Clamp, Larger, Smaller
      <3> QED BY <3>1, <3>3
    <2>2. CASE ~(lo > hi)
      <3>1. next = Clamp(i + delta, lo, hi)
        BY <2>2 DEF Integrate
      <3> HIDE DEF lo, hi, next
      <3>2. lo <= hi
        BY <1>2, <2>2
      <3>3. next = i + delta \/ next = hi
        BY <1>2, <3>1, <3>2, ClampWithin
      <3> QED BY <1>2, <3>3
    <2> QED BY <2>1, <2>2
  <1> HIDE DEF lo, hi, next
  <1>4. next \in Int /\ p.Min < other + next
    BY <1>1, <1>3
  <1> QED BY <1>1, <1>4 DEF Clamp, Larger, Smaller, next

LEMMA SignOfProduct ==
    ASSUME NEW a \in Int, NEW b \in Int, a >= 0
    PROVE  /\ b <= 0 => a * b <= 0
           /\ b >= 0 => a * b >= 0
           /\ a > 0 /\ b < 0 => a * b < 0
           /\ a > 0 /\ b > 0 => a * b > 0
  OBVIOUS

(* The proportional and the derivative term of the last sample are those of  *)
(* the gains it was computed with.                                           *)
GainTerms ==
    used # NoParams => /\ terms.P = used.Kp * terms.Error
                       /\ used.Kd = 0 => terms.D = 0

LEMMA NoDerivative ==
    ASSUME PidAssumption, Numbers, NEW measured \in Int, NEW dt \in Int, params.Kd = 0
    PROVE  StepTerms(measured, dt).D = 0
  <1> DEFINE e == StepTerms(measured, dt).Error
  <1>1. e \in Int
    BY StepTermsWithin
  <1>2. StepTerms(measured, dt).D = Derivative(e, dt)
    BY DEF StepTerms
  <1> HIDE DEF e
  <1>3. prevError \in Int
    BY DEF Numbers
  <1>4. params.Kd * (e - prevError) = 0
    BY <1>1, <1>3
  <1>5. dt > 0 => 0 \div dt = 0
    OBVIOUS
  <1> QED BY <1>2, <1>4, <1>5 DEF Derivative

(* What a sample makes of the terms.                                         *)
LEMMA Computed ==
    ASSUME PidAssumption, IInv, NEW measured \in Measures, NEW at \in Times,
           Compute(measured, at)
    PROVE  \E dt \in Nat :
             /\ used' = params
             /\ terms'.FF \in Int /\ terms'.Error \in Int
             /\ terms'.P = params.Kp * terms'.Error
             /\ params.Kd = 0 => terms'.D = 0
             /\ terms'.D \in Int
             /\ terms'.I = Integrate(params, integral, params.Ki * terms'.Error * dt, Others(terms'))
             /\ terms'.Output = Clamp(Others(terms') + terms'.I, params.Min, params.Max)
  <1> DEFINE dt == Elapsed(clock, at)
  <1>1. measured \in Int /\ at \in Int /\ clock.last \in Int /\ Numbers
    BY DEF PidAssumption, IInv, Numbers
  <1>2. dt \in Nat
    BY <1>1 DEF Elapsed, Compute, Outdated
  <1>3. terms' = StepTerms(measured, dt) /\ used' = params
    BY DEF Compute
  <1> HIDE DEF dt
  <1>4. /\ terms'.FF \in Int /\ terms'.Error \in Int /\ terms'.D \in Int
        /\ terms'.P = params.Kp * terms'.Error
        /\ terms'.I = Integrate(params, integral, params.Ki * terms'.Error * dt, Others(terms'))
        /\ terms'.Output = Clamp(Others(terms') + terms'.I, params.Min, params.Max)
    <2> DEFINE t == StepTerms(measured, dt)
    <2>1. /\ t.FF \in Int /\ t.Error \in Int /\ t.D \in Int
          /\ t.P = params.Kp * t.Error
          /\ t.I = Integrate(params, integral, params.Ki * t.Error * dt, Others(t))
          /\ t.Output = Clamp(Others(t) + t.I, params.Min, params.Max)
      <3>1. dt \in Int
        BY <1>2
      <3> QED BY <1>1, <3>1, StepTermsWithin, Zenon
    <2>2. terms' = t
      BY <1>3
    <2> HIDE DEF t
    <2> QED BY <2>1, <2>2, Zenon
  <1>5. params.Kd = 0 => terms'.D = 0
    BY <1>1, <1>2, <1>3, NoDerivative
  <1> USE <1>2
  <1> WITNESS dt \in Nat
  <1> QED BY <1>3, <1>4, <1>5

LEMMA GainTermsStep ==
    ASSUME PidAssumption, IInv, GainTerms, [Next]_vars
    PROVE  GainTerms'
  <1>1. ASSUME NEW measured \in Measures, NEW at \in Times, Compute(measured, at)
        PROVE  GainTerms'
    BY <1>1, Computed DEF GainTerms
  <1>2. CASE UNCHANGED <<terms, used>>
    BY <1>2 DEF GainTerms
  <1> QED BY <1>1, <1>2 DEF Next, SetParams, SetSetpoint, Reset, vars

(* A sample whose error points away from a limit takes the output off it.    *)
LEMMA SampleLeaves ==
    ASSUME PidAssumption, IInv, GainTerms, NEW measured \in Measures, NEW at \in Times,
           Compute(measured, at), SameLoop
    PROVE  /\ terms.Error >= 0 /\ terms'.Error < 0 => terms'.Output < params.Max
           /\ terms.Error <= 0 /\ terms'.Error > 0 => terms'.Output > params.Min
  <1>1. PICK dt \in Nat :
             /\ terms'.FF \in Int /\ terms'.Error \in Int
             /\ terms'.P = params.Kp * terms'.Error
             /\ params.Kd = 0 => terms'.D = 0
             /\ terms'.I = Integrate(params, integral, params.Ki * terms'.Error * dt, Others(terms'))
             /\ terms'.Output = Clamp(Others(terms') + terms'.I, params.Min, params.Max)
    BY Computed
  <1> DEFINE before == Others(terms)
             other == Others(terms')
             delta == (params.Ki * terms'.Error) * dt
  <1>2. /\ params \in ParamsSet /\ ValidLimits(params) /\ integral \in Int
        /\ -params.IClamp <= integral /\ integral <= params.IClamp
    BY DEF IInv, Numbers, IntegralBounded
  <1>3. params.Kp \in Int /\ params.Ki \in Int
    BY <1>2 DEF ParamsSet
  <1>4. /\ used = params /\ params.Kd = 0 /\ params.Kp > 0 /\ params.Ki >= 0
        /\ params.Min < params.Max /\ integral = terms.I /\ terms'.FF = terms.FF
        /\ params.Min - params.IClamp <= before /\ before <= params.Max + params.IClamp
    BY DEF SameLoop
  <1>5. used # NoParams
    BY <1>2, <1>4 DEF PidAssumption, ParamsSet
  <1>6. terms.P = params.Kp * terms.Error /\ terms.D = 0 /\ terms.Error \in Int
    BY <1>4, <1>5 DEF GainTerms, IInv, TermNumbers
  <1>7. params.Min <= before + integral /\ before + integral <= params.Max
    BY <1>4, <1>5 DEF IInv, LastSample
  <1>8. /\ before = terms.FF + terms.P /\ other = terms.FF + terms'.P
        /\ terms.P \in Int /\ terms'.P \in Int /\ terms.FF \in Int
    BY <1>1, <1>3, <1>4, <1>6 DEF Others, IInv, TermNumbers
  <1>9. params.Ki * terms'.Error \in Int /\ delta \in Int
    BY <1>1, <1>3
  <1>10. terms'.Output = Clamp(other + Integrate(params, integral, delta, other), params.Min, params.Max)
    BY <1>1
  <1> HIDE DEF before, other
  <1>11. before \in Int /\ other \in Int
    BY <1>8
  <1>12. ASSUME terms.Error >= 0, terms'.Error < 0
         PROVE  terms'.Output < params.Max
    <2>1. terms.P >= 0 /\ terms'.P < 0
      BY <1>1, <1>3, <1>4, <1>6, <1>12, SignOfProduct
    <2>2. params.Ki * terms'.Error <= 0
      BY <1>1, <1>3, <1>4, <1>12, SignOfProduct
    <2>3. delta <= 0
      BY <1>9, <2>2
    <2> HIDE DEF delta
    <2>4. other < before
      BY <1>8, <2>1
    <2> QED BY <1>2, <1>4, <1>7, <1>9, <1>10, <1>11, <2>3, <2>4, FallsFromMax
  <1>13. ASSUME terms.Error <= 0, terms'.Error > 0
         PROVE  terms'.Output > params.Min
    <2>1. terms.P <= 0 /\ terms'.P > 0
      BY <1>1, <1>3, <1>4, <1>6, <1>13, SignOfProduct
    <2>2. params.Ki * terms'.Error >= 0
      BY <1>1, <1>3, <1>4, <1>13, SignOfProduct
    <2>3. 0 <= delta
      BY <1>9, <2>2
    <2> HIDE DEF delta
    <2>4. before < other
      BY <1>8, <2>1
    <2> QED BY <1>2, <1>4, <1>7, <1>9, <1>10, <1>11, <2>3, <2>4, RisesFromMin
  <1> QED BY <1>12, <1>13

(* Whatever the gains, and however long the output has been at a limit, the  *)
(* first sample whose error points away takes it off (control.go:60-71).     *)
THEOREM OutputLeavesLimits == Spec => LeavesLimits
  <1>1. Init => GainTerms
    BY DEF Init, GainTerms
  <1>2. IInv /\ GainTerms /\ [Next]_vars => GainTerms'
    BY GainTermsStep, PidAssumption
  <1>3. IInv /\ GainTerms /\ [Next]_vars =>
          [\A measured \in Measures, at \in Times :
             Compute(measured, at) /\ SameLoop =>
                 /\ terms.Error >= 0 /\ terms'.Error < 0 => terms'.Output < params.Max
                 /\ terms.Error <= 0 /\ terms'.Error > 0 => terms'.Output > params.Min]_vars
    BY SampleLeaves, PidAssumption
  <1> QED BY <1>1, <1>2, <1>3, Invariance, PTL DEF Spec, LeavesLimits

-----------------------------------------------------------------------------
(* The reference, by the window of its filter.                               *)
ReferenceInv ==
    /\ SpecOf(ref.filter) = params.SetpointFilter
    /\ ~ref.filter.seedFromFirst
    /\ steady \in 0 .. ref.filter.size
    /\ LongWindow(ref.filter) => WindowEnds(ref.filter, steady, params.Setpoint)
    /\ ReferenceArrives

LEMMA InitReference ==
    ASSUME PidAssumption, Init, IInv
    PROVE  ReferenceInv
  <1>1. PICK p \in Configs : params = Normal(p)
    BY DEF Init
  <1>2. p \in ParamsSet /\ params \in ParamsSet
    BY DEF PidAssumption, ParamsSet, IInv, Numbers
  <1>3. params.SetpointFilter = Normalize(p.SetpointFilter)
        /\ params.SetpointFilter \in [kind : FilterKinds, size : Int] /\ params.Setpoint \in Int
    BY <1>1, <1>2, NormalSameLimits DEF ParamsSet
  <1>4. Normalize(params.SetpointFilter) = params.SetpointFilter
    BY <1>2, <1>3 DEF Normalize, ParamsSet
  <1>5. ref.filter = NewSignal(params.SetpointFilter, FALSE)
    BY DEF Init, NewReference
  <1>6. /\ SpecOf(ref.filter) = params.SetpointFilter /\ ~ref.filter.seedFromFirst
        /\ ref.filter.n = 0 /\ ref.filter.sum = 0
    BY <1>3, <1>4, <1>5, NewKeepsSpec
  <1>7. ref.filter.size \in Nat /\ ref.filter.size > 0
    BY DEF IInv, Numbers, NumberFilter, FilterSet
  <1>8. WindowEnds(ref.filter, 0, params.Setpoint)
    BY <1>3, <1>6, <1>7, EmptyTotals
  <1>0. steady = 0
    BY DEF Init
  <1>9. ~Settled
    BY <1>0, <1>7 DEF Settled
  <1>10. steady \in 0 .. ref.filter.size /\ WindowEnds(ref.filter, steady, params.Setpoint)
    BY <1>0, <1>7, <1>8
  <1> QED BY <1>6, <1>9, <1>10, Zenon DEF ReferenceInv, ReferenceArrives

(* A sample: the setpoint enters the window once more.                       *)
LEMMA ComputeReference ==
    ASSUME PidAssumption, IInv, ReferenceInv, NEW measured \in Measures, NEW at \in Times,
           Compute(measured, at)
    PROVE  ReferenceInv'
  <1> DEFINE f == ref.filter
             sp == params.Setpoint
  <1>1. NaN \notin Int /\ NumberFilter(f) /\ sp \in Int
    BY DEF PidAssumption, IInv, Numbers, ParamsSet
  <1>2. f.size \in Nat /\ f.size > 0 /\ steady \in 0 .. f.size
    BY <1>1 DEF NumberFilter, FilterSet, ReferenceInv
  <1>3. ref'.filter = Filtered(f, sp) /\ ref'.effective = Output(f, sp)
        /\ params' = params /\ steady' = Smaller(steady + 1, f.size)
    BY DEF Compute, NextReference
  <1>4. SpecOf(f) = params.SetpointFilter /\ ~f.seedFromFirst
        /\ (LongWindow(f) => WindowEnds(f, steady, sp))
    BY DEF ReferenceInv
  <1> HIDE DEF f, sp
  <1>5. SpecOf(ref'.filter) = SpecOf(f) /\ ~ref'.filter.seedFromFirst
    BY <1>1, <1>3, <1>4, KeepsSpec
  <1>6. ref'.filter.size = f.size /\ ref'.filter.kind = f.kind
    BY <1>5 DEF SpecOf
  <1>7. steady' \in 0 .. f.size
    BY <1>2, <1>3 DEF Smaller
  <1>8. ~Seeding(f)
    BY <1>4 DEF Seeding
  <1>9. CASE LongWindow(f)
    <2>1. Averaging(f)
      BY <1>8, <1>9 DEF Averaging, LongWindow
    <2>2. Filtered(f, sp) = Push(f, sp) /\ Output(f, sp) = Quotient(Push(f, sp).sum, f.size)
      BY <1>8, <2>1 DEF Filtered, Output, Averaging, Smoothing
    <2>3. /\ WindowEnds(Push(f, sp), Smaller(steady + 1, f.size), sp)
          /\ steady + 1 >= f.size => Push(f, sp).sum = f.size * sp
      BY <1>1, <1>4, <1>9, PushTotals DEF LongWindow
    <2>4. steady' >= f.size => ref'.effective = sp
      <3> SUFFICES ASSUME steady' >= f.size
                   PROVE  ref'.effective = sp
        OBVIOUS
      <3>1. steady + 1 >= f.size
        BY <1>2, <1>3 DEF Smaller
      <3>2. Push(f, sp).sum = f.size * sp /\ f.size * sp \in Int
        BY <1>1, <1>2, <2>3, <3>1
      <3>3. f.size * sp # NaN
        BY <1>1, <3>2
      <3>4. ref'.effective = (f.size * sp) \div f.size
        BY <1>3, <2>2, <3>2, <3>3 DEF Quotient
      <3>5. (f.size * sp) \div f.size = sp
        BY <1>1, <1>2, QuotientOfProduct
      <3> QED BY <3>4, <3>5
    <2>5. LongWindow(ref'.filter) => WindowEnds(ref'.filter, steady', sp)
      BY <1>3, <2>2, <2>3
    <2> QED BY <1>3, <1>4, <1>5, <1>6, <1>7, <2>4, <2>5
            DEF ReferenceInv, ReferenceArrives, Settled, f, sp
  <1>10. CASE ~LongWindow(f)
    <2>1. ~LongWindow(ref'.filter)
      BY <1>6, <1>10 DEF LongWindow
    <2>2. ~Averaging(f)
      BY <1>10 DEF Averaging, LongWindow
    <2>3. f.kind # "exponential" => Output(f, sp) = sp
      BY <2>2 DEF Output, Smoothing
    <2> QED BY <1>3, <1>4, <1>5, <1>6, <1>7, <2>1, <2>3
            DEF ReferenceInv, ReferenceArrives, Settled, f, sp
  <1> QED BY <1>9, <1>10

(* A filter that takes over starts from where the reference has got to.      *)
LEMMA SetParamsReference ==
    ASSUME PidAssumption, IInv, IInv', ReferenceInv, NEW p \in Configs, SetParams(p)
    PROVE  ReferenceInv'
  <1> DEFINE g == NewSignal(p.SetpointFilter, FALSE)
             sp == params'.Setpoint
  <1>1. p \in ParamsSet /\ params \in ParamsSet /\ params' \in ParamsSet /\ NaN \notin Int
    BY DEF PidAssumption, ParamsSet, IInv, Numbers
  <1>2. params' = Normal(p) /\ ref' = Retuned(ref, p.SetpointFilter)
        /\ steady' = (IF p.Setpoint = params.Setpoint /\ Settled THEN ref'.filter.size
                      ELSE IF p.Setpoint = params.Setpoint /\ ref' = ref THEN steady ELSE 0)
    BY DEF SetParams
  <1>3. params'.SetpointFilter = Normalize(p.SetpointFilter) /\ sp = p.Setpoint
        /\ sp \in Int /\ p.SetpointFilter \in [kind : FilterKinds, size : Int]
    BY <1>1, <1>2 DEF Normal, ParamsSet
  <1>4. NumberFilter(g)
    BY <1>3, NewIsNumber DEF PidAssumption
  <1>5. ref.effective \in Int /\ NumberFilter(ref.filter) /\ NumberFilter(ref'.filter)
        /\ ref \in [filter : FilterSet, effective : Int]
    BY DEF IInv, Numbers
  <1>6. ref'.filter.size \in Nat /\ ref'.filter.size > 0
    BY <1>5 DEF NumberFilter, FilterSet
  <1>7. SpecOf(g) = Normalize(p.SetpointFilter) /\ ~g.seedFromFirst
    BY <1>3, NewKeepsSpec
  <1>8. /\ SpecOf(ref.filter) = params.SetpointFilter /\ ~ref.filter.seedFromFirst
        /\ steady \in 0 .. ref.filter.size
        /\ LongWindow(ref.filter) => WindowEnds(ref.filter, steady, params.Setpoint)
        /\ Settled => ref.effective = params.Setpoint
    BY DEF ReferenceInv, ReferenceArrives
  <1> HIDE DEF g, sp
  <1>9. CASE Normalize(p.SetpointFilter) = SpecOf(ref.filter)
    <2>1. ref' = ref
      BY <1>2, <1>9 DEF Retuned
    <2>2. SpecOf(ref'.filter) = params'.SetpointFilter /\ ~ref'.filter.seedFromFirst
      BY <1>3, <1>8, <1>9, <2>1
    <2>3. CASE p.Setpoint = params.Setpoint
      <3>1. steady' = steady \/ (Settled /\ steady' = ref.filter.size)
        BY <1>2, <2>1, <2>3
      <3>2. steady' = steady
        <4>1. Settled => steady = ref.filter.size
          BY <1>6, <1>8, <2>1 DEF Settled
        <4> QED BY <3>1, <4>1
      <3>3. sp = params.Setpoint
        BY <1>3, <2>3
      <3>4. Settled' => Settled
        BY <2>1, <3>2 DEF Settled
      <3> QED BY <1>8, <2>1, <2>2, <3>2, <3>3, <3>4 DEF ReferenceInv, ReferenceArrives, sp
    <2>4. CASE p.Setpoint # params.Setpoint
      <3>1. steady' = 0
        BY <1>2, <2>4
      <3>2. ~Settled'
        BY <1>6, <3>1 DEF Settled
      <3>3. LongWindow(ref'.filter) => WindowEnds(ref'.filter, 0, sp)
        <4>1. params.Setpoint \in Int
          BY <1>1 DEF ParamsSet
        <4> QED BY <1>3, <1>8, <2>1, <4>1, FewerEnds
      <3> QED BY <1>6, <2>2, <3>1, <3>2, <3>3 DEF ReferenceInv, ReferenceArrives, sp
    <2> QED BY <2>3, <2>4
  <1>10. CASE Normalize(p.SetpointFilter) # SpecOf(ref.filter)
    <2> DEFINE v == ref.effective
    <2>1. ref' = [ref EXCEPT !.filter = Seed(g, v)]
      BY <1>2, <1>10 DEF Retuned, g
    <2>2. ref'.filter = Seed(g, v) /\ ref'.effective = v /\ v \in Int
      BY <1>5, <2>1
    <2> HIDE DEF v
    <2>3. SpecOf(ref'.filter) = params'.SetpointFilter /\ ~ref'.filter.seedFromFirst
      <3>1. SpecOf(Seed(g, v)) = SpecOf(g) /\ ~Seed(g, v).seedFromFirst
        BY <1>1, <1>4, <1>7, <2>2, KeepsSpec
      <3> QED BY <1>3, <1>7, <2>2, <3>1
    <2>4. WindowEnds(ref'.filter, ref'.filter.size, v)
      <3>1. g.size = ref'.filter.size
        BY <1>4, <2>2 DEF Seed, NumberFilter, FilterSet
      <3>2. WindowEnds(Seed(g, v), g.size, v)
        BY <1>1, <1>4, <2>2, SeedTotals
      <3> QED BY <2>2, <3>1, <3>2
    <2>5. CASE p.Setpoint = params.Setpoint /\ Settled
      <3>1. steady' = ref'.filter.size /\ v = sp
        BY <1>2, <1>3, <1>8, <2>5 DEF v
      <3>2. ref'.effective = sp /\ WindowEnds(ref'.filter, steady', sp)
        BY <2>2, <2>4, <3>1
      <3>3. steady' \in 0 .. ref'.filter.size
        BY <1>6, <3>1
      <3> QED BY <2>3, <3>2, <3>3 DEF ReferenceInv, ReferenceArrives, sp
    <2>6. CASE ~(p.Setpoint = params.Setpoint /\ Settled)
      <3>1. ref' # ref
        BY <1>3, <1>8, <1>10, <2>3
      <3>2. steady' = 0
        BY <1>2, <2>6, <3>1
      <3>3. ~Settled'
        BY <1>6, <3>2 DEF Settled
      <3>4. WindowEnds(ref'.filter, 0, sp)
        BY <1>3, <2>2, <2>4, FewerEnds
      <3> QED BY <1>6, <2>3, <3>2, <3>3, <3>4 DEF ReferenceInv, ReferenceArrives, sp
    <2> QED BY <2>5, <2>6
  <1> QED BY <1>9, <1>10

LEMMA SetSetpointReference ==
    ASSUME PidAssumption, IInv, ReferenceInv, NEW sp \in Setpoints, SetSetpoint(sp)
    PROVE  ReferenceInv'
  <1>1. params' = [params EXCEPT !.Setpoint = sp] /\ ref' = ref
        /\ steady' = (IF sp = params.Setpoint THEN steady ELSE 0)
    BY DEF SetSetpoint
  <1>2. params \in ParamsSet /\ sp \in Int /\ params.Setpoint \in Int
    BY DEF PidAssumption, IInv, Numbers, ParamsSet
  <1>3. params'.SetpointFilter = params.SetpointFilter /\ params'.Setpoint = sp
    BY <1>1, <1>2 DEF ParamsSet
  <1>4. ref.filter.size \in Nat /\ ref.filter.size > 0
    BY DEF IInv, Numbers, NumberFilter, FilterSet
  <1>5. CASE sp = params.Setpoint
    BY <1>1, <1>3, <1>5 DEF ReferenceInv, ReferenceArrives, Settled
  <1>6. CASE sp # params.Setpoint
    <2>1. steady' = 0
      BY <1>1, <1>6
    <2>2. ~Settled'
      BY <1>1, <1>4, <2>1 DEF Settled
    <2>3. LongWindow(ref.filter) => WindowEnds(ref.filter, 0, sp)
      BY <1>2, FewerEnds DEF ReferenceInv
    <2> QED BY <1>1, <1>3, <1>4, <2>1, <2>2, <2>3 DEF ReferenceInv, ReferenceArrives
  <1> QED BY <1>5, <1>6

LEMMA ResetReferenceInv ==
    ASSUME PidAssumption, IInv, ReferenceInv, Reset
    PROVE  ReferenceInv'
  <1>1. ref'.filter = ResetSignal(ref.filter) /\ params' = params /\ steady' = 0
    BY DEF Reset, ResetReference
  <1>2. NumberFilter(ref.filter) /\ ref.filter \in FilterSet /\ NaN \notin Int
        /\ params.Setpoint \in Int
    BY DEF IInv, Numbers, NumberFilter, PidAssumption, ParamsSet
  <1>3. SpecOf(ref'.filter) = params'.SetpointFilter /\ ~ref'.filter.seedFromFirst
    <2>1. SpecOf(ref.filter) = params.SetpointFilter /\ ~ref.filter.seedFromFirst
      BY DEF ReferenceInv
    <2>2. 0 \in Int
      OBVIOUS
    <2> QED BY <1>1, <1>2, <2>1, <2>2, KeepsSpec
  <1>4. ref'.filter.n = 0 /\ ref'.filter.sum = 0 /\ ref'.filter.size = ref.filter.size
    BY <1>1, <1>2 DEF ResetSignal, FilterSet
  <1>5. ref'.filter.size \in Nat /\ ref'.filter.size > 0
    BY <1>2, <1>4 DEF NumberFilter, FilterSet
  <1>6. WindowEnds(ref'.filter, 0, params.Setpoint)
    BY <1>2, <1>4, <1>5, EmptyTotals
  <1>7. ~Settled'
    BY <1>1, <1>5 DEF Settled
  <1> QED BY <1>1, <1>3, <1>5, <1>6, <1>7 DEF ReferenceInv, ReferenceArrives

LEMMA NextReferenceInv ==
    ASSUME PidAssumption, IInv, IInv', ReferenceInv, [Next]_vars
    PROVE  ReferenceInv'
  <1>1. ASSUME NEW measured \in Measures, NEW at \in Times, Compute(measured, at)
        PROVE  ReferenceInv'
    BY <1>1, ComputeReference
  <1>2. ASSUME NEW p \in Configs, SetParams(p)
        PROVE  ReferenceInv'
    BY <1>2, SetParamsReference
  <1>3. ASSUME NEW sp \in Setpoints, SetSetpoint(sp)
        PROVE  ReferenceInv'
    BY <1>3, SetSetpointReference
  <1>4. CASE Reset
    BY <1>4, ResetReferenceInv
  <1>5. CASE UNCHANGED vars
    BY <1>5 DEF vars, ReferenceInv, ReferenceArrives, Settled
  <1> QED BY <1>1, <1>2, <1>3, <1>4, <1>5 DEF Next

(* Whatever the filters, and however calls interleave with samples, a        *)
(* moving average of N is at the setpoint after N samples of it, and a change*)
(* of filter does not take it away (control.go:119-137).                     *)
THEOREM ReferenceThere == Spec => []ReferenceArrives
  <1>1. IInv /\ Init => ReferenceInv
    BY InitReference, PidAssumption
  <1>2. IInv /\ IInv' /\ ReferenceInv /\ [Next]_vars => ReferenceInv'
    BY NextReferenceInv, PidAssumption
  <1>3. ReferenceInv => ReferenceArrives
    BY DEF ReferenceInv
  <1> QED BY <1>1, <1>2, <1>3, Invariance, PTL DEF Spec

-----------------------------------------------------------------------------
(* The rest of the type: which params are in force, and the terms.           *)
InForce(p) == params = [Normal(p) EXCEPT !.Setpoint = params.Setpoint]

ShapeInv ==
    /\ \E p \in Configs : InForce(p)
    /\ clock.started \in BOOLEAN
    /\ TermsOK(terms)

LEMMA NormalInForce ==
    ASSUME PidAssumption, NEW p \in Configs, params = Normal(p)
    PROVE  InForce(p)
  <1>1. Normal(p) \in ParamsSet
    BY NormalInSet DEF PidAssumption, ParamsSet
  <1> QED BY <1>1 DEF InForce, ParamsSet

LEMMA InitShape ==
    ASSUME PidAssumption, Init
    PROVE  ShapeInv
  <1>1. \E p \in Configs : InForce(p)
    <2>1. PICK p \in Configs : params = Normal(p)
      BY DEF Init
    <2> QED BY <2>1, NormalInForce
  <1>2. TermsOK(terms)
    BY DEF Init, TermsOK, NoTerms
  <1>3. clock.started \in BOOLEAN
    BY DEF Init, NewClock
  <1> QED BY <1>1, <1>2, <1>3 DEF ShapeInv

LEMMA StepTermsOK ==
    ASSUME PidAssumption, Numbers, NEW measured \in Int, NEW dt \in Int
    PROVE  TermsOK(StepTerms(measured, dt))
  <1> DEFINE t == StepTerms(measured, dt)
  <1>1. /\ t.FF \in Int /\ t.P \in Int /\ t.D \in Int
        /\ t.I \in Int /\ t.Error \in Int /\ t.Output \in Int
    BY StepTermsWithin
  <1>2. t.Setpoint \in Int
    <2>1. t.Setpoint = Output(ref.filter, params.Setpoint)
      BY DEF StepTerms
    <2>2. params.Setpoint \in Int
      BY DEF Numbers, ParamsSet
    <2> QED BY <2>1, <2>2, FilterIsNumber DEF Numbers, PidAssumption
  <1>3. DOMAIN t = {"Setpoint", "Error", "P", "I", "D", "FF", "Output"}
    BY DEF StepTerms
  <1>4. DOMAIN NoTerms = {"Setpoint", "Error", "P", "I", "D", "FF", "Output"}
    BY DEF NoTerms
  <1> HIDE DEF t
  <1> QED BY <1>1, <1>2, <1>3, <1>4 DEF TermsOK, t

LEMMA NextShape ==
    ASSUME PidAssumption, IInv, ShapeInv, [Next]_vars
    PROVE  ShapeInv'
  <1>1. ASSUME NEW measured \in Measures, NEW at \in Times, Compute(measured, at)
        PROVE  ShapeInv'
    <2> DEFINE dt == Elapsed(clock, at)
    <2>1. measured \in Int /\ at \in Int /\ clock.last \in Int /\ Numbers
      BY DEF PidAssumption, IInv, Numbers
    <2>2. dt \in Int
      BY <2>1 DEF Elapsed
    <2>3. terms' = StepTerms(measured, dt) /\ clock' = Advanced(at) /\ params' = params
      BY <1>1 DEF Compute
    <2> HIDE DEF dt
    <2>4. TermsOK(terms')
      BY <2>1, <2>2, <2>3, StepTermsOK
    <2>5. clock'.started \in BOOLEAN
      BY <2>3 DEF Advanced
    <2> QED BY <2>3, <2>4, <2>5 DEF ShapeInv, InForce
  <1>2. ASSUME NEW p \in Configs, SetParams(p)
        PROVE  ShapeInv'
    <2>1. params' = Normal(p) /\ clock' = clock /\ terms' = terms
      BY <1>2 DEF SetParams
    <2>2. Normal(p) \in ParamsSet
      BY NormalInSet DEF PidAssumption, ParamsSet
    <2>3. InForce(p)'
      BY <2>1, <2>2 DEF InForce, ParamsSet
    <2> QED BY <2>1, <2>3 DEF ShapeInv
  <1>3. ASSUME NEW sp \in Setpoints, SetSetpoint(sp)
        PROVE  ShapeInv'
    <2>1. params' = [params EXCEPT !.Setpoint = sp] /\ clock' = clock /\ terms' = terms
      BY <1>3 DEF SetSetpoint
    <2>2. PICK p \in Configs : InForce(p)
      BY DEF ShapeInv
    <2>3. Normal(p) \in ParamsSet /\ params \in ParamsSet
      BY NormalInSet DEF PidAssumption, ParamsSet, IInv, Numbers
    <2>4. InForce(p)'
      BY <2>1, <2>2, <2>3 DEF InForce, ParamsSet
    <2> QED BY <2>1, <2>4 DEF ShapeInv
  <1>4. CASE Reset
    BY <1>4 DEF Reset, NewClock, ShapeInv, InForce
  <1>5. CASE UNCHANGED vars
    BY <1>5 DEF vars, ShapeInv, InForce
  <1> QED BY <1>1, <1>2, <1>3, <1>4, <1>5 DEF Next

(* Params, reference, clock, integral and terms are what they should be: no  *)
(* sample and no client brings in a number that is none (pid.go:81-133).     *)
THEOREM TypeCorrect == Spec => []TypeOK
  <1>1. IInv /\ ReferenceInv /\ ShapeInv => TypeOK
    <2> SUFFICES ASSUME IInv, ReferenceInv, ShapeInv
                 PROVE  TypeOK
      OBVIOUS
    <2>1. params.Setpoint \in Int /\ ValidLimits(params) /\ ref.filter.idx \in 0 .. ref.filter.size - 1
          /\ clock.last \in Int /\ integral \in Int /\ prevError \in Int /\ ref.effective \in Int
      BY DEF IInv, Numbers, NumberFilter, ParamsSet
    <2> QED BY <2>1 DEF TypeOK, ReferenceInv, ShapeInv, InForce
  <1>2. Init => ShapeInv
    BY InitShape, PidAssumption
  <1>3. IInv /\ ShapeInv /\ [Next]_vars => ShapeInv'
    BY NextShape, PidAssumption
  <1>4. IInv /\ Init => ReferenceInv
    BY InitReference, PidAssumption
  <1>5. IInv /\ IInv' /\ ReferenceInv /\ [Next]_vars => ReferenceInv'
    BY NextReferenceInv, PidAssumption
  <1> QED BY <1>1, <1>2, <1>3, <1>4, <1>5, Invariance, PTL DEF Spec
=============================================================================
