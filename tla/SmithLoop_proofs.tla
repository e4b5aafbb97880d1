----------------------------- MODULE SmithLoop_proofs -----------------------------
(****************************************************************************)
(* What SmithLoop promises, for every gain, limit, filter and model: all that *)
(* the controller keeps are numbers, and while the model is the target's the  *)
(* delay line of the predictor holds what is still under way from the target, *)
(* so that the dead time is taken out of the feedback.                        *)
(****************************************************************************)
EXTENDS SmithLoop, Control_proofs, SequenceTheorems, FiniteSetTheorems

ModelSet == [K : Int, Tau : Int, Theta : Int]

ParamsSet == [Kp : Int, Ki : Int, Setpoint : Int,
              SetpointFilter : [kind : FilterKinds, size : Int],
              Model : ModelSet, SampleSeconds : Int,
              Min : Int, Max : Int, IClamp : Int]

(* Which params are in force: a caller's, with the setpoint of another.      *)
InForce(p) == params = [Normal(p) EXCEPT !.Setpoint = params.Setpoint]

Dead == DelaySamples(params)

Numbers ==
    /\ params \in ParamsSet
    /\ ValidParams(params)
    /\ \E p \in Configs : ValidModel(p) /\ InForce(p)
    /\ ref \in [filter : FilterSet, effective : Int]
    /\ NumberFilter(ref.filter)
    /\ ~ref.filter.seedFromFirst
    /\ SpecOf(ref.filter) = params.SetpointFilter
    /\ clock.started \in BOOLEAN /\ clock.last \in Int
    /\ clock.started => clock.last \in Times
    /\ integral \in Int

TermNumbers ==
    /\ DOMAIN terms = {"I", "Output", "Feedback", "Prediction"}
    /\ terms.I \in Int /\ terms.Output \in Int
    /\ terms.Feedback \in Int /\ terms.Prediction \in Int

(* The predictor is of the params in force, and its ring of their dead time. *)
PredictorSet == [model : ModelSet, output : Int, held : Int, head : Nat, delay : Buffers]

PredictorOK ==
    /\ predictor \in PredictorSet
    /\ predictor.model = params.Model
    /\ predictor.delay \in [0 .. Dead - 1 -> Int]
    /\ predictor.head \in 0 .. Dead
    /\ Dead > 0 => predictor.head \in 0 .. Dead - 1

(* The place of the ring that is k after its head.                           *)
Ahead(k) == IF predictor.head + k < Dead THEN predictor.head + k
            ELSE predictor.head + k - Dead

(* The predictor is where the target is, and what is in its ring is, oldest  *)
(* first, what the target has done and not yet shown.                        *)
PlantSet == [model : ModelSet, output : Int, line : Seq(Int)]

Follows ==
    /\ plant \in PlantSet
    /\ plant.model = predictor.model
    /\ plant.output = predictor.output
    /\ terms.Output = predictor.held
    /\ Len(plant.line) = Dead
    /\ \A k \in 0 .. Dead - 1 : plant.line[k + 1] = predictor.delay[Ahead(k)]
    /\ terms.Feedback = terms.Prediction

PlantOK ==
    /\ plant \in PlantSet
    /\ \E p \in Configs : ValidModel(p) /\ plant.model = p.Model

IInv == /\ Numbers /\ TermNumbers /\ PredictorOK /\ PlantOK
        /\ matched \in BOOLEAN
        /\ matched => Follows

(* What bounds the predictor's controller, whatever the limits are changed   *)
(* to: the integral lies within the clamp in force, and what a sample asks of *)
(* the target within the limits in force (smith.go:74-87, control.go:55-68). *)
IntegralWithin == -params.IClamp <= integral /\ integral <= params.IClamp

OutputWithin ==
    \A at \in Times : Sample(at) => params'.Min <= terms'.Output /\ terms'.Output <= params'.Max

-----------------------------------------------------------------------------
LEMMA NormalInSet ==
    ASSUME NEW p \in ParamsSet
    PROVE  /\ Normal(p) \in ParamsSet
           /\ ValidParams(Normal(p)) = ValidParams(p)
           /\ Normal(p).SetpointFilter = Normalize(p.SetpointFilter)
           /\ Normal(p).Model = p.Model
           /\ DelaySamples(Normal(p)) = DelaySamples(p)
  <1>1. Normalize(p.SetpointFilter) \in [kind : FilterKinds, size : Int]
    BY DEF ParamsSet, Normalize
  <1>2. Normal(p) \in ParamsSet
    BY <1>1 DEF Normal, ParamsSet
  <1>3. /\ Normal(p).SetpointFilter = Normalize(p.SetpointFilter)
        /\ Normal(p).Model = p.Model /\ Normal(p).SampleSeconds = p.SampleSeconds
        /\ Normal(p).Min = p.Min /\ Normal(p).Max = p.Max /\ Normal(p).IClamp = p.IClamp
    BY DEF Normal, ParamsSet
  <1> QED BY <1>2, <1>3 DEF ValidParams, ValidLimits, ValidModel, DelaySamples

(* The dead time is a number of samples.                                     *)
LEMMA DelayIsNat ==
    ASSUME NEW p \in ParamsSet, ValidParams(p)
    PROVE  DelaySamples(p) \in Nat
  <1> DEFINE m == 2 * p.Model.Theta + p.SampleSeconds
             a == 2 * p.SampleSeconds
  <1>1. m \in Nat /\ a \in Nat /\ a > 0
    BY DEF ParamsSet, ModelSet, ValidParams, ValidModel
  <1>2. DelaySamples(p) = m \div a
    BY DEF DelaySamples
  <1> HIDE DEF m, a
  <1>3. m \div a \in Int /\ m % a \in 0 .. a - 1 /\ m = a * (m \div a) + (m % a)
    BY <1>1, Division
  <1>4. m \div a < 0 => a * (m \div a) <= -a
    BY <1>1, <1>3
  <1>5. m \div a >= 0
    BY <1>1, <1>3, <1>4
  <1> QED BY <1>2, <1>3, <1>5

LEMMA ResponseIsNumber ==
    ASSUME NEW model \in ModelSet, NEW output \in Int, NEW input \in Int, NEW dt,
           Persist[<<model.Tau, dt>>] \in 0 .. 100
    PROVE  Response(model, output, input, dt) \in Int
  <1> DEFINE a == Persist[<<model.Tau, dt>>]
             y == a * output + model.K * (100 - a) * input
  <1>1. a \in Int /\ model.K \in Int
    BY DEF ModelSet
  <1> HIDE DEF a
  <1>2. y \in Int
    BY <1>1
  <1> HIDE DEF y
  <1>3. y \div 100 \in Int
    BY <1>2
  <1> QED BY <1>3 DEF Response, a, y

(* A new predictor of the params is one of theirs.                           *)
LEMMA NewPredictorOK ==
    ASSUME NEW p \in ParamsSet, ValidParams(p)
    PROVE  LET d == NewPredictor(p)
           IN /\ d \in PredictorSet /\ d.model = p.Model
              /\ d.delay \in [0 .. DelaySamples(p) - 1 -> Int]
              /\ \A i \in 0 .. DelaySamples(p) - 1 : d.delay[i] = 0
              /\ d.head = 0 /\ d.output = 0 /\ d.held = 0
  <1> DEFINE n == DelaySamples(p)
             b == [i \in 0 .. n - 1 |-> 0]
  <1>1. n \in Nat
    BY DelayIsNat
  <1>2. NewPredictor(p) = [model |-> p.Model, output |-> 0, held |-> 0, head |-> 0, delay |-> b]
    BY DEF NewPredictor
  <1> HIDE DEF n
  <1>3. b \in [0 .. n - 1 -> Int] /\ \A i \in 0 .. n - 1 : b[i] = 0
    OBVIOUS
  <1> HIDE DEF b
  <1>4. b \in Buffers
    BY <1>1, <1>3 DEF Buffers
  <1>5. p.Model \in ModelSet
    BY DEF ParamsSet
  <1> QED BY <1>2, <1>3, <1>4, <1>5 DEF PredictorSet, n

-----------------------------------------------------------------------------
(* At any sample the model can be asked for its response.                    *)
LEMMA PersistAt ==
    ASSUME SmithAssumption, Numbers, NEW at \in Times, ~Outdated(clock, at),
           NEW p \in Configs, ValidModel(p)
    PROVE  /\ Elapsed(clock, at) \in Int
           /\ Persist[<<p.Model.Tau, Elapsed(clock, at)>>] \in 0 .. 100
  <1> DEFINE dt == Elapsed(clock, at)
  <1>1. at \in Int /\ clock.last \in Int
    BY DEF SmithAssumption, Numbers
  <1>2. dt \in Int
    BY <1>1 DEF Elapsed
  <1>3. \E a, b \in Times : a <= b /\ dt = b - a
    <2>1. CASE clock.started
      <3>1. clock.last \in Times /\ clock.last <= at
        BY <1>1, <2>1 DEF Numbers, Outdated
      <3>2. dt = at - clock.last
        BY <2>1 DEF Elapsed
      <3> QED BY <3>1, <3>2
    <2>2. CASE ~clock.started
      <3>1. dt = 0 /\ at - at = 0 /\ at <= at
        BY <1>1, <2>2 DEF Elapsed
      <3> QED BY <3>1
    <2> QED BY <2>1, <2>2
  <1>4. Persist[<<p.Model.Tau, dt>>] \in 0 .. 100
    BY <1>3 DEF SmithAssumption
  <1> QED BY <1>2, <1>4

LEMMA PredictedIsNumber ==
    ASSUME SmithAssumption, Numbers, PredictorOK, NEW at \in Times, ~Outdated(clock, at)
    PROVE  Elapsed(clock, at) \in Int /\ Predicted(Elapsed(clock, at)) \in Int
  <1> DEFINE dt == Elapsed(clock, at)
  <1>1. PICK p \in Configs : ValidModel(p) /\ InForce(p)
    BY DEF Numbers
  <1>2. p \in ParamsSet
    BY DEF SmithAssumption, ParamsSet, ModelSet
  <1>3. predictor.model.Tau = p.Model.Tau
    <2>1. Normal(p) \in ParamsSet /\ Normal(p).Model = p.Model
      BY <1>2, NormalInSet
    <2>2. params.Model = p.Model
      BY <1>1, <2>1 DEF InForce, ParamsSet
    <2> QED BY <2>2 DEF PredictorOK
  <1>4. dt \in Int /\ Persist[<<p.Model.Tau, dt>>] \in 0 .. 100
    BY <1>1, PersistAt
  <1> HIDE DEF dt
  <1>5. predictor.model \in ModelSet /\ predictor.output \in Int /\ predictor.held \in Int
    BY DEF PredictorOK, PredictorSet
  <1>6. Predicted(dt) \in Int
    BY <1>3, <1>4, <1>5, ResponseIsNumber DEF Predicted
  <1> QED BY <1>4, <1>6 DEF dt

(* What comes out of the ring is what was put in a dead time ago.            *)
LEMMA LeavingIsNumber ==
    ASSUME Numbers, PredictorOK, NEW y \in Int
    PROVE  /\ Leaving(predictor, y) \in Int
           /\ Dead = 0 => Leaving(predictor, y) = y
           /\ Dead > 0 => Leaving(predictor, y) = predictor.delay[predictor.head]
  <1>1. Dead \in Nat
    BY DelayIsNat DEF Numbers, Dead
  <1>2. DOMAIN predictor.delay = 0 .. Dead - 1
    BY DEF PredictorOK
  <1>3. Dead = 0 => Leaving(predictor, y) = y
    BY <1>1, <1>2 DEF Leaving
  <1>4. Dead > 0 => Leaving(predictor, y) = predictor.delay[predictor.head]
    <2> SUFFICES ASSUME Dead > 0
                 PROVE  DOMAIN predictor.delay # {}
      BY DEF Leaving
    <2>1. 0 \in DOMAIN predictor.delay
      BY <1>1, <1>2
    <2> QED BY <2>1
  <1>5. Dead > 0 => predictor.delay[predictor.head] \in Int
    BY DEF PredictorOK
  <1> QED BY <1>1, <1>3, <1>4, <1>5

(* The ring after a sample.                                                  *)
Moved(y, o, u) == [Pushed(predictor, y) EXCEPT !.output = o, !.held = u]

LEMMA PushedRing ==
    ASSUME Numbers, PredictorOK, NEW y \in Int, NEW o \in Int, NEW u \in Int
    PROVE  /\ Moved(y, o, u) \in PredictorSet
           /\ Moved(y, o, u).model = predictor.model /\ Moved(y, o, u).output = o /\ Moved(y, o, u).held = u
           /\ Moved(y, o, u).delay \in [0 .. Dead - 1 -> Int]
           /\ Dead = 0 => Moved(y, o, u).head = predictor.head
           /\ Dead > 0 => Moved(y, o, u).head = (IF predictor.head + 1 = Dead THEN 0 ELSE predictor.head + 1)
           /\ Dead > 0 => Moved(y, o, u).delay[predictor.head] = y
           /\ \A j \in 0 .. Dead - 1 : j # predictor.head => Moved(y, o, u).delay[j] = predictor.delay[j]
  <1> DEFINE h == predictor.head
             d == Moved(y, o, u)
             b == [predictor.delay EXCEPT ![h] = y]
             i == (h + 1) % Dead
  <1>1. Dead \in Nat
    BY DelayIsNat DEF Numbers, Dead
  <1>2. predictor \in PredictorSet /\ predictor.delay \in [0 .. Dead - 1 -> Int]
        /\ (Dead > 0 => h \in 0 .. Dead - 1)
    BY DEF PredictorOK
  <1>3. CASE Dead = 0
    <2>1. DOMAIN predictor.delay = {}
      BY <1>2, <1>3
    <2>2. d = [predictor EXCEPT !.output = o, !.held = u]
      BY <2>1 DEF Pushed, Moved
    <2> HIDE DEF d
    <2>3. d \in PredictorSet /\ d.model = predictor.model /\ d.output = o /\ d.held = u
          /\ d.delay = predictor.delay /\ d.head = h
      BY <1>2, <2>2 DEF PredictorSet
    <2> QED BY <1>2, <1>3, <2>3 DEF d
  <1>4. CASE Dead > 0
    <2>1. DOMAIN predictor.delay = 0 .. Dead - 1
      BY <1>2
    <2>2. Cardinality(DOMAIN predictor.delay) = Dead
      <3>1. 0 \in Int /\ Dead - 1 \in Int /\ 0 <= Dead - 1
        BY <1>1, <1>4
      <3>2. Cardinality(0 .. Dead - 1) = IF 0 > Dead - 1 THEN 0 ELSE (Dead - 1) - 0 + 1
        BY <3>1, FS_Interval, Zenon
      <3> QED BY <1>1, <2>1, <3>1, <3>2
    <2>3. DOMAIN predictor.delay # {}
      <3>1. 0 \in 0 .. Dead - 1
        BY <1>1, <1>4
      <3> QED BY <2>1, <3>1
    <2>4. i = IF h + 1 = Dead THEN 0 ELSE h + 1
      BY <1>1, <1>2, <1>4, NextIndex
    <2>5. Pushed(predictor, y) = [predictor EXCEPT !.delay = b, !.head = i]
      BY <1>2, <2>2, <2>3 DEF Pushed, PredictorSet
    <2>6. b \in [0 .. Dead - 1 -> Int]
      BY <1>2, <1>4
    <2>7. b \in Buffers
      BY <1>1, <2>6 DEF Buffers
    <2>8. i \in Nat
      BY <1>1, <1>2, <1>4, <2>4
    <2> HIDE DEF b, i
    <2>9. d = [predictor EXCEPT !.delay = b, !.head = i, !.output = o, !.held = u]
      BY <1>2, <2>5 DEF PredictorSet, Moved
    <2> HIDE DEF d
    <2>10. d \in PredictorSet /\ d.model = predictor.model /\ d.output = o /\ d.held = u
           /\ d.delay = b /\ d.head = i
      BY <1>2, <2>7, <2>8, <2>9 DEF PredictorSet
    <2>11. /\ d.delay \in [0 .. Dead - 1 -> Int]
           /\ d.head = (IF h + 1 = Dead THEN 0 ELSE h + 1)
      BY <2>4, <2>6, <2>10
    <2>12. /\ d.delay[h] = y
           /\ \A j \in 0 .. Dead - 1 : j # h => d.delay[j] = predictor.delay[j]
      BY <1>2, <1>4, <2>10 DEF b
    <2> QED BY <1>4, <2>10, <2>11, <2>12 DEF d
  <1> QED BY <1>1, <1>3, <1>4

(* The terms of a sample: numbers, and the feedback they are of.             *)
LEMMA StepTermsOK ==
    ASSUME SmithAssumption, Numbers, PredictorOK, NEW measured \in Int, NEW at \in Times,
           ~Outdated(clock, at)
    PROVE  LET dt == Elapsed(clock, at)
               t == StepTerms(measured, dt)
           IN /\ DOMAIN t = {"I", "Output", "Feedback", "Prediction"}
              /\ t.I \in Int /\ t.Output \in Int /\ t.Feedback \in Int
              /\ -params.IClamp <= t.I /\ t.I <= params.IClamp
              /\ params.Min <= t.Output /\ t.Output <= params.Max
              /\ t.Prediction = Predicted(dt)
              /\ t.Feedback = measured + Predicted(dt) - Leaving(predictor, Predicted(dt))
  <1> DEFINE dt == Elapsed(clock, at)
             now == Predicted(dt)
             feedback == measured + now - Leaving(predictor, now)
             sp == Output(ref.filter, params.Setpoint)
             e == sp - feedback
             p == params.Kp * e
             delta == params.Ki * e * dt
             i == Integrate(params, integral, delta, p)
             o == Clamp(p + i, params.Min, params.Max)
  <1>1. /\ params.Kp \in Int /\ params.Ki \in Int /\ params.Setpoint \in Int
        /\ params.Min \in Int /\ params.Max \in Int /\ params.IClamp \in Int
        /\ params.Min <= params.Max /\ ValidLimits(params) /\ integral \in Int
    BY DEF Numbers, ParamsSet, ValidParams, ValidLimits
  <1>2. dt \in Int /\ now \in Int
    BY PredictedIsNumber
  <1>3. feedback \in Int
    BY <1>2, LeavingIsNumber
  <1>4. sp \in Int
    BY <1>1, FilterIsNumber DEF Numbers, SmithAssumption
  <1>5. StepTerms(measured, dt) = [I |-> i, Output |-> o, Feedback |-> feedback, Prediction |-> now]
    BY DEF StepTerms
  <1> HIDE DEF dt, now, feedback, sp
  <1>6. e \in Int
    BY <1>3, <1>4
  <1> HIDE DEF e
  <1>7. p \in Int /\ delta \in Int
    <2>1. params.Ki * e \in Int
      BY <1>1, <1>6
    <2> QED BY <1>1, <1>2, <1>6, <2>1
  <1> HIDE DEF p, delta
  <1>8. i \in Int
    BY <1>1, <1>7, IntegrateWithin
  <1>9. -params.IClamp <= i /\ i <= params.IClamp
    BY <1>1, <1>7, IntegrateWithin
  <1> HIDE DEF i
  <1>10. o \in Int /\ params.Min <= o /\ o <= params.Max
    <2>1. p + i \in Int
      BY <1>7, <1>8
    <2> QED BY <1>1, <2>1, ClampWithin
  <1> HIDE DEF o
  <1> QED BY <1>3, <1>5, <1>8, <1>9, <1>10 DEF feedback, now, dt

-----------------------------------------------------------------------------
LEMMA NewReferenceOK ==
    ASSUME SmithAssumption, NEW p \in Configs, NEW q \in ParamsSet,
           q.SetpointFilter = Normalize(p.SetpointFilter)
    PROVE  LET g == NewSignal(q.SetpointFilter, FALSE)
           IN NumberFilter(g) /\ ~g.seedFromFirst /\ SpecOf(g) = q.SetpointFilter
  <1>1. p \in ParamsSet
    BY DEF SmithAssumption, ParamsSet, ModelSet
  <1>2. q.SetpointFilter \in [kind : FilterKinds, size : Int]
    BY DEF ParamsSet
  <1>3. Normalize(q.SetpointFilter) = q.SetpointFilter
    BY <1>1 DEF Normalize, ParamsSet
  <1>4. Decay[Normalize(q.SetpointFilter).size] \in 0 .. 100
    BY <1>3 DEF SmithAssumption
  <1> QED BY <1>2, <1>3, <1>4, NewIsNumber, NewKeepsSpec

LEMMA InitIInv ==
    ASSUME SmithAssumption, Init
    PROVE  IInv
  <1>1. PICK p \in Configs : ValidParams(p) /\ params = Normal(p)
    BY DEF Init, SmithInit
  <1>2. p \in ParamsSet
    BY DEF SmithAssumption, ParamsSet, ModelSet
  <1>3. /\ params \in ParamsSet /\ ValidParams(params)
        /\ params.SetpointFilter = Normalize(p.SetpointFilter)
    BY <1>1, <1>2, NormalInSet
  <1>4. /\ ref = NewReference(params.SetpointFilter) /\ clock = NewClock /\ integral = 0
        /\ predictor = NewPredictor(params) /\ terms = NoTerms /\ matched = TRUE
        /\ plant = [model |-> params.Model, output |-> 0,
                    line |-> [i \in 1 .. DelaySamples(params) |-> 0]]
    BY DEF Init, SmithInit
  <1>5. Numbers
    <2> DEFINE g == NewSignal(params.SetpointFilter, FALSE)
    <2>1. NumberFilter(g) /\ ~g.seedFromFirst /\ SpecOf(g) = params.SetpointFilter
      BY <1>3, NewReferenceOK
    <2>2. ref = [filter |-> g, effective |-> 0]
      BY <1>4 DEF NewReference
    <2> HIDE DEF g
    <2>3. g \in FilterSet
      BY <2>1 DEF NumberFilter
    <2>4. ref \in [filter : FilterSet, effective : Int] /\ ref.filter = g
      BY <2>2, <2>3
    <2>5. ValidModel(p) /\ InForce(p)
      BY <1>1, <1>3 DEF ValidParams, InForce, ParamsSet
    <2>6. clock.started = FALSE /\ clock.last = 0 /\ integral = 0
      BY <1>4 DEF NewClock
    <2>7. \E q \in Configs : ValidModel(q) /\ InForce(q)
      BY <2>5
    <2>9. /\ clock.started \in BOOLEAN /\ clock.last \in Int /\ integral \in Int
          /\ clock.started => clock.last \in Times
      <3>1. clock.started \in BOOLEAN /\ (clock.started => clock.last \in Times)
        BY <2>6, Zenon
      <3> QED BY <2>6, <3>1
    <2>8. NumberFilter(ref.filter) /\ ~ref.filter.seedFromFirst
          /\ SpecOf(ref.filter) = params.SetpointFilter
      BY <2>1, <2>4
    <2> QED BY <1>3, <2>4, <2>7, <2>8, <2>9, Zenon DEF Numbers
  <1>6. TermNumbers
    BY <1>4 DEF TermNumbers, NoTerms
  <1>7. Dead \in Nat
    BY <1>3, DelayIsNat DEF Dead
  <1>8. /\ predictor \in PredictorSet /\ predictor.model = params.Model
        /\ predictor.delay \in [0 .. Dead - 1 -> Int]
        /\ \A i \in 0 .. Dead - 1 : predictor.delay[i] = 0
        /\ predictor.head = 0 /\ predictor.output = 0 /\ predictor.held = 0
    BY <1>3, <1>4, NewPredictorOK DEF Dead
  <1>9. PredictorOK
    BY <1>7, <1>8 DEF PredictorOK
  <1>10. Follows
    <2> DEFINE l == [i \in 1 .. Dead |-> 0]
    <2>1. l \in Seq(Int) /\ Len(l) = Dead /\ \A i \in 1 .. Dead : l[i] = 0
      BY <1>7
    <2>2. plant = [model |-> params.Model, output |-> 0, line |-> l]
      BY <1>4 DEF Dead
    <2> HIDE DEF l
    <2>3. params.Model \in ModelSet
      BY <1>3 DEF ParamsSet
    <2>4. plant \in PlantSet /\ plant.model = params.Model /\ plant.output = 0 /\ plant.line = l
      BY <2>1, <2>2, <2>3 DEF PlantSet
    <2>5. terms.Output = 0 /\ terms.Feedback = terms.Prediction
      BY <1>4 DEF NoTerms
    <2>6. \A k \in 0 .. Dead - 1 : plant.line[k + 1] = predictor.delay[Ahead(k)]
      <3> SUFFICES ASSUME NEW k \in 0 .. Dead - 1
                   PROVE  plant.line[k + 1] = predictor.delay[Ahead(k)]
        OBVIOUS
      <3>1. Ahead(k) = k /\ k + 1 \in 1 .. Dead
        BY <1>7, <1>8 DEF Ahead
      <3> QED BY <1>8, <2>1, <2>4, <3>1
    <2> QED BY <1>8, <2>1, <2>4, <2>5, <2>6 DEF Follows
  <1>11. PlantOK
    <2>1. ValidModel(p) /\ params.Model = p.Model
      BY <1>1, <1>2, NormalInSet DEF ValidParams
    <2>2. plant.model = p.Model
      BY <1>4, <2>1
    <2>3. plant \in PlantSet
      BY <1>10 DEF Follows
    <2> QED BY <2>1, <2>2, <2>3 DEF PlantOK
  <1> QED BY <1>4, <1>5, <1>6, <1>9, <1>10, <1>11 DEF IInv

(* The target's line, with a sample in and one out.                          *)
LEMMA LineMoves ==
    ASSUME NEW s \in Seq(Int), NEW x \in Int
    PROVE  LET l == Append(s, x)
           IN /\ Head(l) \in Int /\ Tail(l) \in Seq(Int) /\ Len(Tail(l)) = Len(s)
              /\ Len(s) = 0 => Head(l) = x
              /\ Len(s) > 0 => Head(l) = s[1]
              /\ \A k \in 0 .. Len(s) - 1 :
                    Tail(l)[k + 1] = IF k + 1 = Len(s) THEN x ELSE s[k + 2]
  <1> DEFINE l == Append(s, x)
  <1>1. Len(s) \in Nat
    BY LenProperties
  <1>2. /\ l \in Seq(Int) /\ Len(l) = Len(s) + 1
        /\ \A i \in 1 .. Len(s) + 1 : l[i] = IF i <= Len(s) THEN s[i] ELSE x
    BY AppendProperties
  <1> HIDE DEF l
  <1>3. l # <<>>
    BY <1>1, <1>2, EmptySeq
  <1>4. /\ Head(l) \in Int /\ Head(l) = l[1] /\ Tail(l) \in Seq(Int) /\ Len(Tail(l)) = Len(l) - 1
        /\ \A i \in 1 .. Len(l) - 1 : Tail(l)[i] = l[i + 1]
    <2>1. /\ Head(l) \in Int /\ Tail(l) \in Seq(Int) /\ Len(Tail(l)) = Len(l) - 1
          /\ \A i \in 1 .. Len(Tail(l)) : Tail(l)[i] = l[i + 1]
      BY <1>2, <1>3, HeadTailProperties
    <2>2. Head(l) = l[1]
      BY <1>2
    <2> QED BY <2>1, <2>2
  <1>5. Head(l) = IF Len(s) = 0 THEN x ELSE s[1]
    <2>1. 1 \in 1 .. Len(s) + 1
      BY <1>1
    <2> QED BY <1>1, <1>2, <1>4, <2>1
  <1>6. ASSUME NEW k \in 0 .. Len(s) - 1
        PROVE  Tail(l)[k + 1] = IF k + 1 = Len(s) THEN x ELSE s[k + 2]
    <2>1. k + 1 \in 1 .. Len(l) - 1 /\ k + 2 \in 1 .. Len(s) + 1 /\ (k + 1) + 1 = k + 2
      BY <1>1, <1>2
    <2>2. Tail(l)[k + 1] = l[k + 2]
      BY <1>4, <2>1
    <2>3. k + 2 <= Len(s) <=> k + 1 # Len(s)
      BY <1>1
    <2> QED BY <1>2, <2>1, <2>2, <2>3
  <1>7. /\ Head(l) \in Int /\ Tail(l) \in Seq(Int) /\ Len(Tail(l)) = Len(s)
        /\ Len(s) = 0 => Head(l) = x
        /\ Len(s) > 0 => Head(l) = s[1]
    <2>1. Len(Tail(l)) = Len(s)
      BY <1>1, <1>2, <1>4
    <2>2. Len(s) > 0 => Len(s) # 0
      BY <1>1
    <2> QED BY <1>4, <1>5, <2>1, <2>2, Zenon
  <1> QED BY <1>6, <1>7, Zenon DEF l

(* A poll of a target that the predictor follows: what the target shows is   *)
(* what leaves the ring, and what enters both is the same.                   *)
LEMMA FollowsSample ==
    ASSUME SmithAssumption, Numbers, TermNumbers, PredictorOK, Follows,
           NEW at \in Times, Sample(at)
    PROVE  Follows'
  <1> DEFINE dt == Elapsed(clock, at)
             now == Predicted(dt)
             line == Append(plant.line, now)
             h == predictor.head
  <1>1. ~Outdated(clock, at)
    BY DEF Sample, Compute
  <1>2. dt \in Int /\ now \in Int
    BY <1>1, PredictedIsNumber
  <1>3. Response(plant.model, plant.output, terms.Output, dt) = now
    BY DEF Predicted, Follows
  <1>4. /\ plant' = [plant EXCEPT !.output = now, !.line = Tail(line)]
        /\ terms' = StepTerms(Head(line), dt)
        /\ predictor' = AdvancedPredictor(dt, terms'.Output)
        /\ params' = params
    BY <1>3 DEF Sample, Compute
  <1> HIDE DEF dt, now
  <1>5. Dead \in Nat /\ Dead' = Dead
    BY <1>4, DelayIsNat DEF Numbers, Dead
  <1>6. plant \in PlantSet /\ plant.line \in Seq(Int) /\ Len(plant.line) = Dead
        /\ \A k \in 0 .. Dead - 1 : plant.line[k + 1] = predictor.delay[Ahead(k)]
    BY DEF Follows, PlantSet
  <1>7. /\ Head(line) \in Int /\ Tail(line) \in Seq(Int) /\ Len(Tail(line)) = Dead
        /\ Dead = 0 => Head(line) = now
        /\ Dead > 0 => Head(line) = plant.line[1]
        /\ \A k \in 0 .. Dead - 1 :
              Tail(line)[k + 1] = IF k + 1 = Dead THEN now ELSE plant.line[k + 2]
    BY <1>2, <1>6, LineMoves
  <1> HIDE DEF line
  <1>8. /\ DOMAIN terms' = {"I", "Output", "Feedback", "Prediction"}
        /\ terms'.I \in Int /\ terms'.Output \in Int /\ terms'.Feedback \in Int
        /\ terms'.Prediction = now
        /\ terms'.Feedback = Head(line) + now - Leaving(predictor, now)
    BY <1>1, <1>4, <1>7, StepTermsOK DEF now, dt
  <1>9. predictor' = Moved(now, now, terms'.Output)
    BY <1>4 DEF AdvancedPredictor, Moved, now
  <1>10. /\ predictor' \in PredictorSet
         /\ predictor'.model = predictor.model /\ predictor'.output = now
         /\ predictor'.held = terms'.Output
         /\ predictor'.delay \in [0 .. Dead - 1 -> Int]
         /\ Dead = 0 => predictor'.head = h
         /\ Dead > 0 => predictor'.head = (IF h + 1 = Dead THEN 0 ELSE h + 1)
         /\ Dead > 0 => predictor'.delay[h] = now
         /\ \A j \in 0 .. Dead - 1 : j # h => predictor'.delay[j] = predictor.delay[j]
    <2>1. terms'.Output \in Int
      BY <1>8
    <2>2. predictor' \in PredictorSet /\ predictor'.delay \in [0 .. Dead - 1 -> Int]
      BY <1>2, <1>9, <2>1, PushedRing
    <2>8. predictor'.model = predictor.model
      BY <1>2, <1>9, <2>1, PushedRing
    <2>9. predictor'.output = now /\ predictor'.held = terms'.Output
      BY <1>2, <1>9, <2>1, PushedRing
    <2>3. Dead = 0 => predictor'.head = h
      BY <1>2, <1>9, <2>1, PushedRing
    <2>4. Dead > 0 => predictor'.head = (IF h + 1 = Dead THEN 0 ELSE h + 1)
      BY <1>2, <1>9, <2>1, PushedRing
    <2>7. now \in Int
      BY <1>2
    <2>5. Dead > 0 => predictor'.delay[h] = now
      BY <1>9, <2>1, <2>7, PushedRing
    <2>6. ASSUME NEW j \in 0 .. Dead - 1, j # h
          PROVE  predictor'.delay[j] = predictor.delay[j]
      BY <1>9, <2>1, <2>6, <2>7, PushedRing
    <2> QED BY <2>2, <2>3, <2>4, <2>5, <2>6, <2>8, <2>9
  <1>11. predictor.delay \in [0 .. Dead - 1 -> Int] /\ h \in 0 .. Dead
         /\ (Dead > 0 => h \in 0 .. Dead - 1)
    BY DEF PredictorOK
  <1>13. terms'.Feedback = now
    <2>1. Head(line) = Leaving(predictor, now)
      <3>1. CASE Dead = 0
        BY <1>2, <1>7, <3>1, LeavingIsNumber
      <3>2. CASE Dead > 0
        <4>1. 0 \in 0 .. Dead - 1 /\ Ahead(0) = h
          BY <1>5, <1>11, <3>2 DEF Ahead
        <4>2. plant.line[0 + 1] = predictor.delay[Ahead(0)]
          BY <1>6, <4>1
        <4>3. Leaving(predictor, now) = predictor.delay[h]
          BY <1>2, <3>2, LeavingIsNumber
        <4>4. plant.line[1] = predictor.delay[h]
          BY <4>1, <4>2
        <4> QED BY <1>7, <3>2, <4>3, <4>4
      <3> QED BY <1>5, <3>1, <3>2
    <2> QED BY <1>2, <1>7, <1>8, <2>1
  <1>14. \A k \in 0 .. Dead - 1 : Tail(line)[k + 1] = predictor'.delay[Ahead(k)']
    <2> SUFFICES ASSUME NEW k \in 0 .. Dead - 1
                 PROVE  Tail(line)[k + 1] = predictor'.delay[Ahead(k)']
      OBVIOUS
    <2>1. Dead > 0 /\ h \in 0 .. Dead - 1
      BY <1>5, <1>11
    <2>2. Ahead(k)' = IF predictor'.head + k < Dead THEN predictor'.head + k
                      ELSE predictor'.head + k - Dead
      BY <1>5 DEF Ahead
    <2>3. predictor'.head = IF h + 1 = Dead THEN 0 ELSE h + 1
      BY <1>10, <2>1
    <2>4. CASE k + 1 = Dead
      <3>1. Ahead(k)' = h
        BY <1>5, <2>1, <2>2, <2>3, <2>4
      <3>2. predictor'.delay[h] = now
        BY <1>10, <1>11, <2>1
      <3> QED BY <1>7, <2>4, <3>1, <3>2
    <2>5. CASE k + 1 # Dead
      <3>1. Ahead(k)' = Ahead(k + 1) /\ Ahead(k + 1) # h /\ Ahead(k + 1) \in 0 .. Dead - 1
        BY <1>5, <2>1, <2>2, <2>3, <2>5 DEF Ahead
      <3>2. predictor'.delay[Ahead(k + 1)] = predictor.delay[Ahead(k + 1)]
        BY <1>10, <1>11, <2>1, <3>1
      <3>3. k + 1 \in 0 .. Dead - 1 /\ (k + 1) + 1 = k + 2
        BY <1>5, <2>5
      <3>4. plant.line[k + 2] = predictor.delay[Ahead(k + 1)]
        BY <1>6, <3>3
      <3> QED BY <1>7, <2>5, <3>1, <3>2, <3>4
    <2> QED BY <2>4, <2>5
  <1>15. plant' \in PlantSet /\ plant'.model = plant.model /\ plant'.output = now
         /\ plant'.line = Tail(line)
    BY <1>2, <1>4, <1>6, <1>7 DEF PlantSet
  <1>16. plant.model = predictor.model
    BY DEF Follows
  <1> QED BY <1>5, <1>7, <1>8, <1>10, <1>13, <1>14, <1>15, <1>16 DEF Follows

(* A poll, whether the predictor follows the target or not.                  *)
LEMMA SampleOK ==
    ASSUME SmithAssumption, Numbers, TermNumbers, PredictorOK, PlantOK,
           NEW at \in Times, Sample(at)
    PROVE  /\ Numbers' /\ TermNumbers' /\ PredictorOK' /\ PlantOK'
           /\ IntegralWithin' /\ params'.Min <= terms'.Output /\ terms'.Output <= params'.Max
  <1> DEFINE dt == Elapsed(clock, at)
             now == Predicted(dt)
             output == Response(plant.model, plant.output, terms.Output, dt)
             line == Append(plant.line, output)
  <1>1. ~Outdated(clock, at)
    BY DEF Sample, Compute
  <1>2. dt \in Int /\ now \in Int
    BY <1>1, PredictedIsNumber
  <1>3. /\ plant' = [plant EXCEPT !.output = output, !.line = Tail(line)]
        /\ terms' = StepTerms(Head(line), dt)
        /\ predictor' = AdvancedPredictor(dt, terms'.Output)
        /\ params' = params /\ clock' = Advanced(at) /\ integral' = terms'.I
        /\ ref' = NextReference(ref, params.Setpoint)
    BY DEF Sample, Compute
  <1> HIDE DEF dt, now
  <1>4. output \in Int
    <2>1. PICK p \in Configs : ValidModel(p) /\ plant.model = p.Model
      BY DEF PlantOK
    <2>2. Persist[<<plant.model.Tau, dt>>] \in 0 .. 100
      BY <1>1, <2>1, PersistAt DEF dt
    <2>3. plant.model \in ModelSet /\ plant.output \in Int /\ terms.Output \in Int
      BY DEF PlantOK, PlantSet, TermNumbers
    <2> QED BY <2>2, <2>3, ResponseIsNumber
  <1> HIDE DEF output
  <1>5. Head(line) \in Int /\ Tail(line) \in Seq(Int)
    <2>1. plant.line \in Seq(Int)
      BY DEF PlantOK, PlantSet
    <2> QED BY <1>4, <2>1, LineMoves
  <1> HIDE DEF line
  <1>6. /\ DOMAIN terms' = {"I", "Output", "Feedback", "Prediction"}
        /\ terms'.I \in Int /\ terms'.Output \in Int /\ terms'.Feedback \in Int
        /\ terms'.Prediction = now
        /\ -params.IClamp <= terms'.I /\ terms'.I <= params.IClamp
        /\ params.Min <= terms'.Output /\ terms'.Output <= params.Max
    BY <1>1, <1>3, <1>5, StepTermsOK DEF now, dt
  <1>7. TermNumbers'
    BY <1>2, <1>6 DEF TermNumbers
  <1>8. PlantOK'
    <2>1. plant' \in PlantSet /\ plant'.model = plant.model
      BY <1>3, <1>4, <1>5 DEF PlantOK, PlantSet
    <2> QED BY <2>1 DEF PlantOK
  <1>9. PredictorOK'
    <2> DEFINE u == terms'.Output
               d == Moved(now, now, u)
               h == predictor.head
    <2>1. u \in Int
      BY <1>6
    <2>2. predictor' = d
      BY <1>3 DEF AdvancedPredictor, Moved, now
    <2> HIDE DEF u
    <2>3. /\ d \in PredictorSet /\ d.model = predictor.model
          /\ d.delay \in [0 .. Dead - 1 -> Int]
          /\ Dead = 0 => d.head = h
          /\ Dead > 0 => d.head = (IF h + 1 = Dead THEN 0 ELSE h + 1)
      BY <1>2, <2>1, PushedRing
    <2> HIDE DEF d
    <2>4. Dead \in Nat /\ Dead' = Dead
      BY <1>3, DelayIsNat DEF Numbers, Dead
    <2>5. h \in 0 .. Dead /\ (Dead > 0 => h \in 0 .. Dead - 1)
      BY DEF PredictorOK
    <2>6. d.head \in 0 .. Dead /\ (Dead > 0 => d.head \in 0 .. Dead - 1)
      BY <2>3, <2>4, <2>5
    <2>7. predictor'.model = params'.Model
      BY <1>3, <2>2, <2>3 DEF PredictorOK
    <2> QED BY <2>2, <2>3, <2>4, <2>6, <2>7 DEF PredictorOK
  <1>10. Numbers'
    <2> DEFINE g == Filtered(ref.filter, params.Setpoint)
               v == Output(ref.filter, params.Setpoint)
    <2>1. params.Setpoint \in Int /\ NumberFilter(ref.filter) /\ ~ref.filter.seedFromFirst
          /\ NaN \notin Int
      BY DEF Numbers, ParamsSet, SmithAssumption
    <2>2. NumberFilter(g) /\ v \in Int
      BY <2>1, FilterIsNumber
    <2>3. SpecOf(g) = SpecOf(ref.filter) /\ ~g.seedFromFirst
      BY <2>1, KeepsSpec
    <2>4. ref' = [filter |-> g, effective |-> v]
      BY <1>3 DEF NextReference
    <2> HIDE DEF g, v
    <2>5. g \in FilterSet
      BY <2>2 DEF NumberFilter
    <2>6. ref' \in [filter : FilterSet, effective : Int] /\ ref'.filter = g
      BY <2>2, <2>4, <2>5
    <2>7. NumberFilter(ref'.filter) /\ ~ref'.filter.seedFromFirst
          /\ SpecOf(ref'.filter) = params'.SetpointFilter
      BY <1>3, <2>2, <2>3, <2>6 DEF Numbers
    <2>8. clock'.started = TRUE /\ clock'.last = at /\ at \in Int /\ integral' \in Int
      BY <1>3, <1>6 DEF Advanced, SmithAssumption
    <2>9. clock'.started \in BOOLEAN /\ clock'.last \in Int
          /\ (clock'.started => clock'.last \in Times)
      BY <2>8
    <2>10. params' \in ParamsSet /\ ValidParams(params')
           /\ (\E p \in Configs : ValidModel(p) /\ InForce(p)')
      BY <1>3 DEF Numbers, InForce
    <2> QED BY <2>6, <2>7, <2>8, <2>9, <2>10 DEF Numbers
  <1>11. IntegralWithin' /\ params'.Min <= terms'.Output /\ terms'.Output <= params'.Max
    BY <1>3, <1>6 DEF IntegralWithin
  <1> QED BY <1>7, <1>8, <1>9, <1>10, <1>11

(* A PATCH: the ring starts anew if it must be of another length, and stays  *)
(* otherwise.                                                                *)
LEMMA RetuneIInv ==
    ASSUME SmithAssumption, IInv, NEW p \in Configs, Retune(p)
    PROVE  IInv'
  <1>1. p \in ParamsSet
    BY DEF SmithAssumption, ParamsSet, ModelSet
  <1>2. /\ ValidParams(p) /\ params' = Normal(p) /\ ref' = Retuned(ref, p.SetpointFilter)
        /\ predictor' = RetunedPredictor(p) /\ integral' = 0
        /\ clock' = clock /\ terms' = terms /\ plant' = plant
        /\ matched' = (matched /\ p.Model = params.Model
                               /\ p.SampleSeconds = params.SampleSeconds)
    BY DEF Retune, SetParams
  <1>3. /\ params' \in ParamsSet /\ ValidParams(params') /\ params'.Model = p.Model
        /\ params'.SetpointFilter = Normalize(p.SetpointFilter)
        /\ DelaySamples(params') = DelaySamples(p)
    BY <1>1, <1>2, NormalInSet
  <1>4. Dead' = DelaySamples(p) /\ DelaySamples(p) \in Nat
    BY <1>1, <1>2, <1>3, DelayIsNat DEF Dead
  <1>5. Numbers'
    <2> DEFINE g == NewSignal(p.SetpointFilter, FALSE)
               s == Seed(g, ref.effective)
    <2>1. ref \in [filter : FilterSet, effective : Int] /\ NumberFilter(ref.filter)
          /\ ~ref.filter.seedFromFirst /\ NaN \notin Int /\ ref.effective \in Int
      BY DEF IInv, Numbers, SmithAssumption
    <2>2. p.SetpointFilter \in [kind : FilterKinds, size : Int]
      BY <1>1 DEF ParamsSet
    <2>3. NumberFilter(g) /\ SpecOf(g) = Normalize(p.SetpointFilter) /\ ~g.seedFromFirst
      BY <2>2, NewIsNumber, NewKeepsSpec DEF SmithAssumption
    <2> HIDE DEF g
    <2>4. NumberFilter(s) /\ SpecOf(s) = Normalize(p.SetpointFilter) /\ ~s.seedFromFirst
      BY <2>1, <2>3, SeedIsNumber, KeepsSpec
    <2> HIDE DEF s
    <2>5. /\ ref' \in [filter : FilterSet, effective : Int] /\ NumberFilter(ref'.filter)
          /\ SpecOf(ref'.filter) = Normalize(p.SetpointFilter) /\ ~ref'.filter.seedFromFirst
      <3>1. CASE Normalize(p.SetpointFilter) = SpecOf(ref.filter)
        <4>1. ref' = ref
          BY <1>2, <3>1 DEF Retuned
        <4> QED BY <2>1, <3>1, <4>1
      <3>2. CASE Normalize(p.SetpointFilter) # SpecOf(ref.filter)
        <4>1. ref' = [ref EXCEPT !.filter = s]
          BY <1>2, <3>2 DEF Retuned, s, g
        <4>2. s \in FilterSet
          BY <2>4 DEF NumberFilter
        <4>3. ref' \in [filter : FilterSet, effective : Int] /\ ref'.filter = s
          BY <2>1, <4>1, <4>2
        <4> QED BY <2>4, <4>3
      <3> QED BY <3>1, <3>2
    <2>6. ValidModel(p) /\ InForce(p)'
      BY <1>2, <1>3 DEF ValidParams, InForce, ParamsSet
    <2>7. \E q \in Configs : ValidModel(q) /\ InForce(q)'
      BY <2>6
    <2>8. clock'.started \in BOOLEAN /\ clock'.last \in Int
          /\ (clock'.started => clock'.last \in Times) /\ integral' \in Int
      BY <1>2 DEF IInv, Numbers
    <2> QED BY <1>3, <2>5, <2>7, <2>8 DEF Numbers
  <1>6. TermNumbers' /\ PlantOK'
    BY <1>2 DEF IInv, TermNumbers, PlantOK
  <1>7. PredictorOK' /\ (matched' => Follows')
    <2>1. CASE p.Model.Theta # params.Model.Theta \/ p.SampleSeconds # params.SampleSeconds
      <3>1. predictor' = NewPredictor(p)
        BY <1>2, <2>1 DEF RetunedPredictor
      <3>2. /\ predictor' \in PredictorSet /\ predictor'.model = p.Model
            /\ predictor'.delay \in [0 .. DelaySamples(p) - 1 -> Int] /\ predictor'.head = 0
        BY <1>1, <1>2, <3>1, NewPredictorOK
      <3>3. PredictorOK'
        BY <1>3, <1>4, <3>2 DEF PredictorOK
      <3>4. ~matched'
        BY <1>2, <2>1
      <3> QED BY <3>3, <3>4
    <2>2. CASE p.Model.Theta = params.Model.Theta /\ p.SampleSeconds = params.SampleSeconds
      <3>1. predictor' = [predictor EXCEPT !.model = p.Model]
        BY <1>2, <2>2 DEF RetunedPredictor
      <3>2. Dead' = Dead
        BY <1>4, <2>2 DEF Dead, DelaySamples
      <3>3. p.Model \in ModelSet /\ predictor \in PredictorSet
        BY <1>1 DEF ParamsSet, IInv, PredictorOK
      <3>4. /\ predictor' \in PredictorSet /\ predictor'.model = p.Model
            /\ predictor'.delay = predictor.delay /\ predictor'.head = predictor.head
            /\ predictor'.output = predictor.output /\ predictor'.held = predictor.held
        BY <3>1, <3>3 DEF PredictorSet
      <3>5. PredictorOK'
        BY <1>3, <3>2, <3>4 DEF PredictorOK, IInv
      <3>6. ASSUME matched'
            PROVE  Follows'
        <4>1. matched /\ p.Model = params.Model
          BY <1>2, <3>6
        <4>2. Follows /\ predictor.model = params.Model
          BY <4>1 DEF IInv, PredictorOK
        <4> QED BY <1>2, <3>2, <3>4, <4>1, <4>2 DEF Follows, Ahead
      <3> QED BY <3>5, <3>6
    <2> QED BY <2>1, <2>2
  <1>8. matched' \in BOOLEAN
    BY <1>2
  <1> QED BY <1>5, <1>6, <1>7, <1>8 DEF IInv

LEMMA ChangeSetpointIInv ==
    ASSUME SmithAssumption, IInv, NEW sp \in Setpoints, ChangeSetpoint(sp)
    PROVE  IInv'
  <1>1. /\ params' = [params EXCEPT !.Setpoint = sp]
        /\ ref' = ref /\ clock' = clock /\ integral' = integral /\ predictor' = predictor
        /\ terms' = terms /\ plant' = plant /\ matched' = matched
    BY DEF ChangeSetpoint, SetSetpoint
  <1>2. sp \in Int /\ params \in ParamsSet
    BY DEF SmithAssumption, IInv, Numbers
  <1>3. /\ params' \in ParamsSet /\ params'.SetpointFilter = params.SetpointFilter
        /\ params'.Model = params.Model /\ params'.SampleSeconds = params.SampleSeconds
        /\ params'.Min = params.Min /\ params'.Max = params.Max /\ params'.IClamp = params.IClamp
    BY <1>1, <1>2 DEF ParamsSet
  <1>4. Dead' = Dead
    BY <1>3 DEF Dead, DelaySamples
  <1>5. ValidParams(params')
    BY <1>3 DEF IInv, Numbers, ValidParams, ValidLimits, ValidModel
  <1>6. \E p \in Configs : ValidModel(p) /\ InForce(p)'
    <2>1. PICK p \in Configs : ValidModel(p) /\ InForce(p)
      BY DEF IInv, Numbers
    <2>2. Normal(p) \in ParamsSet
      BY NormalInSet DEF SmithAssumption, ParamsSet, ModelSet
    <2>3. InForce(p)'
      BY <1>1, <1>2, <2>1, <2>2 DEF InForce, ParamsSet
    <2> QED BY <2>1, <2>3
  <1>7. Numbers'
    BY <1>1, <1>3, <1>5, <1>6 DEF IInv, Numbers
  <1>8. TermNumbers' /\ PlantOK' /\ matched' \in BOOLEAN
    BY <1>1 DEF IInv, TermNumbers, PlantOK
  <1>9. PredictorOK' /\ (matched' => Follows')
    BY <1>1, <1>3, <1>4 DEF IInv, PredictorOK, Follows, Ahead
  <1> QED BY <1>7, <1>8, <1>9 DEF IInv

LEMMA RestartIInv ==
    ASSUME SmithAssumption, IInv, Restart
    PROVE  IInv'
  <1>1. /\ integral' = 0 /\ clock' = NewClock /\ ref' = ResetReference(ref)
        /\ predictor' = NewPredictor(params) /\ params' = params /\ terms' = terms
        /\ plant' = plant /\ matched' = FALSE
    BY DEF Restart, Reset
  <1>2. params \in ParamsSet /\ ValidParams(params)
    BY DEF IInv, Numbers
  <1>3. Dead' = Dead /\ Dead \in Nat
    BY <1>1, <1>2, DelayIsNat DEF Dead
  <1>4. /\ predictor' \in PredictorSet /\ predictor'.model = params.Model
        /\ predictor'.delay \in [0 .. Dead - 1 -> Int] /\ predictor'.head = 0
    BY <1>1, <1>2, NewPredictorOK DEF Dead
  <1>5. PredictorOK'
    BY <1>1, <1>3, <1>4 DEF PredictorOK
  <1>6. Numbers'
    <2> DEFINE g == ResetSignal(ref.filter)
    <2>1. NumberFilter(ref.filter) /\ ~ref.filter.seedFromFirst /\ NaN \notin Int /\ 0 \in Int
      BY DEF IInv, Numbers, SmithAssumption
    <2>2. NumberFilter(g) /\ SpecOf(g) = SpecOf(ref.filter) /\ ~g.seedFromFirst
      BY <2>1, ResetIsNumber, KeepsSpec
    <2>3. ref' = [filter |-> g, effective |-> 0]
      BY <1>1 DEF ResetReference
    <2> HIDE DEF g
    <2>4. g \in FilterSet
      BY <2>2 DEF NumberFilter
    <2>5. ref' \in [filter : FilterSet, effective : Int] /\ ref'.filter = g
      BY <2>3, <2>4
    <2>6. clock'.started = FALSE /\ clock'.last = 0
      BY <1>1 DEF NewClock
    <2>7. clock'.started \in BOOLEAN /\ (clock'.started => clock'.last \in Times)
      BY <2>6, Zenon
    <2>8. clock'.last \in Int /\ integral' \in Int
      BY <1>1, <2>6
    <2>9. \E p \in Configs : ValidModel(p) /\ InForce(p)'
      BY <1>1 DEF IInv, Numbers, InForce
    <2>10. SpecOf(ref'.filter) = params'.SetpointFilter
      BY <1>1, <2>2, <2>5 DEF IInv, Numbers
    <2> QED BY <1>1, <1>2, <2>2, <2>5, <2>7, <2>8, <2>9, <2>10 DEF Numbers
  <1>7. TermNumbers' /\ PlantOK'
    BY <1>1 DEF IInv, TermNumbers, PlantOK
  <1> QED BY <1>1, <1>5, <1>6, <1>7 DEF IInv

LEMMA NextIInv ==
    ASSUME SmithAssumption, IInv, [Next]_vars
    PROVE  IInv'
  <1>1. ASSUME NEW at \in Times, Sample(at)
        PROVE  IInv'
    <2>1. Numbers' /\ TermNumbers' /\ PredictorOK' /\ PlantOK'
      BY <1>1, SampleOK DEF IInv
    <2>2. matched' = matched
      BY <1>1 DEF Sample
    <2>3. matched => Follows'
      BY <1>1, FollowsSample DEF IInv
    <2> QED BY <2>1, <2>2, <2>3 DEF IInv
  <1>2. ASSUME NEW p \in Configs, Retune(p)
        PROVE  IInv'
    BY <1>2, RetuneIInv
  <1>3. ASSUME NEW sp \in Setpoints, ChangeSetpoint(sp)
        PROVE  IInv'
    BY <1>3, ChangeSetpointIInv
  <1>4. CASE Restart
    BY <1>4, RestartIInv
  <1>5. CASE UNCHANGED vars
    BY <1>5 DEF vars, smith, IInv, Numbers, TermNumbers, PredictorOK, PlantOK, Follows,
                InForce, Dead, Ahead
  <1> QED BY <1>1, <1>2, <1>3, <1>4, <1>5 DEF Next

-----------------------------------------------------------------------------
THEOREM Invariance == Spec => []IInv
  <1>1. Init => IInv
    BY InitIInv, SmithAssumption
  <1>2. IInv /\ [Next]_vars => IInv'
    BY NextIInv, SmithAssumption
  <1> QED BY <1>1, <1>2, PTL DEF Spec

(* For every dead time, target and gain: while the model is right, what the  *)
(* controller acts on is what the model says the target does now, whatever   *)
(* is still under way (smith.go:105-111, model.go:47-75).                    *)
THEOREM DeadTimeGone == Spec => []DeadTimeCancelled
  <1>1. IInv => DeadTimeCancelled
    BY DEF IInv, Follows, DeadTimeCancelled
  <1> QED BY <1>1, Invariance, PTL

(* The ring is as long as the dead time of the params in force, its head is  *)
(* within it, and all that the controller returns are numbers.               *)
THEOREM TypeCorrect == Spec => []TypeOK
  <1>1. IInv => TypeOK
    <2> SUFFICES ASSUME IInv
                 PROVE  TypeOK
      OBVIOUS
    <2>1. \E p \in Configs : params = [Normal(p) EXCEPT !.Setpoint = params.Setpoint]
      BY DEF IInv, Numbers, InForce
    <2>2. /\ ValidParams(params) /\ SpecOf(ref.filter) = params.SetpointFilter
          /\ clock.started \in BOOLEAN /\ clock.last \in Int /\ integral \in Int
          /\ matched \in BOOLEAN
      BY DEF IInv, Numbers
    <2>3. /\ predictor.model = params.Model
          /\ DOMAIN predictor.delay = 0 .. DelaySamples(params) - 1
          /\ predictor.head \in 0 .. DelaySamples(params)
      BY DEF IInv, PredictorOK, Dead
    <2>4. \A k \in DOMAIN NoTerms : terms[k] \in Int
      <3>1. DOMAIN NoTerms = {"I", "Output", "Feedback", "Prediction"}
        BY DEF NoTerms
      <3> QED BY <3>1 DEF IInv, TermNumbers
    <2> QED BY <2>1, <2>2, <2>3, <2>4 DEF TypeOK
  <1> QED BY <1>1, Invariance, PTL

-----------------------------------------------------------------------------
(* A change of the limits empties the integral, so that the new clamp holds. *)
LEMMA StepIntegral ==
    ASSUME SmithAssumption, IInv, IntegralWithin, [Next]_vars
    PROVE  IntegralWithin'
  <1>1. ASSUME NEW at \in Times, Sample(at)
        PROVE  IntegralWithin'
    BY <1>1, SampleOK DEF IInv
  <1>2. integral' = 0 => IntegralWithin'
    <2>1. params' \in ParamsSet /\ params'.IClamp >= 0
      BY NextIInv DEF IInv, Numbers, ValidParams, ValidLimits
    <2> QED BY <2>1 DEF IntegralWithin, ParamsSet
  <1>3. ASSUME NEW p \in Configs, Retune(p)
        PROVE  IntegralWithin'
    BY <1>2, <1>3 DEF Retune, SetParams
  <1>4. ASSUME NEW sp \in Setpoints, ChangeSetpoint(sp)
        PROVE  IntegralWithin'
    <2>1. params' = [params EXCEPT !.Setpoint = sp] /\ integral' = integral
      BY <1>4 DEF ChangeSetpoint, SetSetpoint
    <2>2. params'.IClamp = params.IClamp
      BY <2>1 DEF IInv, Numbers, ParamsSet
    <2> QED BY <2>1, <2>2 DEF IntegralWithin
  <1>5. CASE Restart
    BY <1>2, <1>5 DEF Restart, Reset
  <1>6. CASE UNCHANGED vars
    BY <1>6 DEF vars, smith, IntegralWithin
  <1> QED BY <1>1, <1>3, <1>4, <1>5, <1>6 DEF Next

(* For every limit and every change of them: the integral is never outside   *)
(* the clamp in force and no sample asks for a rate outside Min and Max.      *)
THEOREM WithinLimits == Spec => []IntegralWithin /\ [][OutputWithin]_vars
  <1>1. Init => IntegralWithin
    <2> SUFFICES ASSUME Init
                 PROVE  IntegralWithin
      OBVIOUS
    <2>1. params \in ParamsSet /\ params.IClamp >= 0
      BY InitIInv, SmithAssumption DEF IInv, Numbers, ValidParams, ValidLimits
    <2>2. integral = 0
      BY DEF Init, SmithInit
    <2> QED BY <2>1, <2>2 DEF IntegralWithin, ParamsSet
  <1>2. IInv /\ IntegralWithin /\ [Next]_vars => IntegralWithin'
    BY StepIntegral, SmithAssumption
  <1>3. IInv /\ [Next]_vars => [OutputWithin]_vars
    BY SampleOK, SmithAssumption DEF IInv, OutputWithin
  <1> QED BY <1>1, <1>2, <1>3, Invariance, PTL DEF Spec
=============================================================================
