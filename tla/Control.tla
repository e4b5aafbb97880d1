--------------------------------- MODULE Control ---------------------------------
(****************************************************************************)
(* pkg/control/control.go: what the controllers share.  Limits and the        *)
(* integral, the clock of the samples, and the reference: the setpoint behind *)
(* its filter.  Numbers are integers and quotients are rounded down; the      *)
(* order of the operations is the code's.                                     *)
(****************************************************************************)
EXTENDS Signal

Larger(a, b)  == IF a >= b THEN a ELSE b
Smaller(a, b) == IF a <= b THEN a ELSE b

Clamp(v, lo, hi) == Larger(lo, Smaller(hi, v))

(* Limits.validate.                                                          *)
ValidLimits(p) == p.Min <= p.Max /\ p.IClamp >= 0

(* Mutant: the integral is kept within its own limits only.                  *)
IntegrateUnsaturated(p, integral, delta, other) == Clamp(integral + delta, -p.IClamp, p.IClamp)

(* Limits.integrate: the integral is kept where the output does not          *)
(* saturate, as far as its own limits allow.                                 *)
Integrate(p, integral, delta, other) ==
    LET lo == Larger(-p.IClamp, p.Min - other)
        hi == Smaller(p.IClamp, p.Max - other)
    IN IF lo > hi THEN Clamp(integral + delta, -p.IClamp, p.IClamp)
                  ELSE Clamp(integral + delta, lo, hi)

(* sampleClock.advance: a sample that is older than the last is refused; the *)
(* first one elapses no time.                                                *)
NewClock          == [started |-> FALSE, last |-> 0]
Outdated(c, at)   == c.started /\ at < c.last
Elapsed(c, at)    == IF c.started THEN at - c.last ELSE 0
Advanced(at)      == [started |-> TRUE, last |-> at]

(* reference.                                                                *)
NewReference(spec) == [filter |-> NewSignal(spec, FALSE), effective |-> 0]

NextReference(r, setpoint) ==
    [filter |-> Filtered(r.filter, setpoint), effective |-> Output(r.filter, setpoint)]

(* Mutant: the new filter starts from zero.                                  *)
RetunedUnseeded(r, spec) == [r EXCEPT !.filter = NewSignal(spec, FALSE)]

Retuned(r, spec) ==
    IF Normalize(spec) = SpecOf(r.filter) THEN r
    ELSE [r EXCEPT !.filter = Seed(NewSignal(spec, FALSE), r.effective)]

ResetReference(r) == [filter |-> ResetSignal(r.filter), effective |-> 0]
=============================================================================
