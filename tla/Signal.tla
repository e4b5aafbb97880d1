--------------------------------- MODULE Signal ---------------------------------
(****************************************************************************)
(* pkg/control/filter: a signal filter (filter.go) and the ring buffer of its *)
(* moving average (window.go).  Every method holds the filter's mutex from    *)
(* start to end, so an operation is an operator from one filter to the next.  *)
(* Samples are integers, or NaN: a reader parses samples with ParseFloat.     *)
(* Quotients are rounded down.                                                *)
(****************************************************************************)
EXTENDS Integers

CONSTANTS
    NaN,     \* not a number
    Decay    \* Decay[n]: e^(-1/n) in hundredths, the weight of the past of an
             \* exponential filter with a time constant of n samples

FilterKinds == {"none", "moving_average", "exponential"}

(* Spec.Normalize, for a known kind.                                         *)
Normalize(spec) == [spec EXCEPT !.size = IF @ < 1 THEN 1 ELSE @]

Plus(a, b)     == IF a = NaN \/ b = NaN THEN NaN ELSE a + b
Minus(a, b)    == IF a = NaN \/ b = NaN THEN NaN ELSE a - b
Quotient(a, n) == IF a = NaN THEN NaN ELSE a \div n
Product(a, n)  == IF a = NaN THEN NaN ELSE a * n

(* Signal.smooth.                                                            *)
Smooth(f, x) ==
    Quotient(Plus(Product(f.state, Decay[f.size]), Product(x, 100 - Decay[f.size])), 100)

(* newSignal.  A reference starts from zero, a measurement from its first    *)
(* sample.                                                                   *)
NewSignal(spec, seedFromFirst) ==
    [kind |-> Normalize(spec).kind, size |-> Normalize(spec).size,
     seedFromFirst |-> seedFromFirst, seeded |-> FALSE, state |-> 0,
     buf |-> [i \in 0 .. Normalize(spec).size - 1 |-> 0], idx |-> 0, n |-> 0, sum |-> 0]

SpecOf(f) == [kind |-> f.kind, size |-> f.size]

(* Mutant: the oldest sample stays in the sum.                               *)
PushKeepingOldest(f, x) ==
    [f EXCEPT !.n = IF @ = f.size THEN @ ELSE @ + 1, !.sum = Plus(@, x),
              !.buf[f.idx] = x, !.idx = (@ + 1) % f.size]

(* window.push, where the window is longer than one sample.                  *)
Push(f, x) ==
    [f EXCEPT !.n   = IF @ = f.size THEN @ ELSE @ + 1,
              !.sum = Plus(IF f.n = f.size THEN Minus(@, f.buf[f.idx]) ELSE @, x),
              !.buf[f.idx] = x,
              !.idx = (@ + 1) % f.size]

(* Seed, with window.fill.                                                   *)
Seed(f, v) ==
    [f EXCEPT !.state = v, !.seeded = TRUE, !.n = f.size, !.sum = Product(v, f.size),
              !.idx = 0, !.buf = [i \in DOMAIN @ |-> v]]

(* Mutant: the samples stay in the window.                                   *)
ResetKeepingSamples(f) == [f EXCEPT !.state = 0, !.seeded = FALSE, !.idx = 0, !.sum = 0]

(* Reset, with window.reset.                                                 *)
ResetSignal(f) ==
    [f EXCEPT !.state = 0, !.seeded = FALSE, !.idx = 0, !.n = 0, !.sum = 0,
              !.buf = [i \in DOMAIN @ |-> 0]]

(* Signal.Filter: the filter afterwards, and what it returns for x.          *)
Seeding(f)   == f.kind # "none" /\ f.seedFromFirst /\ ~f.seeded
Averaging(f) == f.kind = "moving_average" /\ f.size > 1 /\ ~Seeding(f)
Smoothing(f) == f.kind = "exponential" /\ ~Seeding(f)

Filtered(f, x) ==
    CASE Seeding(f)   -> Seed(f, x)
      [] Averaging(f) -> Push(f, x)
      [] Smoothing(f) -> [f EXCEPT !.state = Smooth(f, x), !.seeded = TRUE]
      [] OTHER        -> f

Output(f, x) ==
    CASE Averaging(f) -> Quotient(Push(f, x).sum, f.size)
      [] Smoothing(f) -> Smooth(f, x)
      [] OTHER        -> x
=============================================================================
