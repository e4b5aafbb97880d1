------------------------------ MODULE SignalFilter ------------------------------
(****************************************************************************)
(* One filter of pkg/control/filter and any order of calls to it.  The        *)
(* measurement filter of processmetrics is only ever given samples; the       *)
(* setpoint filter of a controller is also seeded and reset.                  *)
(****************************************************************************)
EXTENDS Signal, FiniteSets

CONSTANTS Specs,     \* the configured filters: kind and size
          Samples    \* what is filtered

ASSUME SignalAssumption ==
    /\ Specs \subseteq [kind : FilterKinds, size : Int]
    /\ Samples \subseteq Int \cup {NaN}
    /\ \A s \in Specs : Decay[Normalize(s).size] \in 0 .. 100
    /\ 0 \in Samples
    /\ NaN \notin Int

VARIABLES f,      \* the filter
          out,    \* what Filter returned last
          seen    \* history: the values since the last Reset or Seed
vars == <<f, out, seen>>

TypeOK ==
    /\ f.kind \in FilterKinds
    /\ f.size \in Nat \ {0}
    /\ f.seedFromFirst \in BOOLEAN
    /\ f.seeded \in BOOLEAN
    /\ f.state \in Int \cup {NaN}
    /\ f.sum \in Int \cup {NaN}
    /\ f.buf \in [0 .. f.size - 1 -> Samples]
    /\ f.idx \in 0 .. f.size - 1
    /\ f.n \in 0 .. f.size
    /\ out \in Int \cup {NaN}
    /\ seen \subseteq Samples

(* Where an unseeded reference starts from.                                  *)
Origin(g) == IF g.seedFromFirst THEN {} ELSE {0}

Init == /\ \E s \in Specs, b \in BOOLEAN : f = NewSignal(s, b)
        /\ out = 0
        /\ seen = Origin(f)

Filter(x) == /\ f' = Filtered(f, x)
             /\ out' = Output(f, x)
             /\ seen' = seen \cup {x}

SeedWith(v) == f' = Seed(f, v) /\ seen' = {v} /\ UNCHANGED out

Reset == f' = ResetSignal(f) /\ seen' = Origin(f) /\ UNCHANGED out

Next == Reset \/ \E x \in Samples : Filter(x) \/ SeedWith(x)
Spec == Init /\ [][Next]_vars

(* filter.go:62: whatever the kind and the calls before, a filter returns    *)
(* nothing outside the range of what it was given since it was last reset:   *)
(* it neither overshoots nor drags in a value from before.                   *)
NoOvershoot ==
    [][\A x \in Samples : Filter(x) =>
          \E lo, hi \in seen' : lo <= out' /\ out' <= hi]_vars

(* The ring buffer, read from its oldest sample, as the window that          *)
(* SlidingMean keeps; a filter that does not average only seeds its buffer.  *)
Window == [i \in 1 .. f.size |-> f.buf[(f.idx + i - 1) % f.size]]
SM == INSTANCE SlidingMean
          WITH last <- Window, Sizes <- {Normalize(s).size : s \in Specs},
               out <- IF f.kind = "moving_average" /\ f.size > 1 THEN out ELSE f.sum \div f.size

(* window.go:14-44: the running sum over the ring buffer returns the mean of *)
(* the last samples, after any calls (window_test.go,                        *)
(* TestWindowAveragesOverFullWindow).                                        *)
MeanOfLast == SM!Spec

(* window.go:20-26: a sample that has left the window no longer counts: once *)
(* the buffer holds numbers only, so does the sum that Filter returns.       *)
NaNForgotten == (\A i \in DOMAIN f.buf : f.buf[i] # NaN) => f.sum # NaN
=============================================================================
