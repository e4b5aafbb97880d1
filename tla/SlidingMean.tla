------------------------------ MODULE SlidingMean ------------------------------
(****************************************************************************)
(* What a moving average promises: the mean of the last samples, where a      *)
(* window that is not full yet holds zeros.  Nothing is said of how the       *)
(* samples are kept.                                                          *)
(****************************************************************************)
EXTENDS Integers, Sequences

CONSTANTS Sizes,     \* the lengths a window may have, at least one
          Samples    \* integers

VARIABLES last,   \* the last samples, the oldest first
          out     \* the last mean
vars == <<last, out>>

(* Sums(w)[i] is what the first i of w add up to.                            *)
Sums(w) == LET sum[i \in 0 .. Len(w)] == IF i = 0 THEN 0 ELSE sum[i - 1] + w[i]
           IN  sum

Mean(w) == Sums(w)[Len(w)] \div Len(w)

Init == \E n \in Sizes : last = [i \in 1 .. n |-> 0] /\ out = 0

Sample(x) == last' = Append(Tail(last), x) /\ out' = Mean(last')

(* Start over as if every sample had been v.                                 *)
Restart(v) == last' = [i \in DOMAIN last |-> v] /\ out' \in {out, v}

Next == \E x \in Samples : Sample(x) \/ Restart(x)
Spec == Init /\ [][Next]_vars
=============================================================================
