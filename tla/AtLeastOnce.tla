------------------------------ MODULE AtLeastOnce ------------------------------
(****************************************************************************)
(* What the README promises about message consumption: a message is acked    *)
(* only after the target confirmed it, and one that is not acked stays to be *)
(* delivered.  A message may be confirmed more than once.                    *)
(****************************************************************************)
CONSTANTS Messages

VARIABLES
    accepted,   \* messages the program created and a queue may hold
    confirmed,  \* messages the target confirmed
    settled     \* messages that will never be delivered again

vars == <<accepted, confirmed, settled>>

Init ==
    /\ accepted = {}
    /\ confirmed = {}
    /\ settled = {}

Accept(m) ==
    /\ accepted' = accepted \cup {m}
    /\ UNCHANGED <<confirmed, settled>>

Confirm(m) ==
    /\ m \in accepted
    /\ confirmed' = confirmed \cup {m}
    /\ UNCHANGED <<accepted, settled>>

Settle(S) ==
    /\ S \subseteq confirmed
    /\ settled' = settled \cup S
    /\ UNCHANGED <<accepted, confirmed>>

Next ==
    \/ \E m \in Messages : Accept(m) \/ Confirm(m)
    \/ \E S \in SUBSET Messages : Settle(S)

Spec == Init /\ [][Next]_vars
=============================================================================
