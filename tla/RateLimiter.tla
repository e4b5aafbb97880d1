------------------------------- MODULE RateLimiter -------------------------------
(****************************************************************************)
(* app/orchestrator/orchestrator.go: the workers wait for a token before each *)
(* message, while the control loop changes the drain rate.  Delivery models   *)
(* what they do with a token; here consuming a message is one state.          *)
(****************************************************************************)
EXTENDS Limiter, FiniteSets

CONSTANTS
    Workers,    \* the worker goroutines
    Teams,      \* the workers that Start starts, for each configured number
    Rates,      \* drain rates the control loop sets, units per tick
    Second,     \* idleWait in ticks
    MaxDebt,    \* bound: units the limiter may be short of, when a token is reserved
    MaxLate     \* bound: how many ticks a goroutine that could run is kept waiting

ASSUME LimiterAssumption ==
    /\ Burst \in Nat /\ Token \in Nat \ {0} /\ Second \in Nat \ {0} /\ MaxLate \in Nat
    /\ MaxDebt \in Nat
    /\ Rates \subseteq Int
    /\ IsFiniteSet(Workers) /\ Teams \subseteq SUBSET Workers
    /\ Never \in Nat /\ Never > Second + MaxLate

VARIABLES
    limiter,
    pc,           \* where each worker is
    due,          \* ticks until its timer fires, negative if it is late
    held,         \* its reservation
    cancelled,    \* the workers' context
    steady,       \* history: the rate is the one the program started with
    allowance,    \* history: units that may still be consumed if so; stays below zero
    paused,       \* history: messages each worker began since the rate was set to zero
    unsupplied    \* history: messages begun since the rate was set to less than zero
history == <<steady, allowance, paused, unsupplied>>
vars == <<limiter, pc, due, held, cancelled, history>>

Depth == (Burst + Cardinality(Workers)) * Token
NoReservation == [act |-> 0, limit |-> 0]
NonePaused == [w \in Workers |-> 0]

Init ==
    /\ \E r \in Rates : limiter = NewLimiter(r)
    /\ \E team \in Teams : pc = [w \in Workers |-> IF w \in team THEN "top" ELSE "stopped"]
    /\ due = [w \in Workers |-> 0]
    /\ held = [w \in Workers |-> NoReservation]
    /\ cancelled = FALSE
    /\ steady = TRUE
    /\ allowance = Depth
    /\ paused = NonePaused
    /\ unsupplied = 0

Goto(w, label, delay) ==
    /\ pc' = [pc EXCEPT ![w] = label]
    /\ due' = [due EXCEPT ![w] = delay]

(* A message is consumed for each token.                                     *)
Begin(w) == /\ Goto(w, "consuming", 0)
            /\ allowance' = IF steady /\ allowance >= 0 THEN allowance - Token ELSE allowance
            /\ paused' = IF limiter.limit = 0 THEN [paused EXCEPT ![w] = @ + 1] ELSE paused
            /\ unsupplied' = IF limiter.limit < 0 THEN unsupplied + 1 ELSE unsupplied
            /\ UNCHANGED steady

(* Mutant: a rate of zero is left to the limiter.                            *)
CheckNothing(w) ==
    /\ pc[w] = "top" /\ ~cancelled
    /\ Goto(w, "checked", 0)
    /\ UNCHANGED <<limiter, held, cancelled, history>>

(* Mutant: the loop does not look at its context.                            *)
CheckRateForever(w) ==
    /\ pc[w] = "top"
    /\ IF limiter.limit = 0 THEN Goto(w, "idle", Second) ELSE Goto(w, "checked", 0)
    /\ UNCHANGED <<limiter, held, cancelled, history>>

(* awaitToken: at rate zero the worker sleeps.                               *)
CheckRate(w) ==
    /\ pc[w] = "top" /\ ~cancelled
    /\ IF limiter.limit = 0 THEN Goto(w, "idle", Second) ELSE Goto(w, "checked", 0)
    /\ UNCHANGED <<limiter, held, cancelled, history>>

Reserve(w) ==
    /\ pc[w] = "checked"
    /\ limiter.tokens >= -MaxDebt
    /\ IF Burst < 1
       THEN Goto(w, "idle", Second) /\ UNCHANGED <<limiter, held>>
       ELSE /\ limiter' = Reserved(limiter)
            /\ held' = [held EXCEPT ![w] = [act |-> Wait(limiter), limit |-> limiter.limit]]
            /\ Goto(w, "reserved", 0)
    /\ UNCHANGED <<cancelled, history>>

(* Reservation.Delay.                                                        *)
Delay(w) == IF held[w].act > 0 THEN held[w].act ELSE 0

TooLong(w) == pc[w] = "reserved" /\ Delay(w) > Second
DecideToCancel(w) ==
    /\ TooLong(w) \/ (pc[w] = "reserved" /\ Delay(w) = 0 /\ cancelled)
    /\ Goto(w, "cancelling", 0)
    /\ UNCHANGED <<limiter, held, cancelled, history>>

DecideToWait(w) ==
    /\ pc[w] = "reserved" /\ ~TooLong(w) /\ Delay(w) > 0
    /\ Goto(w, "delaying", Delay(w))
    /\ UNCHANGED <<limiter, held, cancelled, history>>

(* Mutant: the token is used without the wait for it.                        *)
ConsumeAtOnce(w) ==
    /\ pc[w] = "reserved" /\ ~cancelled
    /\ Begin(w)
    /\ UNCHANGED <<limiter, held, cancelled>>

(* Mutant: a reservation is given back even when it has been waited for.     *)
ConsumeAndCancel(w) ==
    /\ \/ pc[w] = "reserved" /\ Delay(w) = 0 /\ ~cancelled
       \/ pc[w] = "delaying" /\ due[w] <= 0
    /\ Begin(w)
    /\ limiter' = Cancelled(limiter, held[w].act, held[w].limit)
    /\ UNCHANGED <<held, cancelled>>

(* A token that is there, or has been waited for.                            *)
ConsumeNow(w) ==
    /\ \/ pc[w] = "reserved" /\ Delay(w) = 0 /\ ~cancelled
       \/ pc[w] = "delaying" /\ due[w] <= 0
    /\ Begin(w)
    /\ UNCHANGED <<limiter, held, cancelled>>

Interrupt(w) ==
    /\ pc[w] = "delaying" /\ cancelled
    /\ Goto(w, "cancelling", 0)
    /\ UNCHANGED <<limiter, held, cancelled, history>>

(* Mutant: a reservation that is not waited for is kept.                     *)
ForgetReservation(w) ==
    /\ pc[w] = "cancelling"
    /\ Goto(w, "idle", Second)
    /\ UNCHANGED <<limiter, held, cancelled, history>>

CancelReservation(w) ==
    /\ pc[w] = "cancelling"
    /\ limiter' = Cancelled(limiter, held[w].act, held[w].limit)
    /\ Goto(w, "idle", Second)
    /\ UNCHANGED <<held, cancelled, history>>

(* worker: the end of a consume, or of a sleep that is over or interrupted.  *)
Return(w) ==
    /\ pc[w] = "consuming" \/ (pc[w] = "idle" /\ (due[w] <= 0 \/ cancelled))
    /\ Goto(w, "top", 0)
    /\ held' = [held EXCEPT ![w] = NoReservation]
    /\ UNCHANGED <<limiter, cancelled, history>>

Exit(w) == /\ pc[w] = "top" /\ cancelled
           /\ Goto(w, "stopped", 0)
           /\ UNCHANGED <<limiter, held, cancelled, history>>

Worker(w) == \/ CheckRate(w) \/ Reserve(w) \/ DecideToCancel(w) \/ DecideToWait(w)
             \/ ConsumeNow(w) \/ Interrupt(w) \/ CancelReservation(w) \/ Return(w) \/ Exit(w)

SetDrainRate(r) ==
    /\ limiter' = SetLimit(limiter, r)
    /\ steady' = FALSE /\ allowance' = 0
    /\ paused' = IF r = limiter.limit THEN paused ELSE NonePaused
    /\ unsupplied' = IF r = limiter.limit THEN unsupplied ELSE 0
    /\ UNCHANGED <<pc, due, held, cancelled>>

(* Stop cancels the workers' context.                                        *)
Stop == /\ ~cancelled
        /\ cancelled' = TRUE
        /\ UNCHANGED <<limiter, pc, due, held, history>>

(* A reservation still counts until it is used or cancelled.                 *)
Counts(w) == pc[w] \in {"reserved", "delaying", "cancelling"}

Ready(w) == pc[w] \notin {"consuming", "stopped"}

Tick ==
    /\ \A w \in Workers : Ready(w) => due[w] > -MaxLate
    /\ limiter' = IF \E w \in Workers : Counts(w) THEN Passed(limiter)
                  ELSE [Passed(limiter) EXCEPT !.lastEvent = 0]
    /\ due' = [w \in Workers |-> IF Ready(w) THEN due[w] - 1 ELSE 0]
    /\ held' = [w \in Workers |->
                  IF Counts(w) THEN [held[w] EXCEPT !.act = @ - 1] ELSE NoReservation]
    /\ allowance' = IF steady /\ allowance >= 0
                    THEN AtMost(allowance + Supplied(limiter.limit, 1), Depth) ELSE allowance
    /\ UNCHANGED <<pc, cancelled, steady, paused, unsupplied>>

Next == \/ \E w \in Workers : Worker(w)
        \/ \E r \in Rates : SetDrainRate(r)
        \/ Stop
        \/ Tick
Spec == Init /\ [][Next]_vars

(* Goroutines run, consuming a message ends, and time passes.                *)
FairSpec == Spec /\ WF_vars(Tick) /\ \A w \in Workers : WF_vars(Worker(w))

TypeOK ==
    /\ limiter.limit \in Rates
    /\ limiter.tokens \in Int /\ limiter.tokens <= Burst * Token
    /\ limiter.lastEvent \in Int
    /\ pc \in [Workers -> {"top", "checked", "reserved", "delaying", "cancelling", "consuming",
                           "idle", "stopped"}]
    /\ due \in [Workers -> -MaxLate .. Second]
    /\ held \in [Workers -> [act : Int, limit : Rates \cup {0}]]
    /\ cancelled \in BOOLEAN
    /\ steady \in BOOLEAN /\ allowance \in Int
    /\ paused \in [Workers -> Nat] /\ unsupplied \in Nat

(* README.md:75: the limiter gates how many messages can be consumed per     *)
(* second.  While the rate stands still there are in no interval more than   *)
(* it supplies, the burst, and one for each worker, however late goroutines  *)
(* run and however reservations and cancellations interleave.  The limiter   *)
(* rounds to ticks: a rate that takes no whole number of them for a token    *)
(* can give back a fraction of a unit more than was reserved.                *)
Exact(r) == r <= 0 \/ Token % r = 0
DrainBounded == steady /\ Exact(limiter.limit) => allowance >= 0

(* A drain rate of zero stops the draining: each worker that is past its     *)
(* look at the rate may consume once more, and no saved token is used.       *)
ZeroRatePauses == limiter.limit = 0 => \A w \in Workers : paused[w] <= 1

(* A negative rate, which a controller with a negative Min may set, is not   *)
(* looked out for: it ends the supply all the same.  What may still be       *)
(* consumed are the tokens saved up and those reserved; but a reservation    *)
(* from before, given back, may restore more than it took (the limiter       *)
(* measures it against the reservations made since, at a higher rate), up to *)
(* the whole burst and what the other workers' reservations are owed.        *)
Refill == Burst + Cardinality(Workers) - 1
NegativeRateEnds == limiter.limit < 0 => unsupplied <= Burst + Cardinality(Workers) * Refill

(* A single worker consumes for ever where the rate comes to stay above zero. *)
Alone == \E w \in Workers : \A v \in Workers : pc[v] # "stopped" <=> v = w
Drains == <>[](limiter.limit > 0 /\ ~cancelled /\ Alone) =>
              []<>(\E w \in Workers : pc[w] = "consuming")

(* A worker that waits, for a token or for the rate, ends when it is told.   *)
WorkersEnd == cancelled ~> \A w \in Workers : pc[w] = "stopped"
=============================================================================
