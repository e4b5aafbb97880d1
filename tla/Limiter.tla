--------------------------------- MODULE Limiter ---------------------------------
(****************************************************************************)
(* golang.org/x/time/rate as the orchestrator uses it.  Time runs in ticks    *)
(* and is kept relative to now; a token is Token units, and a limit the units *)
(* that arrive in a tick.                                                     *)
(****************************************************************************)
EXTENDS Integers

CONSTANTS Burst,    \* the tokens that may be saved up
          Token,    \* units of one token
          Never     \* a delay longer than any other

AtMost(n, bound) == IF n <= bound THEN n ELSE bound

NewLimiter(limit) == [limit |-> limit, tokens |-> Burst * Token, lastEvent |-> 0]

(* The time in which a limit supplies so many units, rounded up.             *)
TimeFor(units, limit) == IF limit <= 0 THEN Never ELSE (units + limit - 1) \div limit

(* The units that a limit supplies in a time.                                *)
Supplied(limit, ticks) == IF limit <= 0 THEN 0 ELSE limit * ticks

Passed(l) == [l EXCEPT !.tokens = AtMost(@ + Supplied(l.limit, 1), Burst * Token),
                       !.lastEvent = @ - 1]

SetLimit(l, limit) == [l EXCEPT !.limit = limit]

(* Reserve: a token is taken, though it may have to be waited for.           *)
Wait(l)     == IF l.tokens >= Token THEN 0 ELSE TimeFor(Token - l.tokens, l.limit)
Reserved(l) == [l EXCEPT !.tokens = @ - Token, !.lastEvent = Wait(l)]

(* Cancel a reservation due at act, made under a limit: the token is given   *)
(* back but for what has been reserved after it.  The event before it is     *)
(* taken to be the time for a token earlier; where the limit is not above    *)
(* zero that time is InfDuration whatever the sign of the tokens, and the    *)
(* event comes to lie as far in the future.                                  *)
Restored(l, act, limit) == Token - Supplied(limit, l.lastEvent - act)
EventBefore(act, limit) == IF limit <= 0 THEN act + Never ELSE act - TimeFor(Token, limit)
Cancelled(l, act, limit) ==
    IF act < 0 \/ Restored(l, act, limit) <= 0 THEN l
    ELSE [l EXCEPT !.tokens = AtMost(@ + Restored(l, act, limit), Burst * Token),
                   !.lastEvent = IF act = @ /\ EventBefore(act, limit) >= 0
                                 THEN EventBefore(act, limit) ELSE @]
=============================================================================
