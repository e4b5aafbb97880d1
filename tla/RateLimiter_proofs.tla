--------------------------- MODULE RateLimiter_proofs ---------------------------
(****************************************************************************)
(* Proofs about RateLimiter, for any workers, rates and burst.               *)
(****************************************************************************)
EXTENDS RateLimiter, FiniteSetTheorems, TLAPS

(* The limiter is a record of its three fields.                              *)
Record(a, b, c) == [limit |-> a, tokens |-> b, lastEvent |-> c]
IsLimiter(l) == \E a, b, c : l = Record(a, b, c)
Keeps(k, l) == IsLimiter(k) /\ k.limit = l.limit

(* Past its look at the rate, a worker may begin a message.                  *)
Past(w) == pc[w] \in {"checked", "reserved", "delaying"}

(* While the rate is not zero nothing is counted; while it is, a worker that *)
(* has begun its message does not get past the look at the rate again.       *)
PauseInv ==
    /\ IsLimiter(limiter)
    /\ pc = [w \in Workers |-> pc[w]]
    /\ paused \in [Workers -> Nat]
    /\ limiter.limit # 0 => paused = NonePaused
    /\ \A w \in Workers : paused[w] = 0 \/ (paused[w] = 1 /\ ~Past(w))

(* Whatever the limiter does with tokens, its limit is left alone.           *)
LEMMA EventKept ==
    ASSUME NEW l, IsLimiter(l), NEW e
    PROVE  Keeps([l EXCEPT !.lastEvent = e], l)
<1>1. PICK a, b, c : l = Record(a, b, c)
  BY DEF IsLimiter
<1>2. [Record(a, b, c) EXCEPT !.lastEvent = e] = Record(a, b, e)
  BY SMT DEF Record
<1>3. Record(a, b, e).limit = a /\ Record(a, b, c).limit = a
  BY DEF Record
<1> QED
  BY <1>1, <1>2, <1>3, Zenon DEF IsLimiter, Keeps

LEMMA TokensKept ==
    ASSUME NEW l, IsLimiter(l), NEW t, NEW e
    PROVE  Keeps([l EXCEPT !.tokens = t, !.lastEvent = e], l)
<1>1. PICK a, b, c : l = Record(a, b, c)
  BY DEF IsLimiter
<1>2. [Record(a, b, c) EXCEPT !.tokens = t] = Record(a, t, c)
  BY SMT DEF Record
<1>3. [Record(a, t, c) EXCEPT !.lastEvent = e] = Record(a, t, e)
  BY SMT DEF Record
<1>4. [Record(a, b, c) EXCEPT !.tokens = t, !.lastEvent = e] = Record(a, t, e)
  BY <1>2, <1>3, Zenon
<1>5. Record(a, t, e).limit = a /\ Record(a, b, c).limit = a
  BY DEF Record
<1> QED
  BY <1>1, <1>4, <1>5, Zenon DEF IsLimiter, Keeps

LEMMA PassedKept ==
    ASSUME NEW l, IsLimiter(l)
    PROVE  Keeps(Passed(l), l) /\ Keeps([Passed(l) EXCEPT !.lastEvent = 0], l)
<1>1. Keeps(Passed(l), l)
  BY TokensKept, Zenon DEF Passed
<1> QED
  BY <1>1, EventKept, Zenon DEF Keeps

LEMMA ReservedKept ==
    ASSUME NEW l, IsLimiter(l)
    PROVE  Keeps(Reserved(l), l)
BY TokensKept, Zenon DEF Reserved

LEMMA CancelledKept ==
    ASSUME NEW l, IsLimiter(l), NEW act, NEW limit
    PROVE  Keeps(Cancelled(l, act, limit), l)
<1>1. CASE act < 0 \/ Restored(l, act, limit) <= 0
  BY <1>1, Zenon DEF Cancelled, Keeps
<1>2. CASE ~(act < 0 \/ Restored(l, act, limit) <= 0)
  <2> DEFINE t == AtMost(l.tokens + Restored(l, act, limit), Burst * Token)
             e == IF act = l.lastEvent /\ EventBefore(act, limit) >= 0
                  THEN EventBefore(act, limit) ELSE l.lastEvent
  <2>1. Cancelled(l, act, limit) = [l EXCEPT !.tokens = t, !.lastEvent = e]
    BY <1>2, Zenon DEF Cancelled
  <2>2. \A x, y : Keeps([l EXCEPT !.tokens = x, !.lastEvent = y], l)
    BY TokensKept, Zenon
  <2> HIDE DEF t, e
  <2>3. Keeps([l EXCEPT !.tokens = t, !.lastEvent = e], l)
    BY <2>2, Zenon
  <2> QED
    BY <2>1, <2>3, Zenon
<1> QED
  BY <1>1, <1>2, Zenon

LEMMA PauseInvInit == Init => PauseInv
<1> SUFFICES ASSUME Init PROVE PauseInv
  OBVIOUS
<1>1. PICK r \in Rates : limiter = NewLimiter(r)
  BY DEF Init
<1>2. IsLimiter(limiter)
  BY <1>1 DEF NewLimiter, IsLimiter, Record
<1>3. pc = [w \in Workers |-> pc[w]]
  BY DEF Init
<1>4. paused = NonePaused /\ NonePaused \in [Workers -> Nat]
  BY DEF Init, NonePaused
<1> QED
  BY <1>2, <1>3, <1>4 DEF PauseInv, NonePaused

(* A step that counts nothing and takes no worker past its look at the rate. *)
LEMMA QuietStep ==
    ASSUME PauseInv, NEW w \in Workers, NEW label,
           pc' = [pc EXCEPT ![w] = label],
           label \in {"checked", "reserved", "delaying"} => Past(w) \/ limiter.limit # 0,
           paused' = paused,
           IsLimiter(limiter'), limiter'.limit = limiter.limit
    PROVE  PauseInv'
<1>1. pc' = [v \in Workers |-> pc'[v]]
  BY DEF PauseInv
<1>2. limiter.limit # 0 => paused[w] = 0
  BY DEF PauseInv, NonePaused
<1>3. ASSUME NEW v \in Workers PROVE paused'[v] = 0 \/ (paused'[v] = 1 /\ ~Past(v)')
  BY <1>2 DEF PauseInv, Past
<1>4. paused' \in [Workers -> Nat] /\ (limiter'.limit # 0 => paused' = NonePaused)
  BY DEF PauseInv
<1> QED
  BY <1>1, <1>3, <1>4 DEF PauseInv, NonePaused

LEMMA PauseInvStep == PauseInv /\ [Next]_vars => PauseInv'
<1> SUFFICES ASSUME PauseInv, [Next]_vars PROVE PauseInv'
  OBVIOUS
<1>0. IsLimiter(limiter)
  BY DEF PauseInv
<1>1. ASSUME NEW w \in Workers, CheckRate(w) PROVE PauseInv'
  BY <1>1, <1>0, QuietStep DEF CheckRate, Goto, history
<1>2. ASSUME NEW w \in Workers, Reserve(w) PROVE PauseInv'
  <2>1. Keeps(limiter', limiter)
    BY <1>2, <1>0, ReservedKept, Zenon DEF Reserve, Keeps
  <2>2. Past(w) /\ paused' = paused
    BY <1>2 DEF Reserve, Past, history
  <2>3. \E label : pc' = [pc EXCEPT ![w] = label]
    BY <1>2 DEF Reserve, Goto
  <2> QED
    BY <2>1, <2>2, <2>3, QuietStep DEF Keeps
<1>3. ASSUME NEW w \in Workers, DecideToCancel(w) \/ Interrupt(w) PROVE PauseInv'
  BY <1>3, <1>0, QuietStep DEF DecideToCancel, Interrupt, Goto, history
<1>4. ASSUME NEW w \in Workers, DecideToWait(w) PROVE PauseInv'
  BY <1>4, <1>0, QuietStep DEF DecideToWait, Goto, history, Past
<1>5. ASSUME NEW w \in Workers, ConsumeNow(w) PROVE PauseInv'
  <2>1. /\ Past(w) /\ pc' = [pc EXCEPT ![w] = "consuming"]
        /\ limiter' = limiter
        /\ paused' = IF limiter.limit = 0 THEN [paused EXCEPT ![w] = @ + 1] ELSE paused
    BY <1>5 DEF ConsumeNow, Begin, Goto, Past
  <2>2. paused[w] = 0
    BY <2>1 DEF PauseInv
  <2>3. ASSUME NEW v \in Workers PROVE paused'[v] = 0 \/ (paused'[v] = 1 /\ ~Past(v)')
    BY <2>1, <2>2 DEF PauseInv, Past
  <2>4. paused' \in [Workers -> Nat] /\ (limiter.limit # 0 => paused' = paused)
    BY <2>1 DEF PauseInv
  <2>5. pc' = [v \in Workers |-> pc'[v]]
    BY <2>1 DEF PauseInv
  <2> QED
    BY <1>0, <2>1, <2>3, <2>4, <2>5 DEF PauseInv, NonePaused
<1>6. ASSUME NEW w \in Workers, CancelReservation(w) PROVE PauseInv'
  <2>1. Keeps(limiter', limiter)
    BY <1>6, <1>0, CancelledKept, Zenon DEF CancelReservation
  <2>2. pc' = [pc EXCEPT ![w] = "idle"] /\ paused' = paused
    BY <1>6, Zenon DEF CancelReservation, Goto, history
  <2> QED
    BY <2>1, <2>2, QuietStep DEF Keeps
<1>7. ASSUME NEW w \in Workers, Return(w) \/ Exit(w) PROVE PauseInv'
  BY <1>7, <1>0, QuietStep DEF Return, Exit, Goto, history
<1>8. ASSUME NEW r \in Rates, SetDrainRate(r) PROVE PauseInv'
  <2>1. IsLimiter(limiter') /\ limiter'.limit = r
    <3>1. PICK a, b, c : limiter = Record(a, b, c)
      BY <1>0 DEF IsLimiter
    <3>2. [Record(a, b, c) EXCEPT !.limit = r] = Record(r, b, c) /\ Record(r, b, c).limit = r
      BY SMT DEF Record
    <3>3. limiter' = [limiter EXCEPT !.limit = r]
      BY <1>8, Zenon DEF SetDrainRate, SetLimit
    <3> QED
      BY <3>1, <3>2, <3>3, Zenon DEF IsLimiter
  <2>2. /\ pc' = pc
        /\ paused' = IF r = limiter.limit THEN paused ELSE NonePaused
    BY <1>8 DEF SetDrainRate
  <2>3. CASE r = limiter.limit
    BY <2>1, <2>2, <2>3 DEF PauseInv, NonePaused, Past
  <2>4. CASE r # limiter.limit
    BY <2>1, <2>2, <2>4 DEF PauseInv, NonePaused
  <2> QED
    BY <2>3, <2>4
<1>9. CASE Tick
  <2>1. Keeps(limiter', limiter)
    BY <1>9, <1>0, PassedKept, Zenon DEF Tick
  <2>2. pc' = pc /\ paused' = paused
    BY <1>9, Zenon DEF Tick
  <2> QED
    BY <2>1, <2>2 DEF Keeps, PauseInv, NonePaused, Past
<1>10. CASE Stop \/ UNCHANGED vars
  BY <1>10 DEF Stop, vars, history, PauseInv, NonePaused, Past
<1> QED
  BY <1>1, <1>2, <1>3, <1>4, <1>5, <1>6, <1>7, <1>8, <1>9, <1>10 DEF Next, Worker

(* While the drain rate is zero each worker consumes once more at most, for  *)
(* any number of workers, any rates before and after, any burst, and however *)
(* late the goroutines run.                                                  *)
THEOREM ZeroRateStops == Spec => []ZeroRatePauses
<1>1. PauseInv => ZeroRatePauses
  BY DEF PauseInv, ZeroRatePauses
<1> QED
  BY PauseInvInit, PauseInvStep, <1>1, PTL DEF Spec

-----------------------------------------------------------------------------
(* What the limiter's operators do with its numbers.                         *)
Numeric(l) == l \in [limit : Int, tokens : Int, lastEvent : Int]

USE LimiterAssumption

LEMMA TimeForInt ==
    ASSUME NEW units \in Int, NEW limit \in Int
    PROVE  TimeFor(units, limit) \in Int
<1>1. CASE limit <= 0
  BY <1>1 DEF TimeFor
<1>2. CASE limit > 0
  BY <1>2 DEF TimeFor
<1> QED
  BY <1>1, <1>2

LEMMA WaitInt ==
    ASSUME NEW l, Numeric(l)
    PROVE  /\ Wait(l) \in Int
           /\ l.tokens >= Token => Wait(l) = 0
           /\ l.tokens < Token /\ l.limit <= 0 => Wait(l) = Never
<1>1. l.tokens \in Int /\ l.limit \in Int
  BY DEF Numeric
<1>2. Token - l.tokens \in Int
  BY <1>1
<1>4. TimeFor(Token - l.tokens, l.limit) \in Int
  BY <1>1, <1>2, TimeForInt, Zenon
<1>3. l.limit <= 0 => TimeFor(Token - l.tokens, l.limit) = Never
  BY DEF TimeFor
<1> QED
  BY <1>1, <1>3, <1>4 DEF Wait

(* The limiter with other tokens and another last event.                     *)
With(l, t, e) == [l EXCEPT !.tokens = t, !.lastEvent = e]

LEMMA Updated ==
    ASSUME NEW l, Numeric(l), NEW t \in Int, NEW e \in Int
    PROVE  Numeric(With(l, t, e)) /\ With(l, t, e).limit = l.limit /\ With(l, t, e).tokens = t
<1>1. PICK a, b, c \in Int : l = Record(a, b, c)
  BY DEF Numeric, Record
<1>2. [Record(a, b, c) EXCEPT !.tokens = t] = Record(a, t, c)
  BY SMT DEF Record
<1>3. [Record(a, t, c) EXCEPT !.lastEvent = e] = Record(a, t, e)
  BY SMT DEF Record
<1>4. With(l, t, e) = Record(a, t, e)
  BY <1>1, <1>2, <1>3, Zenon DEF With
<1>5. /\ Numeric(Record(a, t, e)) /\ Record(a, t, e).limit = a /\ Record(a, t, e).tokens = t
      /\ Record(a, b, c).limit = a
  BY DEF Record, Numeric
<1> QED
  BY <1>1, <1>4, <1>5, Zenon

LEMMA ReservedNumeric ==
    ASSUME NEW l, Numeric(l)
    PROVE  /\ Numeric(Reserved(l)) /\ Reserved(l).limit = l.limit
           /\ Reserved(l).tokens = l.tokens - Token
<1>1. l.tokens - Token \in Int
  BY DEF Numeric
<1>2. Reserved(l) = With(l, l.tokens - Token, Wait(l))
  BY Zenon DEF Reserved, With
<1> QED
  BY <1>1, <1>2, WaitInt, Updated

LEMMA PassedNumeric ==
    ASSUME NEW l, Numeric(l), l.tokens <= Burst * Token
    PROVE  /\ Numeric(Passed(l)) /\ Numeric([Passed(l) EXCEPT !.lastEvent = 0])
           /\ Passed(l).limit = l.limit /\ [Passed(l) EXCEPT !.lastEvent = 0].limit = l.limit
           /\ [Passed(l) EXCEPT !.lastEvent = 0].tokens = Passed(l).tokens
           /\ Passed(l).tokens <= Burst * Token
           /\ l.limit <= 0 => Passed(l).tokens = l.tokens
<1> DEFINE cap == Burst * Token
           t == AtMost(l.tokens + Supplied(l.limit, 1), cap)
<1>1. l.tokens \in Int /\ l.limit \in Int /\ l.lastEvent \in Int /\ cap \in Int
  BY DEF Numeric
<1>2. Supplied(l.limit, 1) \in Int /\ (l.limit <= 0 => Supplied(l.limit, 1) = 0)
  BY <1>1 DEF Supplied
<1>3. t \in Int /\ t <= cap /\ (l.limit <= 0 => t = l.tokens)
  <2> HIDE DEF cap
  <2> QED
    BY <1>1, <1>2 DEF AtMost, cap
<1>4. Passed(l) = With(l, t, l.lastEvent - 1)
  BY Zenon DEF Passed, With
<1> HIDE DEF t, cap
<1>5. Numeric(Passed(l)) /\ Passed(l).limit = l.limit /\ Passed(l).tokens = t
  <2>1. l.lastEvent - 1 \in Int
    BY <1>1
  <2> QED
    BY <1>3, <1>4, <2>1, Updated
<1>6. cap = Burst * Token
  BY DEF cap
<1>7. /\ Numeric([Passed(l) EXCEPT !.lastEvent = 0])
      /\ [Passed(l) EXCEPT !.lastEvent = 0].limit = Passed(l).limit
      /\ [Passed(l) EXCEPT !.lastEvent = 0].tokens = Passed(l).tokens
  BY <1>5 DEF Numeric
<1> QED
  BY <1>3, <1>5, <1>6, <1>7

(* A cancelled reservation never fills the limiter beyond its burst, and one *)
(* made without a supply gives back what it took.                            *)
LEMMA CancelledNumeric ==
    ASSUME NEW l, Numeric(l), NEW act \in Int, NEW limit \in Int
    PROVE  /\ Numeric(Cancelled(l, act, limit)) /\ Cancelled(l, act, limit).limit = l.limit
           /\ \/ Cancelled(l, act, limit).tokens = l.tokens
              \/ Cancelled(l, act, limit).tokens <= Burst * Token
           /\ limit <= 0 => Cancelled(l, act, limit).tokens <= l.tokens + Token
<1> DEFINE cap == Burst * Token
           r == Restored(l, act, limit)
           t == AtMost(l.tokens + r, cap)
           e == IF act = l.lastEvent /\ EventBefore(act, limit) >= 0
                THEN EventBefore(act, limit) ELSE l.lastEvent
<1>1. /\ l.tokens \in Int /\ l.limit \in Int /\ l.lastEvent \in Int /\ cap \in Int
  BY DEF Numeric
<1>2. r \in Int /\ (limit <= 0 => r = Token)
  BY <1>1 DEF Restored, Supplied
<1>3. e \in Int
  BY <1>1, TimeForInt DEF EventBefore
<1>4. t \in Int /\ t <= cap /\ (limit <= 0 => t <= l.tokens + Token)
  <2> HIDE DEF cap, r
  <2> QED
    BY <1>1, <1>2 DEF AtMost
<1>5. Cancelled(l, act, limit) = l \/ Cancelled(l, act, limit) = With(l, t, e)
  BY Zenon DEF Cancelled, With
<1>6. cap = Burst * Token
  BY DEF cap
<1> HIDE DEF cap, r, t, e
<1>7. CASE Cancelled(l, act, limit) = l
  BY <1>1, <1>7
<1>8. CASE Cancelled(l, act, limit) = With(l, t, e)
  <2>1. /\ Numeric(Cancelled(l, act, limit))
        /\ Cancelled(l, act, limit).limit = l.limit /\ Cancelled(l, act, limit).tokens = t
    BY <1>3, <1>4, <1>8, Updated
  <2> QED
    BY <1>4, <1>6, <2>1 DEF Numeric
<1> QED
  BY <1>5, <1>7, <1>8

-----------------------------------------------------------------------------
(* What may still be consumed at a negative rate: a message for each         *)
(* reservation that is about to be used, one for each token that is there or *)
(* will be given back, and a refill for each reservation from before.        *)
Top(x) == IF x > 0 THEN x ELSE 0

Credit(begun, tokens, usable, owed, before) ==
    (begun + usable) * Token + Top(tokens + owed * Token) + before * (Refill * Token)

LEMMA Products ==
    /\ Cardinality(Workers) \in Nat /\ Refill \in Int
    /\ Token \in Nat /\ Refill * Token \in Int /\ Burst * Token \in Int
    /\ \A n, m \in Int : n * m \in Int /\ (n + 1) * m = n * m + m /\ (n - 1) * m = n * m - m
<1>1. Cardinality(Workers) \in Nat
  BY FS_CardinalityType
<1>2. Refill \in Int
  BY <1>1 DEF Refill
<1> QED
  BY <1>1, <1>2

LEMMA Spending ==
    ASSUME NEW u \in Nat, NEW t \in Int, NEW g \in Nat, NEW b \in Nat, NEW p \in Nat
    PROVE  /\ t >= Token => Credit(u, t - Token, g + 1, b, p) <= Credit(u, t, g, b, p)
           /\ Credit(u, t - Token, g, b + 1, p) <= Credit(u, t, g, b, p)
           /\ Credit(u, t, g - 1, b + 1, p) <= Credit(u, t, g, b, p)
           /\ Credit(u + 1, t, g - 1, b, p) <= Credit(u, t, g, b, p)
<1> DEFINE uT == (u + g) * Token
           bT == b * Token
           pK == p * (Refill * Token)
<1>1. /\ uT \in Int /\ bT \in Int /\ bT >= 0 /\ pK \in Int
      /\ (u + (g + 1)) * Token = uT + Token
      /\ (u + (g - 1)) * Token = uT - Token
      /\ ((u + 1) + (g - 1)) * Token = uT
      /\ (b + 1) * Token = bT + Token
  <2>1. u + (g + 1) = (u + g) + 1 /\ u + (g - 1) = (u + g) - 1 /\ (u + 1) + (g - 1) = u + g
    OBVIOUS
  <2>2. u + g \in Int /\ b \in Int /\ p \in Int
    OBVIOUS
  <2>3. bT >= 0
    BY Products
  <2> QED
    BY <2>1, <2>2, <2>3, Products
<1>2. Token \in Nat /\ Credit(u, t, g, b, p) = uT + Top(t + bT) + pK
  BY DEF Credit
<1>3. /\ Credit(u, t - Token, g + 1, b, p) = uT + Token + Top(t - Token + bT) + pK
      /\ Credit(u, t - Token, g, b + 1, p) = uT + Top(t - Token + (bT + Token)) + pK
      /\ Credit(u, t, g - 1, b + 1, p) = uT - Token + Top(t + (bT + Token)) + pK
      /\ Credit(u + 1, t, g - 1, b, p) = uT + Top(t + bT) + pK
  BY <1>1, Zenon DEF Credit
<1> HIDE DEF uT, bT, pK
<1> QED
  BY <1>1, <1>2, <1>3 DEF Top

LEMMA GivingBack ==
    ASSUME NEW u \in Nat, NEW t \in Int, NEW g \in Nat, NEW b \in Nat, NEW p \in Nat,
           NEW r \in Int
    PROVE  /\ r <= t + Token => Credit(u, r, g, b - 1, p) <= Credit(u, t, g, b, p)
           /\ r <= Burst * Token /\ b <= Cardinality(Workers) - 1 =>
                Credit(u, r, g, b, p - 1) <= Credit(u, t, g, b, p)
           /\ Refill >= 1 => Credit(u + 1, t, g, b, p - 1) <= Credit(u, t, g, b, p)
           /\ Refill >= 1 => Credit(u, t, g, b, p - 1) <= Credit(u, t, g, b, p)
<1> DEFINE uT == (u + g) * Token
           bT == b * Token
           K  == Refill * Token
           pK == p * K
           cap == Burst * Token
           W  == Cardinality(Workers)
<1>1. /\ uT \in Int /\ bT \in Int /\ bT >= 0 /\ pK \in Int /\ K \in Int /\ cap \in Int
      /\ ((u + 1) + g) * Token = uT + Token
      /\ (b - 1) * Token = bT - Token
      /\ (p - 1) * K = pK - K
  <2>1. (u + 1) + g = (u + g) + 1
    OBVIOUS
  <2>2. u + g \in Int /\ b \in Int /\ p \in Int
    OBVIOUS
  <2>3. bT >= 0
    BY Products
  <2> QED
    BY <2>1, <2>2, <2>3, Products
<1>2. Refill >= 1 => K >= Token
  BY Products
<1>3. b <= W - 1 => cap + bT <= K
  <2>1. SUFFICES ASSUME b <= W - 1 PROVE cap + bT <= K
    OBVIOUS
  <2>2. Burst + b <= Refill
    BY <2>1, Products DEF Refill
  <2>3. (Burst + b) * Token = cap + bT
    OBVIOUS
  <2>4. (Burst + b) * Token <= Refill * Token
    BY <2>2, Products
  <2> QED
    BY <2>3, <2>4
<1>4. Token \in Nat /\ Credit(u, t, g, b, p) = uT + Top(t + bT) + pK
  BY DEF Credit
<1>5. /\ Credit(u, r, g, b - 1, p) = uT + Top(r + (bT - Token)) + pK
      /\ Credit(u, r, g, b, p - 1) = uT + Top(r + bT) + (pK - K)
      /\ Credit(u + 1, t, g, b, p - 1) = uT + Token + Top(t + bT) + (pK - K)
      /\ Credit(u, t, g, b, p - 1) = uT + Top(t + bT) + (pK - K)
  BY <1>1, Zenon DEF Credit
<1>6. cap = Burst * Token /\ W = Cardinality(Workers)
  OBVIOUS
<1> HIDE DEF uT, bT, pK, K, cap, W
<1> QED
  BY <1>1, <1>2, <1>3, <1>4, <1>5, <1>6 DEF Top

LEMMA Fresh ==
    ASSUME NEW t \in Int, NEW g \in Nat, NEW b \in Nat, NEW p \in Nat,
           t <= Burst * Token,
           (g + b) + p <= Cardinality(Workers),
           Refill >= 1 \/ (g + b) + p = 0
    PROVE  Credit(0, t, g, b, p) <= Burst * Token + Cardinality(Workers) * (Refill * Token)
<1> DEFINE gT == g * Token
           bT == b * Token
           K  == Refill * Token
           pK == p * K
           cap == Burst * Token
           W  == Cardinality(Workers)
           WK == W * K
<1>1. /\ gT \in Int /\ bT \in Int /\ bT >= 0 /\ gT >= 0 /\ pK \in Int /\ K \in Int /\ cap \in Int
      /\ cap >= 0 /\ WK \in Int
  BY Products
<1>2. Credit(0, t, g, b, p) = gT + Top(t + bT) + pK
  <2>1. 0 + g = g
    OBVIOUS
  <2> QED
    BY <2>1, Zenon DEF Credit
<1>3. gT + bT + pK <= WK
  <2>1. CASE Refill >= 1
    <3>1. K >= Token /\ K >= 0
      BY <2>1, Products
    <3>2. gT <= g * K /\ bT <= b * K
      BY <3>1, Products
    <3>3. g * K + b * K + p * K = ((g + b) + p) * K
      BY Products
    <3>4. ((g + b) + p) * K <= W * K
      BY <3>1, Products
    <3> QED
      BY <3>2, <3>3, <3>4, Products
  <2>2. CASE (g + b) + p = 0
    <3>1. g = 0 /\ b = 0 /\ p = 0
      BY <2>2
    <3>2. WK >= 0
      <4>1. CASE W = 0
        BY <4>1, Products
      <4>2. CASE W >= 1
        <5>1. Refill >= 0
          BY <4>2, Products DEF Refill
        <5> QED
          BY <4>2, <5>1, Products
      <4> QED
        BY <4>1, <4>2, Products
    <3> QED
      BY <3>1, <3>2, Products
  <2> QED
    BY <2>1, <2>2
<1>4. t <= cap /\ cap = Burst * Token /\ WK = Cardinality(Workers) * (Refill * Token)
  OBVIOUS
<1> HIDE DEF gT, bT, K, pK, cap, W, WK
<1> QED
  BY <1>1, <1>2, <1>3, <1>4 DEF Top

LEMMA CountChange ==
    ASSUME NEW S \in SUBSET Workers, NEW R \in SUBSET Workers, NEW w \in Workers,
           \A v \in Workers \ {w} : v \in S <=> v \in R
    PROVE  /\ Cardinality(S) \in Nat /\ Cardinality(R) \in Nat
           /\ (w \in S <=> w \in R) => Cardinality(R) = Cardinality(S)
           /\ w \notin S /\ w \in R => Cardinality(R) = Cardinality(S) + 1
           /\ w \in S /\ w \notin R => Cardinality(R) = Cardinality(S) - 1
<1>1. IsFiniteSet(S) /\ IsFiniteSet(R)
  BY FS_Subset
<1>2. Cardinality(S) \in Nat /\ Cardinality(R) \in Nat
  BY <1>1, FS_CardinalityType
<1>3. (w \in S <=> w \in R) => S = R
  <2>1. SUFFICES ASSUME w \in S <=> w \in R PROVE S = R
    OBVIOUS
  <2>2. \A v \in Workers : v \in S <=> v \in R
    BY <2>1
  <2>3. \A v : (v \in S => v \in Workers) /\ (v \in R => v \in Workers)
    OBVIOUS
  <2>4. \A v : v \in S <=> v \in R
    BY <2>2, <2>3
  <2> QED
    BY <2>4, SMT
<1>4. w \notin S /\ w \in R => R = S \cup {w}
  OBVIOUS
<1>5. w \in S /\ w \notin R => R = S \ {w}
  OBVIOUS
<1>6. w \notin S => Cardinality(S \cup {w}) = Cardinality(S) + 1
  BY <1>1, FS_AddElement
<1>7. w \in S => Cardinality(S \ {w}) = Cardinality(S) - 1
  BY <1>1, FS_RemoveElement
<1> QED
  BY <1>2, <1>3, <1>4, <1>5, <1>6, <1>7

-----------------------------------------------------------------------------
(* The state in numbers, and what is known of a reservation: with no supply  *)
(* it is due at once or never, and the worker that would have to wait for    *)
(* ever is not kept from its decision for so long.                           *)
Numbers ==
    /\ Numeric(limiter) /\ limiter.tokens <= Burst * Token
    /\ DOMAIN pc = Workers /\ pc = [w \in Workers |-> pc[w]]
    /\ due \in [Workers -> Int]
    /\ held \in [Workers -> [act : Int, limit : Int]]
    /\ unsupplied \in Nat
    /\ limiter.limit >= 0 => unsupplied = 0

HeldOK(w) ==
    /\ Counts(w) => Burst >= 1
    /\ Counts(w) /\ held[w].limit <= 0 => pc[w] # "delaying"
    /\ pc[w] = "reserved" /\ held[w].limit <= 0 =>
         held[w].act <= 0 \/ (held[w].act >= Never + due[w] /\ due[w] >= -MaxLate)

Basic == Numbers /\ \A w \in Workers : HeldOK(w)

LEMMA InitBasic == Init => Basic
<1> SUFFICES ASSUME Init PROVE Basic
  OBVIOUS
<1>1. PICK r \in Rates : limiter = NewLimiter(r)
  BY DEF Init
<1>2. r \in Int /\ Burst * Token \in Int
  BY Products
<1>3. Numeric(limiter) /\ limiter.tokens <= Burst * Token
  <2>1. /\ limiter.limit = r /\ limiter.tokens = Burst * Token /\ limiter.lastEvent = 0
        /\ limiter = [limit |-> r, tokens |-> Burst * Token, lastEvent |-> 0]
    BY <1>1 DEF NewLimiter
  <2> DEFINE cap == Burst * Token
  <2>2. cap = Burst * Token
    OBVIOUS
  <2> HIDE DEF cap
  <2> QED
    BY <1>2, <2>1, <2>2 DEF Numeric
<1>4. held \in [Workers -> [act : Int, limit : Int]]
  BY DEF Init, NoReservation
<1>5. \A w \in Workers : pc[w] \in {"top", "stopped"}
  BY DEF Init
<1>6. Numbers
  BY <1>3, <1>4 DEF Init, Numbers
<1> QED
  BY <1>5, <1>6 DEF Basic, HeldOK, Counts

(* A step of one worker that changes nothing of the limiter's numbers but    *)
(* keeps them right, and leaves the worker in order.                         *)
LEMMA BasicWorker ==
    ASSUME Basic, NEW w \in Workers, NEW label, NEW delay \in Int,
           Goto(w, label, delay),
           Numeric(limiter'), limiter'.tokens <= Burst * Token, limiter'.limit = limiter.limit,
           held' \in [Workers -> [act : Int, limit : Int]],
           \A v \in Workers \ {w} : held'[v] = held[v],
           unsupplied' \in Nat, limiter.limit >= 0 => unsupplied' = unsupplied,
           HeldOK(w)'
    PROVE  Basic'
<1> USE DEF Basic, Numbers, Goto
<1>1. Numbers'
  OBVIOUS
<1>2. ASSUME NEW v \in Workers PROVE HeldOK(v)'
  BY DEF HeldOK, Counts
<1> QED
  BY <1>1, <1>2

LEMMA BasicStep == Basic /\ [Next]_vars => Basic'
<1> SUFFICES ASSUME Basic, [Next]_vars PROVE Basic'
  OBVIOUS
<1>0. Numbers /\ \A w \in Workers : HeldOK(w)
  BY DEF Basic
<1>a. \A w \in Workers : held[w] \in [act : Int, limit : Int] /\ held[w].act \in Int /\ held[w].limit \in Int
  BY <1>0 DEF Numbers
<1>1. ASSUME NEW w \in Workers, CheckRate(w) \/ Exit(w) PROVE Basic'
  <2>1. UNCHANGED <<limiter, held, unsupplied>>
    BY <1>1 DEF CheckRate, Exit, history
  <2>2. \E label \in {"idle", "checked", "stopped"}, delay \in Int : Goto(w, label, delay)
    BY <1>1 DEF CheckRate, Exit
  <2>3. ASSUME NEW label \in {"idle", "checked", "stopped"}, NEW delay \in Int, Goto(w, label, delay)
        PROVE  Basic'
    <3>1. HeldOK(w)'
      BY <1>0, <2>3 DEF HeldOK, Counts, Goto, Numbers
    <3> QED
      BY <1>0, <2>1, <2>3, <3>1, BasicWorker DEF Numbers
  <2> QED
    BY <2>2, <2>3
<1>2. ASSUME NEW w \in Workers, Reserve(w) PROVE Basic'
  <2>1. CASE Burst < 1
    <3>1. Goto(w, "idle", Second) /\ UNCHANGED <<limiter, held, unsupplied>>
      BY <1>2, <2>1 DEF Reserve, history
    <3>2. HeldOK(w)'
      BY <1>0, <3>1 DEF HeldOK, Counts, Goto, Numbers
    <3> QED
      BY <1>0, <3>1, <3>2, BasicWorker DEF Numbers
  <2>2. CASE ~(Burst < 1)
    <3> DEFINE r == [act |-> Wait(limiter), limit |-> limiter.limit]
    <3>1. /\ Goto(w, "reserved", 0) /\ limiter' = Reserved(limiter)
          /\ held' = [held EXCEPT ![w] = r] /\ unsupplied' = unsupplied
      BY <1>2, <2>2 DEF Reserve, history
    <3>2. /\ Wait(limiter) \in Int /\ limiter.limit \in Int /\ limiter.tokens \in Int
          /\ limiter.tokens >= Token => Wait(limiter) = 0
          /\ limiter.tokens < Token /\ limiter.limit <= 0 => Wait(limiter) = Never
      BY <1>0, WaitInt DEF Numbers, Numeric
    <3>3. r \in [act : Int, limit : Int] /\ r.act = Wait(limiter) /\ r.limit = limiter.limit
      BY <3>2
    <3> HIDE DEF r
    <3>4. /\ held' \in [Workers -> [act : Int, limit : Int]] /\ held'[w] = r
          /\ \A v \in Workers \ {w} : held'[v] = held[v]
      BY <1>0, <3>1, <3>3 DEF Numbers
    <3>5. /\ Numeric(limiter') /\ limiter'.limit = limiter.limit
          /\ limiter'.tokens = limiter.tokens - Token
      BY <1>0, <3>1, ReservedNumeric DEF Numbers
    <3>6. limiter'.tokens <= Burst * Token
      <4>1. limiter.tokens <= Burst * Token /\ Burst * Token \in Int
        BY <1>0, Products DEF Numbers
      <4> QED
        BY <3>2, <3>5, <4>1
    <3>7. HeldOK(w)'
      <4>1. pc'[w] = "reserved" /\ due'[w] = 0
        BY <1>0, <3>1 DEF Goto, Numbers
      <4>2. r.limit <= 0 => r.act <= 0 \/ r.act >= Never
        BY <3>2, <3>3
      <4>3. 0 >= -MaxLate /\ Burst >= 1 /\ Never + 0 = Never
        BY <2>2
      <4> QED
        BY <3>4, <4>1, <4>2, <4>3 DEF HeldOK, Counts
    <3> QED
      BY <1>0, <3>1, <3>4, <3>5, <3>6, <3>7, BasicWorker DEF Numbers
  <2> QED
    BY <2>1, <2>2
<1>3. ASSUME NEW w \in Workers, DecideToCancel(w) \/ Interrupt(w) PROVE Basic'
  <2>1. /\ Goto(w, "cancelling", 0) /\ UNCHANGED <<limiter, held, unsupplied>> /\ Counts(w)
    BY <1>3 DEF DecideToCancel, TooLong, Interrupt, history, Counts
  <2>2. HeldOK(w)'
    BY <1>0, <2>1 DEF HeldOK, Counts, Goto, Numbers
  <2> QED
    BY <1>0, <2>1, <2>2, BasicWorker DEF Numbers
<1>4. ASSUME NEW w \in Workers, DecideToWait(w) PROVE Basic'
  <2>1. /\ Goto(w, "delaying", Delay(w)) /\ UNCHANGED <<limiter, held, unsupplied>>
        /\ pc[w] = "reserved" /\ ~(Delay(w) > Second) /\ Delay(w) > 0
    BY <1>4 DEF DecideToWait, TooLong, history
  <2>2. Delay(w) \in Int /\ Delay(w) = held[w].act
    BY <1>a, <2>1 DEF Delay
  <2>3. ~(held[w].limit <= 0)
    <3>1. held[w].limit <= 0 => held[w].act >= Never + due[w] /\ due[w] >= -MaxLate
      BY <1>0, <1>a, <2>1, <2>2 DEF HeldOK
    <3>2. due[w] \in Int
      BY <1>0 DEF Numbers
    <3> QED
      BY <1>a, <2>1, <2>2, <3>1, <3>2
  <2>4. HeldOK(w)'
    BY <1>0, <2>1, <2>3 DEF HeldOK, Counts, Goto, Numbers
  <2> QED
    BY <1>0, <2>1, <2>2, <2>4, BasicWorker DEF Numbers
<1>5. ASSUME NEW w \in Workers, ConsumeNow(w) PROVE Basic'
  <2>1. /\ Goto(w, "consuming", 0) /\ UNCHANGED <<limiter, held>>
        /\ unsupplied' = IF limiter.limit < 0 THEN unsupplied + 1 ELSE unsupplied
    BY <1>5 DEF ConsumeNow, Begin
  <2>2. HeldOK(w)'
    BY <1>0, <2>1 DEF HeldOK, Counts, Goto, Numbers
  <2>3. limiter.limit \in Int
    BY <1>0 DEF Numbers, Numeric
  <2>4. unsupplied' \in Nat /\ (limiter.limit >= 0 => unsupplied' = unsupplied)
    BY <1>0, <2>1, <2>3 DEF Numbers
  <2> QED
    BY <1>0, <2>1, <2>2, <2>4, BasicWorker DEF Numbers
<1>6. ASSUME NEW w \in Workers, CancelReservation(w) PROVE Basic'
  <2>1. /\ Goto(w, "idle", Second) /\ UNCHANGED <<held, unsupplied>>
        /\ limiter' = Cancelled(limiter, held[w].act, held[w].limit)
    BY <1>6 DEF CancelReservation, history
  <2>2. HeldOK(w)'
    BY <1>0, <2>1 DEF HeldOK, Counts, Goto, Numbers
  <2>3. /\ Numeric(limiter') /\ limiter'.limit = limiter.limit
        /\ limiter'.tokens = limiter.tokens \/ limiter'.tokens <= Burst * Token
    BY <1>0, <1>a, <2>1, CancelledNumeric DEF Numbers
  <2> QED
    BY <1>0, <2>1, <2>2, <2>3, BasicWorker DEF Numbers
<1>7. ASSUME NEW w \in Workers, Return(w) PROVE Basic'
  <2>1. /\ Goto(w, "top", 0) /\ UNCHANGED <<limiter, unsupplied>>
        /\ held' = [held EXCEPT ![w] = NoReservation]
    BY <1>7 DEF Return, history
  <2>2. HeldOK(w)'
    BY <1>0, <2>1 DEF HeldOK, Counts, Goto, Numbers
  <2>3. held' \in [Workers -> [act : Int, limit : Int]] /\ \A v \in Workers \ {w} : held'[v] = held[v]
    BY <1>0, <2>1 DEF NoReservation, Numbers
  <2> QED
    BY <1>0, <2>1, <2>2, <2>3, BasicWorker DEF Numbers
<1>8. ASSUME NEW r \in Rates, SetDrainRate(r) PROVE Basic'
  <2>1. limiter' = [limiter EXCEPT !.limit = r] /\ r \in Int
    BY <1>8 DEF SetDrainRate, SetLimit
  <2>2. Numeric(limiter') /\ limiter'.tokens = limiter.tokens /\ limiter'.limit = r
    BY <1>0, <2>1 DEF Numeric, Numbers
  <2>3. /\ UNCHANGED <<pc, due, held>>
        /\ unsupplied' = IF r = limiter.limit THEN unsupplied ELSE 0
    BY <1>8 DEF SetDrainRate
  <2>4. Numbers'
    BY <1>0, <2>2, <2>3 DEF Numbers
  <2> QED
    BY <1>0, <2>3, <2>4 DEF Basic, HeldOK, Counts
<1>9. CASE Tick
  <2>1. /\ limiter' = Passed(limiter) \/ limiter' = [Passed(limiter) EXCEPT !.lastEvent = 0]
        /\ UNCHANGED <<pc, unsupplied>>
    BY <1>9 DEF Tick
  <2>2. Numeric(limiter') /\ limiter'.limit = limiter.limit /\ limiter'.tokens <= Burst * Token
    <3>1. Numeric(limiter) /\ limiter.tokens <= Burst * Token
      BY <1>0 DEF Numbers
    <3> QED
      BY <2>1, <3>1, PassedNumeric
  <2>3. ASSUME NEW w \in Workers
        PROVE  /\ held'[w] = IF Counts(w) THEN [held[w] EXCEPT !.act = @ - 1] ELSE NoReservation
               /\ due'[w] = IF Ready(w) THEN due[w] - 1 ELSE 0
               /\ Ready(w) => due[w] > -MaxLate
    BY <1>9 DEF Tick
  <2>4. ASSUME NEW w \in Workers
        PROVE  /\ due'[w] \in Int /\ held'[w] \in [act : Int, limit : Int]
               /\ Counts(w) => held'[w].act = held[w].act - 1 /\ held'[w].limit = held[w].limit
    <3>1. due'[w] \in Int
      <4>1. due[w] \in Int
        BY <1>0 DEF Numbers
      <4>2. due[w] - 1 \in Int /\ 0 \in Int
        BY <4>1
      <4>3. due'[w] = due[w] - 1 \/ due'[w] = 0
        BY <2>3
      <4> QED
        BY <4>2, <4>3
    <3>2. NoReservation \in [act : Int, limit : Int]
      BY DEF NoReservation
    <3> DEFINE older == [held[w] EXCEPT !.act = @ - 1]
    <3>3. /\ older \in [act : Int, limit : Int]
          /\ older.act = held[w].act - 1 /\ older.limit = held[w].limit
      BY <1>a
    <3> HIDE DEF older
    <3>4. held'[w] = IF Counts(w) THEN older ELSE NoReservation
      BY <2>3 DEF older
    <3> QED
      BY <3>1, <3>2, <3>3, <3>4
  <2>5. due' \in [Workers -> Int] /\ held' \in [Workers -> [act : Int, limit : Int]]
    BY <1>9, <2>4 DEF Tick
  <2>6. ASSUME NEW w \in Workers PROVE HeldOK(w)'
    <3>1. due[w] \in Int
      BY <1>0 DEF Numbers
    <3>2. HeldOK(w)
      BY <1>0
    <3>3. pc[w] = "reserved" => Counts(w) /\ Ready(w)
      BY DEF Counts, Ready
    <3>4. pc[w] = "reserved" /\ held'[w].limit <= 0 =>
            held'[w].act <= 0 \/ (held'[w].act >= Never + due'[w] /\ due'[w] >= -MaxLate)
      BY <1>a, <2>3, <2>4, <3>1, <3>2, <3>3 DEF HeldOK
    <3> QED
      BY <2>1, <2>4, <3>2, <3>4 DEF HeldOK, Counts
  <2>7. Numbers'
    BY <1>0, <2>1, <2>2, <2>5 DEF Numbers
  <2> QED
    BY <2>6, <2>7 DEF Basic
<1>10. CASE Stop \/ UNCHANGED vars
  BY <1>10 DEF Stop, vars, history, Basic, Numbers, HeldOK, Counts
<1> QED
  BY <1>1, <1>2, <1>3, <1>4, <1>5, <1>6, <1>7, <1>8, <1>9, <1>10 DEF Next, Worker

-----------------------------------------------------------------------------
(* What a worker's reservation is worth at a negative rate: a message that   *)
(* is about to begin, a token that is not waited for and will be given back, *)
(* or, when it was made at a rate above zero, either.                        *)
Class(w) ==
    IF ~Counts(w) THEN "none"
    ELSE IF held[w].limit > 0 THEN "before"
    ELSE IF pc[w] = "reserved" /\ held[w].act <= 0 THEN "usable"
    ELSE "owed"

In(c)  == {w \in Workers : Class(w) = c}
Num(c) == Cardinality(In(c))

Left == Credit(unsupplied, limiter.tokens, Num("usable"), Num("owed"), Num("before"))
Bound == Burst * Token + Cardinality(Workers) * (Refill * Token)

SupplyInv == Basic /\ (limiter.limit < 0 => Left <= Bound)

LEMMA NumNat == ASSUME NEW c PROVE Num(c) \in Nat
<1>1. In(c) \subseteq Workers
  BY DEF In
<1> QED
  BY <1>1, FS_Subset, FS_CardinalityType DEF Num

(* Every worker is in one class at most.                                     *)
LEMMA OneClass == (Num("usable") + Num("owed")) + Num("before") <= Cardinality(Workers)
<1> DEFINE G == In("usable")  B == In("owed")  P == In("before")
<1>1. G \subseteq Workers /\ B \subseteq Workers /\ P \subseteq Workers
  BY DEF In
<1>2. G \cap B = {} /\ (G \cup B) \cap P = {}
  BY DEF In
<1>3. /\ IsFiniteSet(G) /\ IsFiniteSet(B) /\ IsFiniteSet(P)
      /\ (G \cup B) \cup P \subseteq Workers
  BY <1>1, FS_Subset
<1> HIDE DEF G, B, P
<1>4. IsFiniteSet(G \cup B) /\ IsFiniteSet((G \cup B) \cup P)
  BY <1>3, FS_Union
<1>5. Cardinality((G \cup B) \cup P) <= Cardinality(Workers)
  BY <1>3, FS_Subset
<1>6. /\ Cardinality(G \cup B) = Cardinality(G) + Cardinality(B) - Cardinality(G \cap B)
      /\ Cardinality((G \cup B) \cup P)
           = Cardinality(G \cup B) + Cardinality(P) - Cardinality((G \cup B) \cap P)
  BY <1>3, <1>4, FS_Union
<1>7. Cardinality({}) = 0
  BY FS_EmptySet
<1>8. /\ Cardinality(G) \in Nat /\ Cardinality(B) \in Nat /\ Cardinality(P) \in Nat
      /\ Cardinality(G \cup B) \in Nat /\ Cardinality(Workers) \in Nat
  BY <1>3, <1>4, FS_CardinalityType
<1>9. (Cardinality(G) + Cardinality(B)) + Cardinality(P) <= Cardinality(Workers)
  <2>1. Cardinality(G \cap B) = 0 /\ Cardinality((G \cup B) \cap P) = 0
    BY <1>2, <1>7, Zenon
  <2>2. Cardinality((G \cup B) \cup P) = (Cardinality(G) + Cardinality(B)) + Cardinality(P)
    BY <1>6, <1>8, <2>1
  <2> QED
    BY <1>5, <2>2, Zenon
<1> QED
  BY <1>9 DEF G, B, P, Num

(* A reservation counts only where there is a burst to take it from.         *)
LEMMA Worth ==
    ASSUME Basic
    PROVE  /\ Refill >= 1 \/ (Num("usable") + Num("owed")) + Num("before") = 0
           /\ \A w \in Workers : Counts(w) => Refill >= 1
           /\ \A w \in Workers : Class(w) = "before" => Num("owed") <= Cardinality(Workers) - 1
<1>1. ASSUME NEW w \in Workers, Counts(w) PROVE Refill >= 1
  <2>1. Burst >= 1
    BY <1>1 DEF Basic, HeldOK
  <2>2. Cardinality(Workers) >= 1
    <3>1. Cardinality(Workers) # 0
      BY FS_EmptySet
    <3> QED
      BY <3>1, Products
  <2> QED
    BY <2>1, <2>2, Products DEF Refill
<1>2. ASSUME \A w \in Workers : ~Counts(w)
      PROVE  (Num("usable") + Num("owed")) + Num("before") = 0
  <2>1. In("usable") = {} /\ In("owed") = {} /\ In("before") = {}
    BY <1>2 DEF In, Class
  <2> QED
    BY <2>1, FS_EmptySet DEF Num
<1>3. ASSUME NEW w \in Workers, Class(w) = "before"
      PROVE  Num("owed") <= Cardinality(Workers) - 1
  <2>1. In("before") # {}
    BY <1>3 DEF In
  <2>2. IsFiniteSet(In("before"))
    <3>1. In("before") \subseteq Workers
      BY DEF In
    <3> QED
      BY <3>1, FS_Subset
  <2>3. Num("before") # 0
    BY <2>1, <2>2, FS_EmptySet DEF Num
  <2> QED
    BY <2>3, OneClass, NumNat, Products
<1> QED
  BY <1>1, <1>2, <1>3

(* A step of one worker moves that worker between classes.                   *)
LEMMA ClassChange ==
    ASSUME NEW w \in Workers,
           \A v \in Workers \ {w} : pc'[v] = pc[v] /\ held'[v] = held[v],
           NEW c
    PROVE  /\ Num(c) \in Nat /\ Num(c)' \in Nat
           /\ (Class(w) = c <=> Class(w)' = c) => Num(c)' = Num(c)
           /\ Class(w) # c /\ Class(w)' = c => Num(c)' = Num(c) + 1
           /\ Class(w) = c /\ Class(w)' # c => Num(c)' = Num(c) - 1
<1> DEFINE S == In(c)
           R == {v \in Workers : Class(v)' = c}
<1>1. S \in SUBSET Workers /\ R \in SUBSET Workers
  BY DEF In
<1>2. \A v \in Workers \ {w} : v \in S <=> v \in R
  BY DEF In, Class, Counts
<1>3. (w \in S <=> Class(w) = c) /\ (w \in R <=> Class(w)' = c)
  BY DEF In
<1>4. Num(c) = Cardinality(S) /\ Num(c)' = Cardinality(R)
  BY DEF Num, In
<1> HIDE DEF S, R
<1> QED
  BY <1>1, <1>2, <1>3, <1>4, CountChange

(* A worker's step never adds to what is left.                               *)
LEMMA WorkerSpends ==
    ASSUME Basic, NEW w \in Workers,
           \A v \in Workers \ {w} : pc'[v] = pc[v] /\ held'[v] = held[v],
           Numeric(limiter'),
           \/ /\ unsupplied' = unsupplied /\ limiter'.tokens = limiter.tokens
              /\ Class(w)' = Class(w) \/ (Class(w) = "usable" /\ Class(w)' = "owed")
                   \/ (Class(w) = "before" /\ Class(w)' = "none")
           \/ /\ unsupplied' = unsupplied /\ limiter'.tokens = limiter.tokens - Token
              /\ Class(w) = "none"
              /\ Class(w)' = "owed" \/ (Class(w)' = "usable" /\ limiter.tokens >= Token)
           \/ /\ unsupplied' = unsupplied + 1 /\ limiter'.tokens = limiter.tokens
              /\ Class(w) \in {"usable", "before"} /\ Class(w)' = "none"
           \/ /\ unsupplied' = unsupplied /\ Class(w)' = "none"
              /\ \/ Class(w) = "owed" /\ limiter'.tokens <= limiter.tokens + Token
                 \/ Class(w) = "before" /\ limiter'.tokens <= Burst * Token
    PROVE  Left' <= Left
<1> DEFINE g == Num("usable")
           b == Num("owed")
           p == Num("before")
           t == limiter.tokens
           u == unsupplied
<1>1. \A c : /\ Num(c) \in Nat /\ Num(c)' \in Nat
             /\ (Class(w) = c <=> Class(w)' = c) => Num(c)' = Num(c)
             /\ Class(w) # c /\ Class(w)' = c => Num(c)' = Num(c) + 1
             /\ Class(w) = c /\ Class(w)' # c => Num(c)' = Num(c) - 1
  BY ClassChange
<1>2. /\ g \in Nat /\ b \in Nat /\ p \in Nat /\ u \in Nat /\ t \in Int /\ t' \in Int
  BY <1>1 DEF Basic, Numbers, Numeric
<1>3. /\ Class(w) # "none" => Refill >= 1
      /\ Class(w) = "before" => b <= Cardinality(Workers) - 1
  BY Worth DEF Class
<1>4. Left = Credit(u, t, g, b, p) /\ Left' = Credit(u', t', g', b', p')
  BY DEF Left
<1>5. /\ Class(w)' = Class(w) => g' = g /\ b' = b /\ p' = p
      /\ Class(w) = "usable" /\ Class(w)' = "owed" => g' = g - 1 /\ b' = b + 1 /\ p' = p
      /\ Class(w) = "usable" /\ Class(w)' = "none" => g' = g - 1 /\ b' = b /\ p' = p
      /\ Class(w) = "before" /\ Class(w)' = "none" => g' = g /\ b' = b /\ p' = p - 1
      /\ Class(w) = "owed" /\ Class(w)' = "none" => g' = g /\ b' = b - 1 /\ p' = p
      /\ Class(w) = "none" /\ Class(w)' = "owed" => g' = g /\ b' = b + 1 /\ p' = p
      /\ Class(w) = "none" /\ Class(w)' = "usable" => g' = g + 1 /\ b' = b /\ p' = p
  BY <1>1
<1>6. Credit(u, t, g, b, p) \in Int
  BY <1>2, Products DEF Credit, Top
<1> HIDE DEF g, b, p, t, u
<1>7. CASE Class(w)' = Class(w) /\ u' = u /\ t' = t
  BY <1>4, <1>5, <1>6, <1>7
<1>8. CASE Class(w) = "usable" /\ Class(w)' = "owed" /\ u' = u /\ t' = t
  BY <1>2, <1>4, <1>5, <1>8, Spending
<1>9. CASE Class(w) = "before" /\ Class(w)' = "none" /\ u' = u /\ t' = t
  BY <1>2, <1>3, <1>4, <1>5, <1>9, GivingBack
<1>10. CASE Class(w) = "none" /\ Class(w)' = "owed" /\ u' = u /\ t' = t - Token
  BY <1>2, <1>4, <1>5, <1>10, Spending
<1>11. CASE /\ Class(w) = "none" /\ Class(w)' = "usable" /\ t >= Token
            /\ u' = u /\ t' = t - Token
  BY <1>2, <1>4, <1>5, <1>11, Spending
<1>12. CASE Class(w) = "usable" /\ Class(w)' = "none" /\ u' = u + 1 /\ t' = t
  BY <1>2, <1>4, <1>5, <1>12, Spending
<1>13. CASE Class(w) = "before" /\ Class(w)' = "none" /\ u' = u + 1 /\ t' = t
  BY <1>2, <1>3, <1>4, <1>5, <1>13, GivingBack
<1>14. CASE Class(w) = "owed" /\ Class(w)' = "none" /\ u' = u /\ t' <= t + Token
  BY <1>2, <1>4, <1>5, <1>14, GivingBack
<1>15. CASE Class(w) = "before" /\ Class(w)' = "none" /\ u' = u /\ t' <= Burst * Token
  BY <1>2, <1>3, <1>4, <1>5, <1>15, GivingBack
<1> QED
  BY <1>7, <1>8, <1>9, <1>10, <1>11, <1>12, <1>13, <1>14, <1>15 DEF t, u

LEMMA SupplyInvInit == Init => SupplyInv
<1> SUFFICES ASSUME Init PROVE SupplyInv
  OBVIOUS
<1>1. Basic
  BY InitBasic
<1>2. Num("usable") \in Nat /\ Num("owed") \in Nat /\ Num("before") \in Nat
  BY NumNat
<1>3. unsupplied = 0
  BY DEF Init
<1>4. limiter.tokens \in Int /\ limiter.tokens <= Burst * Token
  BY <1>1 DEF Basic, Numbers, Numeric
<1>5. Left <= Bound
  BY <1>1, <1>2, <1>3, <1>4, Worth, OneClass, Fresh DEF Left, Bound
<1> QED
  BY <1>1, <1>5 DEF SupplyInv

LEMMA SupplyInvStep == SupplyInv /\ [Next]_vars => SupplyInv'
<1> SUFFICES ASSUME SupplyInv, [Next]_vars PROVE SupplyInv'
  OBVIOUS
<1>1. Basic /\ Basic'
  BY BasicStep DEF SupplyInv
<1>2. SUFFICES ASSUME limiter'.limit < 0 PROVE Left' <= Bound
  BY <1>1 DEF SupplyInv, Bound
<1>a. Bound \in Int /\ Left \in Int /\ Left' \in Int
  <2>1. ASSUME NEW u \in Int, NEW t \in Int, NEW g \in Int, NEW b \in Int, NEW p \in Int
        PROVE  Credit(u, t, g, b, p) \in Int
    <3>1. /\ (u + g) * Token \in Int /\ t + b * Token \in Int /\ p * (Refill * Token) \in Int
      BY Products
    <3>2. \A x \in Int : Top(x) \in Int
      BY DEF Top
    <3>3. Top(t + b * Token) \in Int
      BY <3>1, <3>2, Zenon
    <3> QED
      BY <3>1, <3>3 DEF Credit
  <2>2. /\ unsupplied \in Int /\ limiter.tokens \in Int
        /\ unsupplied' \in Int /\ limiter'.tokens \in Int
    BY <1>1 DEF Basic, Numbers, Numeric
  <2>3. \A c : Num(c) \in Nat /\ Num(c)' \in Nat
    <3>1. \A c : Num(c) \in Nat
      BY NumNat
    <3>2. ASSUME NEW c PROVE Num(c)' \in Nat
      <4>1. In(c)' \subseteq Workers
        BY DEF In
      <4> QED
        BY <4>1, FS_Subset, FS_CardinalityType DEF Num
    <3> QED
      BY <3>1, <3>2
  <2> QED
    <3>1. Bound \in Int
      BY Products DEF Bound
    <3>a. \A c : Num(c) \in Int /\ Num(c)' \in Int
      BY <2>3
    <3>2. Left \in Int
      BY <2>1, <2>2, <3>a, Zenon DEF Left
    <3>3. Left' \in Int
      BY <2>1, <2>2, <3>a, Zenon DEF Left
    <3> QED
      BY <3>1, <3>2, <3>3
<1>b. /\ limiter.limit \in Int /\ limiter.tokens \in Int
      /\ Numeric(limiter) /\ Numeric(limiter')
      /\ limiter'.tokens <= Burst * Token /\ DOMAIN pc = Workers
      /\ \A w \in Workers : HeldOK(w)
      /\ \A w \in Workers : /\ held[w] \in [act : Int, limit : Int] /\ due[w] \in Int
                            /\ held[w].act \in Int /\ held[w].limit \in Int
  BY <1>1 DEF Basic, Numbers, Numeric
<1>3. ASSUME limiter.limit < 0, Left' <= Left PROVE Left' <= Bound
  BY <1>3, <1>a DEF SupplyInv
<1>4. ASSUME NEW w \in Workers, NEW label, NEW delay, Goto(w, label, delay)
      PROVE  pc'[w] = label /\ \A v \in Workers \ {w} : pc'[v] = pc[v]
  BY <1>4, <1>b DEF Goto
<1>5. ASSUME NEW w \in Workers, CheckRate(w) \/ Exit(w) \/ Return(w) PROVE Left' <= Bound
  <2>1. limiter' = limiter /\ unsupplied' = unsupplied
    BY <1>5 DEF CheckRate, Exit, Return, history
  <2>2. /\ \E label \in {"idle", "checked", "stopped", "top"} : \E delay : Goto(w, label, delay)
        /\ \A v \in Workers \ {w} : held'[v] = held[v]
        /\ pc[w] \in {"top", "consuming", "idle"}
    BY <1>5, <1>1 DEF CheckRate, Exit, Return, Basic, Numbers
  <2>3. pc'[w] \in {"idle", "checked", "stopped", "top"} /\ \A v \in Workers \ {w} : pc'[v] = pc[v]
    BY <1>4, <2>2
  <2>4. Class(w)' = Class(w)
    BY <2>2, <2>3 DEF Class, Counts
  <2> QED
    BY <1>1, <1>2, <1>3, <1>b, <2>1, <2>2, <2>3, <2>4, WorkerSpends
<1>6. ASSUME NEW w \in Workers, Reserve(w) PROVE Left' <= Bound
  <2>1. pc[w] = "checked" /\ unsupplied' = unsupplied
    BY <1>6 DEF Reserve, history
  <2>2. CASE Burst < 1
    <3>1. Goto(w, "idle", Second) /\ UNCHANGED <<limiter, held>>
      BY <1>6, <2>2 DEF Reserve
    <3>2. pc'[w] = "idle" /\ \A v \in Workers \ {w} : pc'[v] = pc[v] /\ held'[v] = held[v]
      BY <1>4, <3>1
    <3>3. Class(w)' = Class(w)
      BY <2>1, <3>2 DEF Class, Counts
    <3> QED
      BY <1>1, <1>2, <1>3, <1>b, <2>1, <3>1, <3>2, <3>3, WorkerSpends
  <2>3. CASE ~(Burst < 1)
    <3> DEFINE r == [act |-> Wait(limiter), limit |-> limiter.limit]
    <3>1. /\ Goto(w, "reserved", 0) /\ limiter' = Reserved(limiter)
          /\ held' = [held EXCEPT ![w] = r]
      BY <1>6, <2>3 DEF Reserve
    <3>2. limiter'.limit = limiter.limit /\ limiter'.tokens = limiter.tokens - Token
      BY <1>b, <3>1, ReservedNumeric
    <3>3. /\ Wait(limiter) \in Int
          /\ limiter.tokens >= Token => Wait(limiter) = 0
          /\ limiter.tokens < Token /\ limiter.limit <= 0 => Wait(limiter) = Never
      BY <1>b, WaitInt
    <3>4. r.act = Wait(limiter) /\ r.limit = limiter.limit
      OBVIOUS
    <3> HIDE DEF r
    <3>5. held'[w] = r /\ \A v \in Workers \ {w} : held'[v] = held[v]
      BY <1>1, <3>1 DEF Basic, Numbers
    <3>6. pc'[w] = "reserved" /\ \A v \in Workers \ {w} : pc'[v] = pc[v]
      BY <1>4, <3>1
    <3>7. Class(w) = "none"
      BY <2>1 DEF Class, Counts
    <3>8. Class(w)' = "owed" \/ (Class(w)' = "usable" /\ limiter.tokens >= Token)
      <4>1. limiter.limit < 0
        BY <1>2, <3>2
      <4>2. limiter.tokens < Token => held'[w].act > 0
        BY <1>b, <3>3, <3>4, <3>5, <4>1
      <4>3. ~(held'[w].limit > 0)
        BY <1>b, <3>4, <3>5, <4>1
      <4>4. Class(w)' \in {"usable", "owed"} /\ (held'[w].act > 0 => Class(w)' = "owed")
        <5>1. held'[w].act \in Int
          BY <3>3, <3>4, <3>5
        <5> QED
          BY <3>6, <4>3, <5>1 DEF Class, Counts
      <4> QED
        BY <1>b, <4>2, <4>4
    <3> QED
      BY <1>1, <1>2, <1>3, <1>b, <2>1, <3>2, <3>5, <3>6, <3>7, <3>8, WorkerSpends
  <2> QED
    BY <2>2, <2>3
<1>7. ASSUME NEW w \in Workers, DecideToCancel(w) PROVE Left' <= Bound
  <2>1. /\ Goto(w, "cancelling", 0) /\ UNCHANGED <<limiter, held, unsupplied>>
        /\ pc[w] = "reserved"
    BY <1>7 DEF DecideToCancel, TooLong, history
  <2>2. pc'[w] = "cancelling" /\ \A v \in Workers \ {w} : pc'[v] = pc[v]
    BY <1>4, <2>1
  <2>3. Class(w)' = Class(w) \/ (Class(w) = "usable" /\ Class(w)' = "owed")
    BY <2>1, <2>2 DEF Class, Counts
  <2> QED
    BY <1>1, <1>2, <1>3, <1>b, <2>1, <2>2, <2>3, WorkerSpends
<1>8. ASSUME NEW w \in Workers, DecideToWait(w) PROVE Left' <= Bound
  <2>1. /\ Goto(w, "delaying", Delay(w)) /\ UNCHANGED <<limiter, held, unsupplied>>
        /\ pc[w] = "reserved"
    BY <1>8 DEF DecideToWait, history
  <2>2. pc'[w] = "delaying" /\ \A v \in Workers \ {w} : pc'[v] = pc[v]
    BY <1>4, <2>1
  <2>3. held[w].limit > 0
    BY <1>1, <1>b, <2>1, <2>2 DEF Basic, HeldOK, Counts
  <2>4. Class(w)' = Class(w)
    BY <2>1, <2>2, <2>3 DEF Class, Counts
  <2> QED
    BY <1>1, <1>2, <1>3, <1>b, <2>1, <2>2, <2>4, WorkerSpends
<1>9. ASSUME NEW w \in Workers, ConsumeNow(w) PROVE Left' <= Bound
  <2>1. /\ Goto(w, "consuming", 0) /\ UNCHANGED <<limiter, held>>
        /\ \/ pc[w] = "reserved" /\ Delay(w) = 0
           \/ pc[w] = "delaying"
    BY <1>9 DEF ConsumeNow, Begin
  <2>2. unsupplied' = unsupplied + 1
    BY <1>2, <1>9, <2>1 DEF ConsumeNow, Begin
  <2>3. pc'[w] = "consuming" /\ \A v \in Workers \ {w} : pc'[v] = pc[v]
    BY <1>4, <2>1
  <2>4. pc[w] = "reserved" => held[w].act <= 0
    BY <1>b, <2>1 DEF Delay
  <2>5. pc[w] = "delaying" => held[w].limit > 0
    BY <1>b, <2>1 DEF HeldOK, Counts
  <2>6. Class(w) \in {"usable", "before"} /\ Class(w)' = "none"
    BY <2>1, <2>3, <2>4, <2>5 DEF Class, Counts
  <2> QED
    BY <1>1, <1>2, <1>3, <1>b, <2>1, <2>2, <2>3, <2>6, WorkerSpends
<1>10. ASSUME NEW w \in Workers, Interrupt(w) PROVE Left' <= Bound
  <2>1. /\ Goto(w, "cancelling", 0) /\ UNCHANGED <<limiter, held, unsupplied>>
        /\ pc[w] = "delaying"
    BY <1>10 DEF Interrupt, history
  <2>2. pc'[w] = "cancelling" /\ \A v \in Workers \ {w} : pc'[v] = pc[v]
    BY <1>4, <2>1
  <2>3. Class(w)' = Class(w)
    BY <2>1, <2>2 DEF Class, Counts
  <2> QED
    BY <1>1, <1>2, <1>3, <1>b, <2>1, <2>2, <2>3, WorkerSpends
<1>11. ASSUME NEW w \in Workers, CancelReservation(w) PROVE Left' <= Bound
  <2>1. /\ Goto(w, "idle", Second) /\ UNCHANGED <<held, unsupplied>>
        /\ limiter' = Cancelled(limiter, held[w].act, held[w].limit)
        /\ pc[w] = "cancelling"
    BY <1>11 DEF CancelReservation, history
  <2>2. pc'[w] = "idle" /\ \A v \in Workers \ {w} : pc'[v] = pc[v]
    BY <1>4, <2>1
  <2>3. /\ limiter'.limit = limiter.limit
        /\ held[w].limit <= 0 => limiter'.tokens <= limiter.tokens + Token
    BY <1>b, <2>1, CancelledNumeric
  <2>4. Class(w)' = "none" /\ Class(w) \in {"owed", "before"}
    BY <2>1, <2>2 DEF Class, Counts
  <2>5. Class(w) = "owed" => held[w].limit <= 0
    BY <1>b DEF Class
  <2> QED
    BY <1>1, <1>2, <1>3, <1>b, <2>1, <2>2, <2>3, <2>4, <2>5, WorkerSpends
<1>12. ASSUME NEW r \in Rates, SetDrainRate(r) PROVE Left' <= Bound
  <2>1. /\ UNCHANGED <<pc, held>> /\ limiter' = [limiter EXCEPT !.limit = r]
        /\ unsupplied' = IF r = limiter.limit THEN unsupplied ELSE 0
    BY <1>12 DEF SetDrainRate, SetLimit
  <2>2. limiter'.tokens = limiter.tokens /\ limiter'.limit = r
    BY <1>b, <2>1 DEF Numeric
  <2>3. \A c : Num(c)' = Num(c)
    BY <2>1 DEF Num, In, Class, Counts
  <2>4. CASE r = limiter.limit
    <3>1. Left' = Left
      BY <2>1, <2>2, <2>3, <2>4 DEF Left
    <3> QED
      BY <1>2, <1>3, <1>a, <2>2, <2>4, <3>1
  <2>5. CASE r # limiter.limit
    <3>1. Left' = Credit(0, limiter'.tokens, Num("usable"), Num("owed"), Num("before"))
      BY <2>1, <2>3, <2>5 DEF Left
    <3>2. limiter'.tokens \in Int
      BY <1>b, <2>2
    <3>3. /\ Refill >= 1 \/ (Num("usable") + Num("owed")) + Num("before") = 0
          /\ Num("usable") \in Nat /\ Num("owed") \in Nat /\ Num("before") \in Nat
      BY <1>1, Worth, NumNat
    <3> QED
      BY <1>b, <3>1, <3>2, <3>3, OneClass, Fresh DEF Bound
  <2> QED
    BY <2>4, <2>5
<1>13. CASE Tick
  <2>1. /\ limiter' = Passed(limiter) \/ limiter' = [Passed(limiter) EXCEPT !.lastEvent = 0]
        /\ UNCHANGED <<pc, unsupplied>>
    BY <1>13 DEF Tick
  <2>2. limiter'.tokens = limiter.tokens /\ limiter'.limit = limiter.limit
    <3>1. limiter.tokens <= Burst * Token
      BY <1>1 DEF Basic, Numbers
    <3>2. /\ limiter'.limit = limiter.limit /\ limiter'.tokens = Passed(limiter).tokens
          /\ limiter.limit <= 0 => Passed(limiter).tokens = limiter.tokens
      BY <1>b, <2>1, <3>1, PassedNumeric
    <3>3. limiter.limit <= 0
      BY <1>2, <1>b, <3>2
    <3> QED
      BY <3>2, <3>3
  <2>3. ASSUME NEW w \in Workers PROVE Class(w)' = Class(w)
    <3>1. Counts(w)' <=> Counts(w)
      BY <2>1 DEF Counts
    <3>2. CASE ~Counts(w)
      BY <3>1, <3>2 DEF Class
    <3>3. CASE Counts(w)
      <4>1. held'[w] = [held[w] EXCEPT !.act = @ - 1] /\ due[w] > -MaxLate
        BY <1>13, <3>3 DEF Tick, Ready, Counts
      <4>2. held'[w].act = held[w].act - 1 /\ held'[w].limit = held[w].limit
        BY <1>b, <4>1
      <4>3. pc[w] = "reserved" /\ held[w].limit <= 0 => held[w].act <= 0 \/ held[w].act > 1
        BY <1>b, <4>1 DEF HeldOK
      <4>4. held[w].limit <= 0 =>
              (pc[w] = "reserved" /\ held[w].act <= 0 <=> pc'[w] = "reserved" /\ held'[w].act <= 0)
        BY <1>b, <2>1, <4>2, <4>3
      <4> QED
        BY <1>b, <3>1, <3>3, <4>2, <4>4 DEF Class
    <3> QED
      BY <3>2, <3>3
  <2>4. \A c : Num(c)' = Num(c)
    <3>1. ASSUME NEW c PROVE In(c)' = In(c)
      BY <2>3 DEF In
    <3> QED
      BY <3>1 DEF Num
  <2>5. Left' = Left
    BY <2>1, <2>2, <2>4 DEF Left
  <2> QED
    BY <1>2, <1>3, <1>a, <2>2, <2>5
<1>14. CASE Stop \/ UNCHANGED vars
  <2>1. UNCHANGED <<limiter, pc, held, unsupplied>>
    BY <1>14 DEF Stop, vars, history
  <2>2. Left' = Left
    BY <2>1 DEF Left, Num, In, Class, Counts
  <2> QED
    BY <1>2, <1>3, <1>a, <2>1, <2>2
<1> QED
  BY <1>5, <1>6, <1>7, <1>8, <1>9, <1>10, <1>11, <1>12, <1>13, <1>14 DEF Next, Worker

(* RateLimiter!NegativeRateEnds: a negative rate ends the supply, whatever   *)
(* was reserved, and at whatever rates, when it was set.                     *)
THEOREM NegativeRateStops == Spec => []NegativeRateEnds
<1>1. SupplyInv => NegativeRateEnds
  <2> SUFFICES ASSUME SupplyInv, limiter.limit < 0
               PROVE  unsupplied <= Burst + Cardinality(Workers) * Refill
    BY DEF NegativeRateEnds
  <2> DEFINE g == Num("usable")  b == Num("owed")  p == Num("before")
             n == Burst + Cardinality(Workers) * Refill
             rest == Top(limiter.tokens + b * Token)
  <2>1. /\ g \in Nat /\ b \in Nat /\ p \in Nat /\ unsupplied \in Nat /\ limiter.tokens \in Int
        /\ n \in Int /\ b * Token \in Int
    BY NumNat, Products DEF SupplyInv, Basic, Numbers, Numeric
  <2>2. (unsupplied + g) * Token + rest + p * (Refill * Token) <= Bound
    BY DEF SupplyInv, Left, Credit
  <2>3. rest \in Int /\ rest >= 0
    <3> HIDE DEF b
    <3> QED
      BY <2>1 DEF Top
  <2>4. p * (Refill * Token) >= 0
    <3>1. Refill >= 1 \/ p = 0
      BY <2>1, Worth DEF SupplyInv
    <3> HIDE DEF p
    <3>2. CASE Refill >= 1
      BY <2>1, <3>2, Products
    <3>3. CASE p = 0
      BY <3>3, Products
    <3> QED
      BY <3>1, <3>2, <3>3
  <2>5. Bound = n * Token
    BY Products DEF Bound
  <2> HIDE DEF g, b, p, n, rest
  <2>6. /\ (unsupplied + g) * Token = unsupplied * Token + g * Token
        /\ g * Token >= 0 /\ unsupplied * Token \in Int /\ g * Token \in Int
        /\ p * (Refill * Token) \in Int /\ n * Token \in Int
    BY <2>1, Products
  <2>7. unsupplied * Token <= n * Token
    BY <2>2, <2>3, <2>4, <2>5, <2>6
  <2>8. unsupplied <= n
    BY <2>1, <2>7, Products
  <2> QED
    BY <2>8 DEF n
<1> QED
  BY SupplyInvInit, SupplyInvStep, <1>1, PTL DEF Spec

-----------------------------------------------------------------------------
(* A standing rate of which a token takes a whole number of ticks: measured  *)
(* in what arrives in a tick, what the limiter computes is whole numbers.  A *)
(* rate that supplies nothing is measured in units.                          *)
Unit(limit) == IF limit > 0 THEN limit ELSE 1
Pace(limit) == IF limit > 0 THEN 1 ELSE 0

LEMMA UnitPositive ==
    ASSUME NEW limit \in Int
    PROVE  Unit(limit) \in Nat \ {0}
BY DEF Unit

LEMMA InUnits ==
    ASSUME NEW e \in Nat \ {0}, NEW x \in Int, NEW y \in Int
    PROVE  /\ x * e \in Int
           /\ (x + y) * e = x * e + y * e /\ (x - y) * e = x * e - y * e
           /\ x * e <= y * e <=> x <= y
<1>1. x * e \in Int /\ y * e \in Int
  OBVIOUS
<1>2. (x + y) * e = x * e + y * e /\ (x - y) * e = x * e - y * e
  OBVIOUS
<1>3. x <= y => x * e <= y * e
  OBVIOUS
<1>4. x >= y + 1 => x * e >= y * e + e
  <2>1. x >= y + 1 => x * e >= (y + 1) * e
    OBVIOUS
  <2> QED
    BY <2>1
<1>5. x <= y \/ x >= y + 1
  OBVIOUS
<1>6. x >= y + 1 => ~(x * e <= y * e)
  BY <1>1, <1>4
<1> QED
  BY <1>1, <1>2, <1>3, <1>5, <1>6

LEMMA RoundUp ==
    ASSUME NEW e \in Nat \ {0}, NEW n \in Int
    PROVE  (n * e + e - 1) \div e = n
<1> DEFINE a == n * e + e - 1
           q == a \div e
           r == a % e
<1>1. a \in Int
  OBVIOUS
<1>2. q \in Int /\ r \in 0 .. e - 1 /\ a = e * q + r
  BY <1>1
<1>3. q * e \in Int /\ n * e \in Int /\ q * e + r = n * e + e - 1
  BY <1>2
<1>4. q <= n
  <2>1. q >= n + 1 => q * e >= (n + 1) * e
    BY <1>2, InUnits
  <2>2. (n + 1) * e = n * e + e
    OBVIOUS
  <2> HIDE DEF q, r, a
  <2> QED
    BY <1>2, <1>3, <2>1, <2>2
<1>5. q >= n
  <2>1. q <= n - 1 => q * e <= (n - 1) * e
    BY <1>2, InUnits
  <2>2. (n - 1) * e = n * e - e
    OBVIOUS
  <2> HIDE DEF q, r, a
  <2> QED
    BY <1>2, <1>3, <2>1, <2>2
<1> HIDE DEF q, r, a
<1>6. q = n
  BY <1>2, <1>4, <1>5
<1> QED
  BY <1>6 DEF q, a

LEMMA CappedInUnits ==
    ASSUME NEW e \in Nat \ {0}, NEW x \in Int, NEW c \in Int
    PROVE  AtMost(x * e, c * e) = AtMost(x, c) * e /\ AtMost(x, c) \in Int
<1>1. x * e <= c * e <=> x <= c
  BY InUnits
<1>2. CASE x <= c
  <2>1. AtMost(x * e, c * e) = x * e /\ AtMost(x, c) = x
    BY <1>1, <1>2, Zenon DEF AtMost
  <2> QED
    BY <2>1
<1>3. CASE ~(x <= c)
  <2>1. AtMost(x * e, c * e) = c * e /\ AtMost(x, c) = c
    BY <1>1, <1>3, Zenon DEF AtMost
  <2> QED
    BY <2>1
<1> QED
  BY <1>2, <1>3

LEMMA SuppliedInUnits ==
    ASSUME NEW limit \in Int, NEW n \in Int
    PROVE  Supplied(limit, n) = (Pace(limit) * n) * Unit(limit)
<1>1. CASE limit <= 0
  <2>1. Pace(limit) = 0 /\ Supplied(limit, n) = 0 /\ Unit(limit) = 1
    BY <1>1 DEF Pace, Supplied, Unit
  <2> QED
    BY <2>1
<1>2. CASE limit > 0
  <2>1. Pace(limit) = 1 /\ Supplied(limit, n) = limit * n /\ Unit(limit) = limit
    BY <1>2 DEF Pace, Supplied, Unit
  <2>2. limit * n = n * limit /\ 1 * n = n
    OBVIOUS
  <2> QED
    BY <2>1, <2>2
<1> QED
  BY <1>1, <1>2

(* The limiter with z tokens of which a token takes K ticks.                 *)
Holds(l, z, K) ==
    /\ Numeric(l) /\ z \in Int /\ K \in Nat \ {0}
    /\ Token = K * Unit(l.limit) /\ l.tokens = z * Unit(l.limit)

LEMMA WaitInUnits ==
    ASSUME NEW l, NEW z, NEW K, Holds(l, z, K)
    PROVE  Wait(l) = IF z >= K THEN 0 ELSE IF l.limit > 0 THEN K - z ELSE Never
<1> DEFINE e == Unit(l.limit)
<1>1. /\ z \in Int /\ K \in Int /\ l.limit \in Int /\ e \in Nat \ {0}
      /\ Token = K * e /\ l.tokens = z * e
  BY UnitPositive DEF Holds, Numeric
<1>2. l.tokens >= Token <=> z >= K
  <2> HIDE DEF e
  <2>1. K * e <= z * e <=> K <= z
    BY <1>1, InUnits
  <2>2. K * e \in Int /\ z * e \in Int
    BY <1>1
  <2> QED
    BY <1>1, <2>1, <2>2
<1>3. CASE z >= K
  BY <1>2, <1>3 DEF Wait
<1>4. CASE ~(z >= K) /\ l.limit > 0
  <2>1. e = l.limit
    BY <1>4 DEF Unit
  <2>2. Token - l.tokens = (K - z) * e
    BY <1>1, InUnits
  <2>3. TimeFor(Token - l.tokens, l.limit) = ((K - z) * e + e - 1) \div e
    BY <1>1, <1>4, <2>1, <2>2 DEF TimeFor
  <2>4. K - z \in Int
    BY <1>1
  <2> HIDE DEF e
  <2>5. ((K - z) * e + e - 1) \div e = K - z
    BY <1>1, <2>4, RoundUp
  <2> QED
    BY <1>2, <1>4, <2>3, <2>5 DEF Wait
<1>5. CASE ~(z >= K) /\ ~(l.limit > 0)
  <2>1. TimeFor(Token - l.tokens, l.limit) = Never
    BY <1>1, <1>5 DEF TimeFor
  <2> QED
    BY <1>2, <1>5, <2>1 DEF Wait
<1> QED
  BY <1>3, <1>4, <1>5

LEMMA UpdatedEvent ==
    ASSUME NEW l, Numeric(l), NEW t \in Int, NEW e \in Int
    PROVE  With(l, t, e).lastEvent = e
<1>1. PICK a, b, c \in Int : l = Record(a, b, c)
  BY DEF Numeric, Record
<1>2. [Record(a, b, c) EXCEPT !.tokens = t] = Record(a, t, c)
  BY SMT DEF Record
<1>3. [Record(a, t, c) EXCEPT !.lastEvent = e] = Record(a, t, e)
  BY SMT DEF Record
<1>4. With(l, t, e) = Record(a, t, e)
  BY <1>1, <1>2, <1>3, Zenon DEF With
<1>5. Record(a, t, e).lastEvent = e
  BY DEF Record
<1> QED
  BY <1>4, <1>5, Zenon

LEMMA ReservedInUnits ==
    ASSUME NEW l, NEW z, NEW K, Holds(l, z, K)
    PROVE  /\ Holds(Reserved(l), z - K, K) /\ Reserved(l).limit = l.limit
           /\ Reserved(l).lastEvent = Wait(l)
<1>1. Numeric(l) /\ z \in Int /\ K \in Int /\ l.limit \in Int /\ l.tokens \in Int
  BY DEF Holds, Numeric
<1>2. /\ Numeric(Reserved(l)) /\ Reserved(l).limit = l.limit
      /\ Reserved(l).tokens = l.tokens - Token
  BY <1>1, ReservedNumeric
<1>3. (z - K) * Unit(l.limit) = z * Unit(l.limit) - K * Unit(l.limit)
  BY <1>1, UnitPositive, InUnits
<1>4. Reserved(l).lastEvent = Wait(l)
  <2>1. l.tokens - Token \in Int /\ Wait(l) \in Int
    BY <1>1, WaitInt
  <2>2. Reserved(l) = With(l, l.tokens - Token, Wait(l))
    BY Zenon DEF Reserved, With
  <2> QED
    BY <1>1, <2>1, <2>2, UpdatedEvent
<1> QED
  BY <1>1, <1>2, <1>3, <1>4 DEF Holds

LEMMA PassedInUnits ==
    ASSUME NEW l, NEW z, NEW K, Holds(l, z, K), l.tokens <= Burst * Token
    PROVE  LET now == AtMost(z + Pace(l.limit), Burst * K) IN
           /\ Holds(Passed(l), now, K) /\ Holds([Passed(l) EXCEPT !.lastEvent = 0], now, K)
           /\ Passed(l).limit = l.limit /\ [Passed(l) EXCEPT !.lastEvent = 0].limit = l.limit
           /\ Passed(l).lastEvent = l.lastEvent - 1
<1> DEFINE e == Unit(l.limit)
           now == AtMost(z + Pace(l.limit), Burst * K)
           t == AtMost(l.tokens + Supplied(l.limit, 1), Burst * Token)
<1>1. /\ Numeric(l) /\ z \in Int /\ K \in Nat \ {0} /\ l.limit \in Int /\ e \in Nat \ {0}
      /\ Token = K * e /\ l.tokens = z * e /\ l.lastEvent \in Int
  BY UnitPositive DEF Holds, Numeric
<1>2. t = now * e /\ now \in Int
  <2>1. Pace(l.limit) \in Int /\ Pace(l.limit) * 1 = Pace(l.limit)
    BY DEF Pace
  <2>2. Supplied(l.limit, 1) = Pace(l.limit) * e
    BY <1>1, <2>1, SuppliedInUnits
  <2>3. l.tokens + Supplied(l.limit, 1) = (z + Pace(l.limit)) * e
    BY <1>1, <2>1, <2>2, InUnits
  <2>4. Burst * Token = (Burst * K) * e
    <3> HIDE DEF e
    <3> QED
      BY <1>1
  <2>5. z + Pace(l.limit) \in Int /\ Burst * K \in Int
    BY <1>1, <2>1
  <2>6. AtMost((z + Pace(l.limit)) * e, (Burst * K) * e) = now * e /\ now \in Int
    <3> HIDE DEF e
    <3> QED
      BY <1>1, <2>5, CappedInUnits
  <2> QED
    BY <2>3, <2>4, <2>6, Zenon
<1>3. Passed(l) = With(l, t, l.lastEvent - 1)
  BY Zenon DEF Passed, With
<1>4. t \in Int /\ l.lastEvent - 1 \in Int
  <2> HIDE DEF t, now, e
  <2> QED
    BY <1>1, <1>2
<1>5. Passed(l).tokens = t /\ Passed(l).lastEvent = l.lastEvent - 1
  BY <1>1, <1>3, <1>4, Updated, UpdatedEvent
<1>6. /\ Numeric(Passed(l)) /\ Numeric([Passed(l) EXCEPT !.lastEvent = 0])
      /\ Passed(l).limit = l.limit /\ [Passed(l) EXCEPT !.lastEvent = 0].limit = l.limit
      /\ [Passed(l) EXCEPT !.lastEvent = 0].tokens = Passed(l).tokens
  BY <1>1, PassedNumeric
<1> HIDE DEF t, now
<1>7. Holds(Passed(l), now, K) /\ Holds([Passed(l) EXCEPT !.lastEvent = 0], now, K)
  BY <1>1, <1>2, <1>5, <1>6, Zenon DEF Holds
<1> QED
  BY <1>5, <1>6, <1>7 DEF now

(* What is given back, in ticks: all but what was reserved since.            *)
Back(l, act, K) == K - Pace(l.limit) * (l.lastEvent - act)

(* When the reservation before it was due, in ticks.                         *)
Before(l, act, K) == IF l.limit <= 0 THEN act + Never ELSE act - K

LEMMA CancelledInUnits ==
    ASSUME NEW l, NEW z, NEW K, Holds(l, z, K), NEW act \in Int
    PROVE  \/ Cancelled(l, act, l.limit) = l
           \/ \E now \in Int :
                /\ act >= 0 /\ Back(l, act, K) > 0 /\ now <= z + Back(l, act, K)
                /\ Holds(Cancelled(l, act, l.limit), now, K)
                /\ Cancelled(l, act, l.limit).limit = l.limit
                /\ Cancelled(l, act, l.limit).lastEvent =
                     IF act = l.lastEvent /\ Before(l, act, K) >= 0
                     THEN Before(l, act, K) ELSE l.lastEvent
<1> DEFINE e == Unit(l.limit)
           b == Back(l, act, K)
           last == l.lastEvent
           gone == last - act
           now == AtMost(z + b, Burst * K)
           t == AtMost(l.tokens + Restored(l, act, l.limit), Burst * Token)
           f == IF act = last /\ Before(l, act, K) >= 0 THEN Before(l, act, K) ELSE last
           g == IF act = last /\ EventBefore(act, l.limit) >= 0
                THEN EventBefore(act, l.limit) ELSE last
<1>1. /\ Numeric(l) /\ z \in Int /\ K \in Nat \ {0} /\ l.limit \in Int /\ e \in Nat \ {0}
      /\ Token = K * e /\ l.tokens = z * e /\ last \in Int /\ gone \in Int
  BY UnitPositive DEF Holds, Numeric
<1>2. Restored(l, act, l.limit) = b * e /\ b \in Int
  <2>1. Pace(l.limit) * gone \in Int
    BY <1>1 DEF Pace
  <2>2. Supplied(l.limit, gone) = (Pace(l.limit) * gone) * e
    BY <1>1, SuppliedInUnits
  <2>3. b = K - Pace(l.limit) * gone
    BY DEF Back
  <2>4. Restored(l, act, l.limit) = Token - Supplied(l.limit, gone)
    BY DEF Restored
  <2> HIDE DEF b, e, gone
  <2> QED
    BY <1>1, <2>1, <2>2, <2>3, <2>4, InUnits
<1>3. b * e <= 0 <=> b <= 0
  <2>1. 0 * e = 0
    BY <1>1
  <2> HIDE DEF b, e
  <2> QED
    BY <1>1, <1>2, <2>1, InUnits
<1>4. t = now * e /\ now \in Int /\ now <= z + b
  <2>1. l.tokens + Restored(l, act, l.limit) = (z + b) * e
    <3> HIDE DEF b, e
    <3> QED
      BY <1>1, <1>2, InUnits
  <2>2. Burst * Token = (Burst * K) * e
    <3> HIDE DEF e
    <3> QED
      BY <1>1
  <2>3. z + b \in Int /\ Burst * K \in Int
    <3> HIDE DEF b
    <3> QED
      BY <1>1, <1>2
  <2>4. t = now * e /\ now \in Int
    <3>1. AtMost((z + b) * e, (Burst * K) * e) = now * e /\ now \in Int
      <4> HIDE DEF b, e
      <4> QED
        BY <1>1, <2>3, CappedInUnits
    <3> QED
      BY <2>1, <2>2, <3>1, Zenon
  <2>5. now <= z + b
    <3> HIDE DEF b
    <3> QED
      BY <2>3 DEF AtMost
  <2> QED
    BY <2>4, <2>5
<1>5. l.limit > 0 => TimeFor(Token, l.limit) = K
  <2>1. l.limit > 0 => e = l.limit /\ TimeFor(Token, l.limit) = (K * e + e - 1) \div e
    BY <1>1 DEF Unit, TimeFor
  <2> HIDE DEF e
  <2>2. (K * e + e - 1) \div e = K
    BY <1>1, RoundUp
  <2> QED
    BY <2>1, <2>2
<1>6. g = f
  BY <1>1, <1>5 DEF EventBefore, Before
<1>7. f \in Int
  BY <1>1 DEF Before
<1>8. CASE act < 0 \/ b <= 0
  <2> HIDE DEF b, e
  <2>1. Cancelled(l, act, l.limit) = l
    BY <1>2, <1>3, <1>8 DEF Cancelled
  <2> QED
    BY <2>1
<1>9. CASE ~(act < 0 \/ b <= 0)
  <2>1. Cancelled(l, act, l.limit) = With(l, t, g)
    <3>1. ~(act < 0 \/ Restored(l, act, l.limit) <= 0)
      <4> HIDE DEF b, e
      <4> QED
        BY <1>2, <1>3, <1>9
    <3> QED
      BY <3>1, Zenon DEF Cancelled, With
  <2> HIDE DEF b, e, now, t, f, g, last
  <2>2. Cancelled(l, act, l.limit) = With(l, t, f) /\ t \in Int
    BY <1>1, <1>4, <1>6, <2>1
  <2>3. /\ Numeric(With(l, t, f)) /\ With(l, t, f).limit = l.limit
        /\ With(l, t, f).tokens = t /\ With(l, t, f).lastEvent = f
    BY <1>1, <1>7, <2>2, Updated, UpdatedEvent
  <2>4. Holds(With(l, t, f), now, K)
    BY <1>1, <1>4, <2>3 DEF Holds, e
  <2>5. act >= 0 /\ b > 0
    BY <1>2, <1>9
  <2>6. /\ act >= 0 /\ b > 0 /\ now <= z + b /\ now \in Int
        /\ Holds(Cancelled(l, act, l.limit), now, K)
        /\ Cancelled(l, act, l.limit).limit = l.limit
        /\ Cancelled(l, act, l.limit).lastEvent = f
    BY <1>4, <2>2, <2>3, <2>4, <2>5, Zenon
  <2> QED
    BY <2>6, Zenon DEF b, f, last
<1> QED
  BY <1>8, <1>9

-----------------------------------------------------------------------------
(* What may still be consumed at a standing rate covers, at each moment to   *)
(* come, the reservations due by then.  It stays so because a reservation is *)
(* due when the tokens short of have arrived, and because one given back     *)
(* restores no more than it took, nor anything that a later one relies on:   *)
(* those that may be given back are due a token's time apart, and none after *)
(* the last.  With more than one token saved that is not so once Stop has    *)
(* cancelled the context: reservations that were due at once, on saved       *)
(* tokens, are given back too, in any order.                                 *)
Orderly  == ~cancelled \/ Burst <= 1
Standing == steady /\ Exact(limiter.limit) /\ Orderly

Counted   == {w \in Workers : Counts(w)}
Usable(w) == pc[w] \in {"reserved", "delaying"}
DueBy(n)  == {w \in Workers : Usable(w) /\ held[w].act <= n}

(* A reservation that is given back, or may be.                              *)
InLine(w) == Counts(w) /\ (pc[w] = "cancelling" \/ held[w].act > 0 \/ Burst <= 1)

Covered(a, z, K) == a >= z + K * Cardinality(Counted)
Timely(a, K) ==
    \A n \in Nat : n = 0 \/ limiter.limit > 0 => a + n >= K * Cardinality(DueBy(n))
Waited(w) ==
    /\ Counts(w) => held[w].limit = limiter.limit
    /\ pc[w] = "delaying" => due[w] >= held[w].act
InTime(w, z) == held[w].act <= -z /\ held[w].act <= limiter.lastEvent
Apart(v, w, K) == held[v].act >= held[w].act + K \/ held[w].act >= held[v].act + K
Queued(z, K) ==
    limiter.limit > 0 => \A w \in Workers : InLine(w) =>
        /\ InTime(w, z)
        /\ \A v \in Workers \ {w} : InLine(v) => Apart(v, w, K)

Ledger(a, z, K) ==
    /\ Holds(limiter, z, K)
    /\ a \in Int /\ allowance = a * Unit(limiter.limit)
    /\ Covered(a, z, K) /\ Timely(a, K) /\ Queued(z, K)
    /\ \A w \in Workers : Waited(w)

DrainInv == Basic /\ (Standing => \E a, z, K : Ledger(a, z, K))

LEMMA Counting ==
    /\ Counted \in SUBSET Workers /\ Cardinality(Counted) \in Nat
    /\ Cardinality(Counted) <= Cardinality(Workers)
    /\ \A n : /\ DueBy(n) \in SUBSET Workers /\ Cardinality(DueBy(n)) \in Nat
              /\ Cardinality(DueBy(n)) <= Cardinality(Counted)
<1>1. Counted \in SUBSET Workers
  BY DEF Counted
<1>2. IsFiniteSet(Counted) /\ Cardinality(Counted) \in Nat
  BY <1>1, FS_Subset, FS_CardinalityType
<1>3. Cardinality(Counted) <= Cardinality(Workers)
  BY <1>1, FS_Subset
<1>4. ASSUME NEW n
      PROVE  /\ DueBy(n) \in SUBSET Workers /\ Cardinality(DueBy(n)) \in Nat
             /\ Cardinality(DueBy(n)) <= Cardinality(Counted)
  <2>1. DueBy(n) \subseteq Counted
    BY DEF DueBy, Counted, Usable, Counts
  <2> QED
    BY <1>1, <1>2, <2>1, FS_Subset, FS_CardinalityType
<1> QED
  BY <1>1, <1>2, <1>3, <1>4

LEMMA Multiples ==
    ASSUME NEW K \in Nat \ {0}, NEW n \in Nat, NEW m \in Nat
    PROVE  /\ K * n \in Nat /\ K * (n + 1) = K * n + K
           /\ m = n - 1 => K * m = K * n - K
           /\ m <= n => K * m <= K * n
<1>1. K * n \in Nat /\ K * (n + 1) = K * n + K /\ K * (n - 1) = K * n - K
  OBVIOUS
<1>2. m <= n => K * m <= K * n
  <2>1. m <= n => K * (n - m) >= 0 /\ K * (n - m) = K * n - K * m
    OBVIOUS
  <2>2. K * m \in Int
    OBVIOUS
  <2> QED
    BY <1>1, <2>1, <2>2
<1> QED
  BY <1>1, <1>2

LEMMA InitDrain == Init => DrainInv
<1> SUFFICES ASSUME Init PROVE DrainInv
  OBVIOUS
<1>1. Basic
  BY InitBasic
<1>2. PICK r \in Rates : limiter = NewLimiter(r)
  BY DEF Init
<1>3. /\ limiter.limit = r /\ limiter.tokens = Burst * Token /\ limiter.lastEvent = 0
      /\ r \in Int /\ Numeric(limiter)
  BY <1>1, <1>2 DEF NewLimiter, Basic, Numbers
<1>4. \A w \in Workers : pc[w] \in {"top", "stopped"}
  BY DEF Init
<1>5. SUFFICES ASSUME Standing PROVE \E a, z, K : Ledger(a, z, K)
  BY <1>1 DEF DrainInv
<1>6. PICK K \in Nat \ {0} : Token = K * Unit(r)
  <2>1. CASE r <= 0
    <3>1. Unit(r) = 1 /\ Token * 1 = Token
      BY <1>3, <2>1 DEF Unit
    <3> QED
      BY <3>1
  <2>2. CASE ~(r <= 0)
    <3>1. Exact(r)
      BY <1>3, <1>5 DEF Standing
    <3>2. r \in Nat \ {0} /\ Unit(r) = r
      BY <1>3, <2>2 DEF Unit
    <3>3. Token % r = 0
      BY <2>2, <3>1 DEF Exact
    <3> DEFINE q == Token \div r
    <3>4. q \in Int /\ Token = r * q + (Token % r)
      BY <3>2
    <3> HIDE DEF q
    <3>5. Token = q * r
      BY <3>2, <3>3, <3>4
    <3>6. q > 0
      <4>1. q <= 0 => q * r <= 0 * r
        BY <3>2, <3>4, InUnits
      <4> QED
        BY <3>2, <3>4, <3>5, <4>1
    <3> QED
      BY <3>2, <3>4, <3>5, <3>6
  <2> QED
    BY <2>1, <2>2
<1> DEFINE W == Cardinality(Workers)
           z == Burst * K
           a == z + W * K
<1>7. W \in Nat /\ z \in Nat /\ W * K \in Nat /\ a \in Int
  BY Products
<1>8. Counted = {} /\ \A n : DueBy(n) = {}
  BY <1>4 DEF Counted, DueBy, Counts, Usable
<1>9. Cardinality({}) = 0
  BY FS_EmptySet
<1>10. Holds(limiter, z, K)
  <2>1. Burst * (K * Unit(r)) = z * Unit(r)
    BY <1>3, UnitPositive
  <2> QED
    BY <1>3, <1>6, <1>7, <2>1 DEF Holds
<1>11. allowance = a * Unit(r)
  <2>1. allowance = (Burst + W) * Token
    BY DEF Init, Depth
  <2>2. (Burst + W) * (K * Unit(r)) = (Burst * K + W * K) * Unit(r)
    BY <1>3, <1>7, UnitPositive
  <2> QED
    BY <1>6, <2>1, <2>2
<1>12. Covered(a, z, K) /\ Timely(a, K)
  <2>1. K * 0 = 0
    OBVIOUS
  <2> HIDE DEF z, W
  <2>2. a >= z + 0 /\ \A n \in Nat : a + n >= 0
    BY <1>7
  <2> HIDE DEF a
  <2> QED
    BY <1>8, <1>9, <2>1, <2>2, Zenon DEF Covered, Timely
<1>13. Queued(z, K) /\ \A w \in Workers : Waited(w)
  BY <1>4 DEF Queued, InLine, Waited, Counts
<1> HIDE DEF a, z
<1>14. Ledger(a, z, K)
  BY <1>3, <1>7, <1>10, <1>11, <1>12, <1>13 DEF Ledger
<1> QED
  BY <1>14

(* A step of one worker: what the others hold is as it was.                  *)
Aside(w) == \A v \in Workers \ {w} : /\ pc'[v] = pc[v] /\ due'[v] = due[v]
                                     /\ held'[v] = held[v]

LEMMA OthersCount ==
    ASSUME NEW w \in Workers, Aside(w)
    PROVE  /\ \A v \in Workers \ {w} : /\ v \in Counted <=> v \in Counted'
                                       /\ InLine(v)' <=> InLine(v)
                                       /\ \A n : v \in DueBy(n) <=> v \in DueBy(n)'
           /\ \A v \in Workers : /\ v \in Counted <=> Counts(v)
                                 /\ v \in Counted' <=> Counts(v)'
<1> USE DEF Aside
<1>1. ASSUME NEW v \in Workers \ {w}
      PROVE  /\ v \in Counted <=> v \in Counted'
             /\ InLine(v)' <=> InLine(v)
  BY DEF Counted, Counts, InLine
<1>2. ASSUME NEW v \in Workers \ {w}, NEW n
      PROVE  v \in DueBy(n) <=> v \in DueBy(n)'
  BY DEF DueBy, Usable
<1>3. ASSUME NEW v \in Workers
      PROVE  (v \in Counted <=> Counts(v)) /\ (v \in Counted' <=> Counts(v)')
  BY DEF Counted
<1> QED
  BY <1>1, <1>2, <1>3

LEMMA CoveredStep ==
    ASSUME NEW w \in Workers, Aside(w),
           NEW a \in Int, NEW z \in Int, NEW b \in Int, NEW y \in Int, NEW K \in Nat \ {0},
           Covered(a, z, K),
           \/ (Counts(w) <=> Counts(w)') /\ b - y >= a - z
           \/ Counts(w) /\ ~Counts(w)' /\ (b - y) + K >= a - z
           \/ ~Counts(w) /\ Counts(w)' /\ b - y >= (a - z) + K
    PROVE  Covered(b, y, K)'
<1> DEFINE n == Cardinality(Counted)
           m == Cardinality(Counted')
<1>1. /\ n \in Nat /\ m \in Nat
      /\ (Counts(w) <=> Counts(w)') => m = n
      /\ ~Counts(w) /\ Counts(w)' => m = n + 1
      /\ Counts(w) /\ ~Counts(w)' => m = n - 1
  <2>1. Counted \in SUBSET Workers /\ Counted' \in SUBSET Workers
    BY DEF Counted
  <2>2. \A v \in Workers \ {w} : v \in Counted <=> v \in Counted'
    BY OthersCount
  <2>3. (w \in Counted <=> Counts(w)) /\ (w \in Counted' <=> Counts(w)')
    BY OthersCount
  <2> QED
    BY <2>1, <2>2, <2>3, CountChange
<1>2. a >= z + K * n
  BY DEF Covered
<1>3. SUFFICES b >= y + K * m
  BY DEF Covered
<1> HIDE DEF n, m
<1>4. /\ K * n \in Nat /\ K * m \in Nat
      /\ m = n => K * m = K * n
      /\ m = n + 1 => K * m = K * n + K
      /\ m = n - 1 => K * m = K * n - K
  BY <1>1, Multiples
<1> HIDE <1>3
<1> QED
  BY <1>1, <1>2, <1>4

LEMMA TimelyStep ==
    ASSUME NEW w \in Workers, Aside(w), limiter'.limit = limiter.limit,
           NEW a \in Int, NEW b \in Int, NEW K \in Nat \ {0},
           Timely(a, K),
           \/ b >= a /\ \A n \in Nat : w \in DueBy(n)' => w \in DueBy(n)
           \/ b >= a - K /\ \A n \in Nat : w \in DueBy(n) /\ w \notin DueBy(n)'
    PROVE  Timely(b, K)'
<1> SUFFICES ASSUME NEW n \in Nat, n = 0 \/ limiter.limit > 0
             PROVE  b + n >= K * Cardinality(DueBy(n)')
  BY Zenon DEF Timely
<1> DEFINE d == Cardinality(DueBy(n))
           c == Cardinality(DueBy(n)')
<1>1. /\ d \in Nat /\ c \in Nat
      /\ (w \in DueBy(n)' => w \in DueBy(n)) => c <= d
      /\ w \in DueBy(n) /\ w \notin DueBy(n)' => c = d - 1
  <2>1. DueBy(n) \in SUBSET Workers /\ DueBy(n)' \in SUBSET Workers
    BY DEF DueBy
  <2>2. \A v \in Workers \ {w} : v \in DueBy(n) <=> v \in DueBy(n)'
    BY OthersCount
  <2>3. /\ d \in Nat /\ c \in Nat
        /\ (w \in DueBy(n) <=> w \in DueBy(n)') => c = d
        /\ w \in DueBy(n) /\ w \notin DueBy(n)' => c = d - 1
    BY <2>1, <2>2, CountChange
  <2> HIDE DEF c, d
  <2> QED
    BY <2>3
<1>2. a + n >= K * d
  BY Zenon DEF Timely
<1> HIDE DEF c, d
<1>3. /\ K * d \in Nat /\ K * c \in Nat
      /\ c = d - 1 => K * c = K * d - K
      /\ c <= d => K * c <= K * d
  BY <1>1, Multiples
<1>4. b + n >= K * c
  BY <1>1, <1>2, <1>3
<1> QED
  BY <1>4 DEF c

LEMMA QueuedKept ==
    ASSUME NEW w \in Workers, Aside(w), limiter' = limiter, NEW z, NEW K, Queued(z, K),
           InLine(w)' => InLine(w) /\ held'[w] = held[w]
    PROVE  Queued(z, K)'
<1> SUFFICES ASSUME limiter.limit > 0, NEW v \in Workers, InLine(v)'
             PROVE  /\ InTime(v, z)'
                    /\ \A u \in Workers \ {v} : InLine(u)' => Apart(u, v, K)'
  BY Zenon DEF Queued
<1>1. \A u \in Workers : InLine(u)' => InLine(u) /\ held'[u] = held[u]
  BY OthersCount DEF Aside
<1>2. /\ InTime(v, z)
      /\ \A u \in Workers \ {v} : InLine(u) => Apart(u, v, K)
  BY <1>1, Zenon DEF Queued
<1>3. InTime(v, z)'
  BY <1>1, <1>2 DEF InTime
<1>4. ASSUME NEW u \in Workers \ {v}, InLine(u)' PROVE Apart(u, v, K)'
  BY <1>1, <1>2, <1>4 DEF Apart
<1> QED
  BY <1>3, <1>4

(* A step in which nothing is taken, begun or given back.                    *)
LEMMA QuietLedger ==
    ASSUME NEW w \in Workers, Aside(w), limiter' = limiter, allowance' = allowance,
           NEW a, NEW z, NEW K, Ledger(a, z, K),
           Counts(w)' => Counts(w),
           \A n \in Nat : w \in DueBy(n)' => w \in DueBy(n),
           InLine(w)' => InLine(w) /\ held'[w] = held[w],
           Waited(w)'
    PROVE  Ledger(a, z, K)'
<1>1. /\ Holds(limiter, z, K) /\ a \in Int /\ z \in Int /\ K \in Nat \ {0}
      /\ allowance = a * Unit(limiter.limit)
      /\ Covered(a, z, K) /\ Timely(a, K) /\ Queued(z, K)
      /\ \A v \in Workers : Waited(v)
  BY DEF Ledger, Holds
<1>2. Covered(a, z, K)'
  <2>1. \/ (Counts(w) <=> Counts(w)') /\ a - z >= a - z
        \/ Counts(w) /\ ~Counts(w)' /\ (a - z) + K >= a - z
    BY <1>1
  <2> QED
    BY <1>1, <2>1, CoveredStep
<1>3. Timely(a, K)'
  <2>1. a >= a
    BY <1>1
  <2> QED
    BY <1>1, <2>1, TimelyStep
<1>4. Queued(z, K)'
  BY <1>1, QueuedKept
<1>5. \A v \in Workers : Waited(v)'
  BY <1>1 DEF Aside, Waited, Counts
<1> QED
  BY <1>1, <1>2, <1>3, <1>4, <1>5, Zenon DEF Ledger

LEMMA BasicFacts ==
    ASSUME Basic
    PROVE  /\ Numeric(limiter) /\ limiter.limit \in Int /\ limiter.lastEvent \in Int
           /\ limiter.tokens <= Burst * Token
           /\ \A w \in Workers : held[w].act \in Int /\ due[w] \in Int /\ HeldOK(w)
           /\ \A w \in Workers : \A label, delay :
                Goto(w, label, delay) =>
                  /\ pc'[w] = label /\ due'[w] = delay
                  /\ \A v \in Workers \ {w} : pc'[v] = pc[v] /\ due'[v] = due[v]
           /\ \A w \in Workers : \A r :
                held' = [held EXCEPT ![w] = r] =>
                  held'[w] = r /\ \A v \in Workers \ {w} : held'[v] = held[v]
<1>1. /\ Numeric(limiter) /\ limiter.tokens <= Burst * Token
      /\ \A w \in Workers : HeldOK(w)
      /\ DOMAIN pc = Workers /\ due \in [Workers -> Int]
      /\ held \in [Workers -> [act : Int, limit : Int]]
  BY DEF Basic, Numbers
<1>2. limiter.limit \in Int /\ limiter.lastEvent \in Int
  BY <1>1 DEF Numeric
<1>3. \A w \in Workers : held[w].act \in Int /\ due[w] \in Int
  BY <1>1
<1>4. ASSUME NEW w \in Workers, NEW label, NEW delay, Goto(w, label, delay)
      PROVE  /\ pc'[w] = label /\ due'[w] = delay
             /\ \A v \in Workers \ {w} : pc'[v] = pc[v] /\ due'[v] = due[v]
  BY <1>1, <1>4 DEF Goto
<1>5. ASSUME NEW w \in Workers, NEW r, held' = [held EXCEPT ![w] = r]
      PROVE  held'[w] = r /\ \A v \in Workers \ {w} : held'[v] = held[v]
  BY <1>1, <1>5
<1> QED
  BY <1>1, <1>2, <1>3, <1>4, <1>5, Zenon

LEMMA LedgerFacts ==
    ASSUME NEW a, NEW z, NEW K, Ledger(a, z, K)
    PROVE  /\ Holds(limiter, z, K) /\ a \in Int /\ z \in Int /\ K \in Nat \ {0}
           /\ Unit(limiter.limit) \in Nat \ {0} /\ Token = K * Unit(limiter.limit)
           /\ allowance = a * Unit(limiter.limit)
           /\ Covered(a, z, K) /\ Timely(a, K) /\ Queued(z, K)
           /\ \A w \in Workers : Waited(w)
           /\ a >= 0 /\ allowance >= 0
<1>1. /\ Holds(limiter, z, K) /\ a \in Int /\ z \in Int /\ K \in Nat \ {0}
      /\ Token = K * Unit(limiter.limit)
      /\ allowance = a * Unit(limiter.limit)
      /\ Covered(a, z, K) /\ Timely(a, K) /\ Queued(z, K)
      /\ \A w \in Workers : Waited(w)
  BY DEF Ledger, Holds
<1>2. Unit(limiter.limit) \in Nat \ {0}
  BY <1>1, UnitPositive DEF Holds, Numeric
<1>3. a >= 0
  <2>1. a + 0 >= K * Cardinality(DueBy(0))
    BY <1>1 DEF Timely
  <2>2. K * Cardinality(DueBy(0)) \in Nat
    BY <1>1, Counting, Multiples
  <2> QED
    BY <1>1, <2>1, <2>2
<1>4. allowance >= 0
  <2>1. 0 * Unit(limiter.limit) = 0 /\ 0 * Unit(limiter.limit) <= a * Unit(limiter.limit)
    BY <1>1, <1>2, <1>3, InUnits
  <2>2. a * Unit(limiter.limit) \in Int
    BY <1>1, <1>2, InUnits
  <2> QED
    BY <1>1, <2>1, <2>2
<1> QED
  BY <1>1, <1>2, <1>3, <1>4

LEMMA ConsumeLedger ==
    ASSUME Basic, steady, NEW w \in Workers, ConsumeNow(w),
           NEW a, NEW z, NEW K, Ledger(a, z, K)
    PROVE  Ledger(a - K, z, K)'
<1>1. /\ Holds(limiter, z, K) /\ a \in Int /\ z \in Int /\ K \in Nat \ {0}
      /\ Covered(a, z, K) /\ Timely(a, K) /\ Queued(z, K)
      /\ \A v \in Workers : Waited(v)
  BY LedgerFacts
<1>2. /\ limiter' = limiter /\ held' = held /\ Goto(w, "consuming", 0)
      /\ \/ pc[w] = "reserved" /\ Delay(w) = 0
         \/ pc[w] = "delaying" /\ due[w] <= 0
      /\ allowance' = IF steady /\ allowance >= 0 THEN allowance - Token ELSE allowance
  BY DEF ConsumeNow, Begin
<1>3. pc'[w] = "consuming" /\ Aside(w)
  BY <1>2, BasicFacts DEF Aside
<1>4. a - K \in Int /\ allowance' = (a - K) * Unit(limiter.limit)
  <2>1. (a - K) * Unit(limiter.limit) = a * Unit(limiter.limit) - K * Unit(limiter.limit)
    BY <1>1, LedgerFacts, InUnits
  <2>2. allowance' = allowance - Token
    BY <1>2, LedgerFacts
  <2> QED
    BY <1>1, <2>1, <2>2, LedgerFacts
<1>5. Covered(a - K, z, K)'
  <2>1. Counts(w) /\ ~Counts(w)'
    BY <1>2, <1>3 DEF Counts
  <2>2. ((a - K) - z) + K >= a - z
    BY <1>1
  <2> QED
    BY <1>1, <1>3, <1>4, <2>1, <2>2, CoveredStep
<1>6. Timely(a - K, K)'
  <2>1. held[w].act <= 0
    <3>1. CASE pc[w] = "reserved" /\ Delay(w) = 0
      BY <3>1, BasicFacts DEF Delay
    <3>2. CASE pc[w] = "delaying" /\ due[w] <= 0
      BY <1>1, <3>2, BasicFacts DEF Waited
    <3> QED
      BY <1>2, <3>1, <3>2
  <2>2. \A n \in Nat : held[w].act <= n
    BY <2>1, BasicFacts
  <2>3. \A n \in Nat : w \in DueBy(n) /\ w \notin DueBy(n)'
    BY <1>2, <1>3, <2>2 DEF DueBy, Usable
  <2>4. a - K >= a - K
    BY <1>4
  <2> QED
    BY <1>1, <1>2, <1>3, <1>4, <2>3, <2>4, TimelyStep
<1>7. Queued(z, K)'
  <2>1. ~InLine(w)'
    BY <1>3 DEF InLine, Counts
  <2> QED
    BY <1>1, <1>2, <1>3, <2>1, QueuedKept
<1>8. \A v \in Workers : Waited(v)'
  BY <1>1, <1>2, <1>3 DEF Aside, Waited, Counts
<1> QED
  BY <1>1, <1>2, <1>4, <1>5, <1>6, <1>7, <1>8, Zenon DEF Ledger

(* A reservation is due when what the limiter is short of has arrived.       *)
LEMMA ReserveLedger ==
    ASSUME Basic, NEW w \in Workers, Reserve(w), Burst >= 1,
           NEW a, NEW z, NEW K, Ledger(a, z, K)
    PROVE  Ledger(a, z - K, K)'
<1> DEFINE x == Wait(limiter)
           r == [act |-> x, limit |-> limiter.limit]
<1>1. /\ Holds(limiter, z, K) /\ a \in Int /\ z \in Int /\ K \in Nat \ {0}
      /\ Covered(a, z, K) /\ Timely(a, K) /\ Queued(z, K)
      /\ \A v \in Workers : Waited(v)
  BY LedgerFacts
<1>2. /\ pc[w] = "checked" /\ limiter' = Reserved(limiter)
      /\ held' = [held EXCEPT ![w] = r]
      /\ Goto(w, "reserved", 0) /\ allowance' = allowance
  BY DEF Reserve, history
<1>3. /\ x = IF z >= K THEN 0 ELSE IF limiter.limit > 0 THEN K - z ELSE Never
      /\ x \in Int /\ limiter.limit \in Int
  BY <1>1, BasicFacts, WaitInUnits, WaitInt
<1>4. /\ Holds(limiter', z - K, K) /\ limiter'.limit = limiter.limit /\ limiter'.lastEvent = x
  BY <1>1, <1>2, ReservedInUnits
<1>a. r.act = x /\ r.limit = limiter.limit
  OBVIOUS
<1> HIDE DEF r
<1>5. pc'[w] = "reserved" /\ Aside(w) /\ held'[w] = r
  BY <1>2, BasicFacts, Zenon DEF Aside
<1>6. held'[w].act = x /\ held'[w].limit = limiter.limit
  BY <1>5, <1>a
<1>7. Covered(a, z - K, K)'
  <2>1. ~Counts(w) /\ Counts(w)'
    BY <1>2, <1>5 DEF Counts
  <2>2. a - (z - K) >= (a - z) + K /\ z - K \in Int
    BY <1>1
  <2> QED
    BY <1>1, <1>5, <2>1, <2>2, CoveredStep
<1> HIDE DEF x
<1>8. Timely(a, K)'
  <2> SUFFICES ASSUME NEW n \in Nat, n = 0 \/ limiter.limit > 0
               PROVE  a + n >= K * Cardinality(DueBy(n)')
    BY <1>4, Zenon DEF Timely
  <2> DEFINE d == Cardinality(DueBy(n))
             c == Cardinality(DueBy(n)')
             m == Cardinality(Counted)
  <2>1. /\ d \in Nat /\ c \in Nat
        /\ (w \in DueBy(n) <=> w \in DueBy(n)') => c = d
        /\ w \notin DueBy(n) /\ w \in DueBy(n)' => c = d + 1
    <3>1. DueBy(n) \in SUBSET Workers /\ DueBy(n)' \in SUBSET Workers
      BY DEF DueBy
    <3>2. \A v \in Workers \ {w} : v \in DueBy(n) <=> v \in DueBy(n)'
      BY <1>5, OthersCount
    <3> HIDE DEF c, d
    <3>3. /\ Cardinality(DueBy(n)) \in Nat /\ Cardinality(DueBy(n)') \in Nat
          /\ (w \in DueBy(n) <=> w \in DueBy(n)') => Cardinality(DueBy(n)') = Cardinality(DueBy(n))
          /\ w \notin DueBy(n) /\ w \in DueBy(n)' =>
               Cardinality(DueBy(n)') = Cardinality(DueBy(n)) + 1
      BY <3>1, <3>2, CountChange
    <3> QED
      BY <3>3 DEF c, d
  <2>2. w \notin DueBy(n) /\ (w \in DueBy(n)' <=> x <= n)
    BY <1>2, <1>5, <1>6 DEF DueBy, Usable
  <2>3. a + n >= K * d
    BY <1>1, Zenon DEF Timely
  <2>4. m \in Nat /\ d <= m /\ a >= z + K * m
    BY <1>1, Counting DEF Covered
  <2>5. Never > 0
    OBVIOUS
  <2> HIDE DEF c, d, m
  <2>6. /\ K * d \in Nat /\ K * m \in Nat /\ K * d <= K * m /\ K * (d + 1) = K * d + K
    BY <1>1, <2>1, <2>4, Multiples
  <2>7. x <= n => a + n >= K * d + K
    BY <1>1, <1>3, <2>4, <2>5, <2>6
  <2>8. CASE x <= n
    <3>1. c = d + 1
      BY <2>1, <2>2, <2>8
    <3>2. a + n >= K * c
      BY <2>6, <2>7, <2>8, <3>1
    <3> QED
      BY <3>2 DEF c
  <2>9. CASE ~(x <= n)
    <3>1. c = d
      BY <2>1, <2>2, <2>9
    <3> QED
      BY <2>3, <3>1 DEF c
  <2> QED
    BY <2>8, <2>9
<1>9. Queued(z - K, K)'
  <2> SUFFICES ASSUME limiter.limit > 0
               PROVE  \A v \in Workers : InLine(v)' =>
                        /\ InTime(v, z - K)'
                        /\ \A u \in Workers \ {v} : InLine(u)' => Apart(u, v, K)'
    BY <1>4, Zenon DEF Queued
  <2>1. /\ \A v \in Workers \ {w} : held'[v] = held[v] /\ (InLine(v)' => InLine(v))
        /\ ~InLine(w)
    BY <1>2, <1>5, OthersCount DEF Aside, InLine, Counts
  <2>2. \A v \in Workers : InLine(v) =>
          /\ held[v].act \in Int /\ held[v].act <= -z
          /\ \A u \in Workers \ {v} : InLine(u) => Apart(u, v, K)
    BY <1>1, BasicFacts DEF Queued, InTime
  <2>3. InLine(w)' /\ z >= K => z = K
    <3>1. SUFFICES ASSUME InLine(w)', z >= K PROVE z = K
      OBVIOUS
    <3>2. x = 0
      BY <1>3, <3>1
    <3>3. Burst = 1
      BY <1>5, <1>6, <3>1, <3>2 DEF InLine
    <3>4. z * Unit(limiter.limit) <= K * Unit(limiter.limit)
      BY <1>1, <3>3, BasicFacts DEF Holds
    <3>5. z <= K
      BY <1>1, <3>4, LedgerFacts, InUnits
    <3> QED
      BY <1>1, <3>1, <3>5
  <2>4. ASSUME NEW v \in Workers \ {w}, InLine(v)'
        PROVE  /\ InTime(v, z - K)'
               /\ InLine(w)' => Apart(w, v, K)' /\ Apart(v, w, K)'
    <3>1. held'[v] = held[v] /\ held[v].act \in Int /\ held[v].act <= -z
      BY <2>1, <2>2, <2>4
    <3>2. held[v].act <= -(z - K) /\ held[v].act <= x
      BY <1>1, <1>3, <3>1
    <3>3. InLine(w)' => x >= held[v].act + K
      BY <1>1, <1>3, <2>3, <3>1
    <3> QED
      BY <1>4, <1>6, <3>1, <3>2, <3>3 DEF InTime, Apart
  <2>5. InLine(w)' => InTime(w, z - K)'
    <3>1. InLine(w)' => x <= -(z - K)
      BY <1>1, <1>3, <2>3
    <3> QED
      BY <1>3, <1>4, <1>6, <3>1 DEF InTime
  <2>6. ASSUME NEW v \in Workers \ {w}, NEW u \in Workers \ {w}, u # v, InLine(v)', InLine(u)'
        PROVE  Apart(u, v, K)'
    <3>1. InLine(v) /\ InLine(u) /\ held'[v] = held[v] /\ held'[u] = held[u]
      BY <2>1, <2>6
    <3>2. Apart(u, v, K)
      BY <2>2, <2>6, <3>1
    <3> QED
      BY <3>1, <3>2 DEF Apart
  <2> QED
    BY <2>4, <2>5, <2>6
<1>10. \A v \in Workers : Waited(v)'
  BY <1>1, <1>4, <1>5, <1>6 DEF Aside, Waited, Counts
<1> QED
  BY <1>1, <1>2, <1>4, <1>7, <1>8, <1>9, <1>10, LedgerFacts, Zenon DEF Ledger

(* What is given back is no more than what was taken, and the limiter is not *)
(* ahead of the reservations that stay.                                      *)
LEMMA CancelLedger ==
    ASSUME Basic, NEW w \in Workers, CancelReservation(w),
           NEW a, NEW z, NEW K, Ledger(a, z, K)
    PROVE  \E y \in Int : Ledger(a, y, K)'
<1> DEFINE act == held[w].act
           last == limiter.lastEvent
<1>1. /\ Holds(limiter, z, K) /\ a \in Int /\ z \in Int /\ K \in Nat \ {0}
      /\ Covered(a, z, K) /\ Timely(a, K) /\ Queued(z, K)
      /\ \A v \in Workers : Waited(v)
  BY LedgerFacts
<1>2. /\ pc[w] = "cancelling" /\ held' = held /\ Goto(w, "idle", Second)
      /\ limiter' = Cancelled(limiter, held[w].act, held[w].limit) /\ allowance' = allowance
  BY DEF CancelReservation, history
<1>3. act \in Int /\ last \in Int /\ limiter.limit \in Int
  BY BasicFacts
<1>4. pc'[w] = "idle" /\ Aside(w) /\ Counts(w) /\ ~Counts(w)'
  BY <1>2, BasicFacts DEF Aside, Counts
<1>5. limiter' = Cancelled(limiter, held[w].act, limiter.limit)
  BY <1>1, <1>2, <1>4 DEF Waited
<1>6. /\ \A n \in Nat : w \in DueBy(n)' => w \in DueBy(n)
      /\ ~InLine(w)' /\ InLine(w) /\ Waited(w)'
  BY <1>2, <1>4 DEF DueBy, Usable, InLine, Waited, Counts
<1>7. CASE limiter' = limiter
  BY <1>1, <1>2, <1>4, <1>6, <1>7, QuietLedger
<1>8. CASE limiter' # limiter
  <2>1. PICK now \in Int :
          /\ act >= 0 /\ Back(limiter, act, K) > 0 /\ now <= z + Back(limiter, act, K)
          /\ Holds(limiter', now, K) /\ limiter'.limit = limiter.limit
          /\ limiter'.lastEvent = IF act = last /\ Before(limiter, act, K) >= 0
                                  THEN Before(limiter, act, K) ELSE last
    BY <1>1, <1>3, <1>5, <1>8, CancelledInUnits
  <2>2. limiter.limit > 0 =>
          /\ act <= -z /\ act <= last
          /\ \A v \in Workers \ {w} : InLine(v) =>
               /\ held[v].act \in Int /\ held[v].act <= last /\ Apart(v, w, K)
    BY <1>1, <1>6, BasicFacts DEF Queued, InTime
  <2>3. Back(limiter, act, K) \in Int /\ Back(limiter, act, K) <= K
    <3>1. CASE limiter.limit > 0
      <4>1. Back(limiter, act, K) = K - (last - act)
        BY <1>1, <1>3, <3>1 DEF Back, Pace
      <4> HIDE DEF act, last
      <4> QED
        BY <1>1, <1>3, <2>2, <3>1, <4>1
    <3>2. CASE ~(limiter.limit > 0)
      <4>1. Back(limiter, act, K) = K - 0 * (last - act) /\ 0 * (last - act) = 0
        BY <1>3, <3>2 DEF Back, Pace
      <4> QED
        BY <1>1, <4>1
    <3> QED
      BY <3>1, <3>2
  <2>4. now <= z + K
    BY <1>1, <2>1, <2>3
  <2>5. Covered(a, now, K)'
    <3>1. (a - now) + K >= a - z
      BY <1>1, <2>1, <2>4
    <3> QED
      BY <1>1, <1>4, <2>1, <3>1, CoveredStep
  <2>6. Timely(a, K)'
    <3>1. a >= a
      BY <1>1
    <3> QED
      BY <1>1, <1>4, <1>6, <2>1, <3>1, TimelyStep
  <2>7. Queued(now, K)'
    <3> SUFFICES ASSUME limiter.limit > 0, NEW v \in Workers, InLine(v)'
                 PROVE  /\ InTime(v, now)'
                        /\ \A u \in Workers \ {v} : InLine(u)' => Apart(u, v, K)'
      BY <2>1, Zenon DEF Queued
    <3>1. \A u \in Workers : InLine(u)' => u # w /\ InLine(u) /\ held'[u] = held[u]
      BY <1>4, <1>6, OthersCount DEF Aside
    <3>2. /\ held[v].act \in Int /\ held[v].act <= last /\ Apart(v, w, K) /\ v # w
          /\ held'[v] = held[v]
      BY <2>2, <3>1
    <3>3. K - (last - act) > 0
      <4>1. Back(limiter, act, K) = K - (last - act)
        BY <1>1, <1>3 DEF Back, Pace
      <4> QED
        BY <2>1, <4>1
    <3>4. held[v].act + K <= act
      <4> HIDE DEF last
      <4>1. Apart(v, w, K) <=> held[v].act >= act + K \/ act >= held[v].act + K
        BY DEF Apart
      <4> HIDE DEF act
      <4> QED
        BY <1>1, <1>3, <3>2, <3>3, <4>1
    <3>5. held[v].act <= -now /\ held[v].act <= limiter'.lastEvent
      <4> HIDE DEF act, last
      <4> QED
        BY <1>1, <1>3, <2>1, <2>2, <2>4, <3>2, <3>4 DEF Before
    <3>6. InTime(v, now)'
      BY <3>2, <3>5 DEF InTime
    <3>7. ASSUME NEW u \in Workers \ {v}, InLine(u)' PROVE Apart(u, v, K)'
      <4>1. InLine(u) /\ InLine(v) /\ held'[u] = held[u] /\ held'[v] = held[v]
        BY <3>1, <3>7
      <4>2. Apart(u, v, K)
        BY <1>1, <4>1, Zenon DEF Queued
      <4> QED
        BY <4>1, <4>2 DEF Apart
    <3> QED
      BY <3>6, <3>7
  <2>8. \A v \in Workers : Waited(v)'
    BY <1>1, <1>6, <1>4, <2>1 DEF Aside, Waited, Counts
  <2> QED
    BY <1>1, <1>2, <2>1, <2>5, <2>6, <2>7, <2>8, LedgerFacts, Zenon DEF Ledger
<1> QED
  BY <1>7, <1>8

(* Time passes: what was due a tick later is due now, and the supply of a    *)
(* tick has arrived, unless it is more than all that could be asked for.     *)
LEMMA TickLedger ==
    ASSUME Basic, steady, Tick, NEW a, NEW z, NEW K, Ledger(a, z, K)
    PROVE  \E b, y \in Int : Ledger(b, y, K)'
<1> DEFINE p == Pace(limiter.limit)
           e == Unit(limiter.limit)
           W == Cardinality(Workers)
           top == (Burst + W) * K
           arrived == AtMost(z + p, Burst * K)
           left == AtMost(a + p, top)
           m == Cardinality(Counted)
<1>1. /\ Holds(limiter, z, K) /\ a \in Int /\ z \in Int /\ K \in Nat \ {0}
      /\ Covered(a, z, K) /\ Timely(a, K) /\ Queued(z, K)
      /\ \A v \in Workers : Waited(v)
      /\ e \in Nat \ {0} /\ Token = K * e /\ allowance = a * e /\ allowance >= 0
  BY LedgerFacts
<1>2. /\ limiter' = IF \E w \in Workers : Counts(w) THEN Passed(limiter)
                    ELSE [Passed(limiter) EXCEPT !.lastEvent = 0]
      /\ pc' = pc
      /\ allowance' = AtMost(allowance + Supplied(limiter.limit, 1), Depth)
  BY <1>1 DEF Tick
<1>3. /\ Holds(limiter', arrived, K) /\ limiter'.limit = limiter.limit
      /\ (\E w \in Workers : Counts(w)) => limiter'.lastEvent = limiter.lastEvent - 1
  BY <1>1, <1>2, BasicFacts, PassedInUnits
<1>4. /\ p \in {0, 1} /\ (p = 1 <=> limiter.limit > 0) /\ W \in Nat
      /\ Burst * K \in Int /\ top = Burst * K + K * W /\ top \in Int /\ K * W \in Nat
  BY <1>1, Products DEF Pace
<1>5. left \in Int /\ allowance' = left * e
  <2>1. Supplied(limiter.limit, 1) = p * e
    <3>1. limiter.limit \in Int /\ p * 1 = p
      BY <1>4, BasicFacts
    <3> QED
      BY <3>1, SuppliedInUnits
  <2>2. allowance + Supplied(limiter.limit, 1) = (a + p) * e
    <3> HIDE DEF p, e
    <3> QED
      BY <1>1, <1>4, <2>1, InUnits
  <2>3. Depth = top * e
    <3>1. Depth = (Burst + W) * (K * e)
      BY <1>1 DEF Depth
    <3> HIDE DEF W, e
    <3> QED
      BY <1>1, <1>4, <3>1
  <2>4. AtMost((a + p) * e, top * e) = left * e /\ left \in Int
    <3>1. a + p \in Int
      BY <1>1, <1>4
    <3> HIDE DEF p, e, top
    <3> QED
      BY <1>1, <1>4, <3>1, CappedInUnits
  <2> QED
    BY <1>2, <2>2, <2>3, <2>4, Zenon
<1>6. /\ arrived \in Int /\ arrived <= z + p /\ arrived <= Burst * K
      /\ left = a + p \/ left = top
  <2> HIDE DEF p, top
  <2> QED
    BY <1>1, <1>4 DEF AtMost
<1> HIDE DEF arrived, left, m
<1>a. PICK b \in Int, y \in Int :
        /\ Holds(limiter', y, K) /\ allowance' = b * e
        /\ y <= z + p /\ y <= Burst * K
        /\ b = a + p \/ b = top
  BY <1>3, <1>5, <1>6
<1>7. /\ Counted' = Counted
      /\ \A v \in Workers : /\ Counts(v)' <=> Counts(v)
                            /\ Usable(v)' <=> Usable(v)
  BY <1>2 DEF Counted, Counts, Usable
<1>8. ASSUME NEW v \in Workers, Counts(v)
      PROVE  /\ held'[v].act = held[v].act - 1 /\ held'[v].limit = held[v].limit
             /\ held[v].act \in Int /\ due[v] \in Int
             /\ due'[v] = due[v] - 1 /\ due[v] > -MaxLate
  <2>1. /\ held'[v] = [held[v] EXCEPT !.act = @ - 1]
        /\ due'[v] = due[v] - 1 /\ due[v] > -MaxLate
    BY <1>8 DEF Tick, Ready, Counts
  <2>2. held[v] \in [act : Int, limit : Int] /\ due[v] \in Int
    BY DEF Basic, Numbers
  <2> QED
    BY <2>1, <2>2
<1>9. Covered(b, y, K)'
  <2>1. m \in Nat /\ m <= W /\ a >= z + K * m
    BY <1>1, Counting DEF Covered, m
  <2>2. K * m \in Nat /\ K * m <= K * W
    <3> HIDE DEF W
    <3> QED
      BY <1>1, <1>4, <2>1, Multiples
  <2>3. b >= y + K * m
    <3> HIDE DEF p, top, W
    <3> QED
      BY <1>1, <1>4, <1>a, <2>1, <2>2
  <2> QED
    BY <1>7, <2>3, Zenon DEF Covered, m
<1>10. Timely(b, K)'
  <2> HIDE DEF p, top, e
  <2> SUFFICES ASSUME NEW n \in Nat, n = 0 \/ limiter.limit > 0
               PROVE  b + n >= K * Cardinality(DueBy(n)')
    BY <1>3, Zenon DEF Timely
  <2> DEFINE d == Cardinality(DueBy(n + p))
  <2>1. DueBy(n)' = DueBy(n + p)
    <3>1. ASSUME NEW v \in Workers, Usable(v)
          PROVE  held[v].act - 1 <= n <=> held[v].act <= n + p
      <4>1. Counts(v)
        BY <3>1 DEF Usable, Counts
      <4>2. CASE p = 1
        BY <1>8, <4>1, <4>2
      <4>3. CASE p = 0
        <5>1. n = 0 /\ ~(limiter.limit > 0) /\ held[v].limit = limiter.limit
          BY <1>1, <1>4, <4>1, <4>3 DEF Waited
        <5>2. limiter.limit \in Int /\ HeldOK(v)
          BY BasicFacts
        <5>3. pc[v] = "reserved" /\ (held[v].act <= 0 \/ held[v].act >= Never + due[v])
          BY <3>1, <4>1, <5>1, <5>2 DEF HeldOK, Usable
        <5>4. held[v].act <= 0 \/ held[v].act > 1
          BY <1>8, <4>1, <5>3
        <5> QED
          BY <1>8, <4>1, <4>3, <5>1, <5>4
      <4> QED
        BY <1>4, <4>2, <4>3
    <3>2. \A v \in Workers : Usable(v) => held'[v].act = held[v].act - 1
      BY <1>8 DEF Usable, Counts
    <3>3. ASSUME NEW v \in Workers
          PROVE  Usable(v)' /\ held'[v].act <= n <=> Usable(v) /\ held[v].act <= n + p
      BY <1>7, <3>1, <3>2
    <3> QED
      BY <3>3, Zenon DEF DueBy
  <2>2. d \in Nat /\ d <= W
    BY Counting, <1>4
  <2>3. a + (n + p) >= K * d
    <3>1. n + p \in Nat /\ (n + p = 0 \/ limiter.limit > 0)
      BY <1>4
    <3> QED
      BY <1>1, <3>1, Zenon DEF Timely
  <2>4. K * d \in Nat /\ K * d <= K * W
    <3> HIDE DEF d, W
    <3> QED
      BY <1>1, <1>4, <2>2, Multiples
  <2>5. Burst * K >= 0
    BY <1>1
  <2>6. b + n >= K * d
    <3> HIDE DEF d, W
    <3> QED
      BY <1>1, <1>4, <1>a, <2>3, <2>4, <2>5
  <2> QED
    BY <2>1, <2>6
<1>11. Queued(y, K)'
  <2> HIDE DEF p, top, e
  <2> SUFFICES ASSUME limiter.limit > 0, NEW v \in Workers, InLine(v)'
               PROVE  /\ InTime(v, y)'
                      /\ \A u \in Workers \ {v} : InLine(u)' => Apart(u, v, K)'
    BY <1>3, Zenon DEF Queued
  <2>1. ASSUME NEW u \in Workers, InLine(u)'
        PROVE  /\ InLine(u) /\ Counts(u)
               /\ held'[u].act = held[u].act - 1 /\ held[u].act \in Int
    <3>1. Counts(u)
      BY <1>7, <2>1 DEF InLine
    <3>2. held'[u].act = held[u].act - 1 /\ held[u].act \in Int
      BY <1>8, <3>1
    <3>3. InLine(u)
      BY <1>2, <2>1, <3>1, <3>2 DEF InLine
    <3> QED
      BY <3>1, <3>2, <3>3
  <2>2. limiter'.lastEvent = limiter.lastEvent - 1 /\ limiter.lastEvent \in Int
    BY <1>3, <2>1, BasicFacts
  <2>3. InTime(v, z) /\ \A u \in Workers \ {v} : InLine(u) => Apart(u, v, K)
    BY <1>1, <2>1, Zenon DEF Queued
  <2>4. p = 1
    BY <1>4
  <2>5. InTime(v, y)'
    <3>1. held[v].act <= -z /\ held[v].act <= limiter.lastEvent
      BY <2>3 DEF InTime
    <3>2. held[v].act - 1 <= -y /\ held[v].act - 1 <= limiter.lastEvent - 1
      BY <1>1, <1>a, <2>1, <2>2, <2>4, <3>1
    <3> QED
      BY <2>1, <2>2, <3>2 DEF InTime
  <2>6. ASSUME NEW u \in Workers \ {v}, InLine(u)' PROVE Apart(u, v, K)'
    <3>1. Apart(u, v, K)
      BY <2>1, <2>3, <2>6
    <3>2. /\ held'[u].act = held[u].act - 1 /\ held[u].act \in Int
          /\ held'[v].act = held[v].act - 1 /\ held[v].act \in Int
      BY <2>1, <2>6
    <3> QED
      BY <1>1, <3>1, <3>2 DEF Apart
  <2> QED
    BY <2>5, <2>6
<1>12. \A v \in Workers : Waited(v)'
  <2>1. ASSUME NEW v \in Workers PROVE Waited(v)'
    <3>1. CASE Counts(v)
      BY <1>1, <1>2, <1>3, <1>7, <1>8, <3>1 DEF Waited
    <3>2. CASE ~Counts(v)
      BY <1>2, <1>7, <3>2 DEF Waited, Counts
    <3> QED
      BY <3>1, <3>2
  <2> QED
    BY <2>1
<1>13. Ledger(b, y, K)'
  BY <1>3, <1>a, <1>9, <1>10, <1>11, <1>12, Zenon DEF Ledger
<1> QED
  BY <1>13

(* A rate that stands has been standing, for as long as the reservations are *)
(* in order.                                                                 *)
LEMMA StandingBefore ==
    ASSUME Basic, [Next]_vars, Standing'
    PROVE  Standing /\ ~\E r \in Rates : SetDrainRate(r)
<1>1. steady' /\ Exact(limiter'.limit) /\ Orderly'
  BY DEF Standing
<1>2. ASSUME NEW r \in Rates, SetDrainRate(r) PROVE FALSE
  BY <1>1, <1>2 DEF SetDrainRate
<1>3. SUFFICES limiter'.limit = limiter.limit /\ steady /\ Orderly
  BY <1>1, <1>2, Zenon DEF Standing
<1>4. Numeric(limiter) /\ limiter.tokens <= Burst * Token
  BY BasicFacts
<1>5. ASSUME NEW w \in Workers, Reserve(w)
      PROVE  limiter'.limit = limiter.limit /\ steady /\ Orderly
  <2>1. steady /\ Orderly
    BY <1>1, <1>5 DEF Reserve, history, Orderly
  <2>2. limiter' = limiter \/ limiter' = Reserved(limiter)
    BY <1>5 DEF Reserve
  <2> QED
    BY <1>4, <2>1, <2>2, ReservedNumeric
<1>6. ASSUME NEW w \in Workers, CancelReservation(w)
      PROVE  limiter'.limit = limiter.limit /\ steady /\ Orderly
  <2>1. steady /\ Orderly
    BY <1>1, <1>6 DEF CancelReservation, history, Orderly
  <2>2. limiter' = Cancelled(limiter, held[w].act, held[w].limit)
    BY <1>6 DEF CancelReservation
  <2>3. held[w].act \in Int /\ held[w].limit \in Int
    BY DEF Basic, Numbers
  <2> QED
    BY <1>4, <2>1, <2>2, <2>3, CancelledNumeric
<1>7. ASSUME NEW w \in Workers,
             \/ CheckRate(w) \/ DecideToCancel(w) \/ DecideToWait(w) \/ ConsumeNow(w)
             \/ Interrupt(w) \/ Return(w) \/ Exit(w)
      PROVE  limiter'.limit = limiter.limit /\ steady /\ Orderly
  <2>1. limiter' = limiter /\ cancelled' = cancelled /\ steady' = steady
    <3>1. CASE CheckRate(w) \/ DecideToCancel(w) \/ DecideToWait(w)
      BY <3>1 DEF CheckRate, DecideToCancel, DecideToWait, history
    <3>2. CASE ConsumeNow(w)
      BY <3>2 DEF ConsumeNow, Begin
    <3>3. CASE Interrupt(w) \/ Return(w) \/ Exit(w)
      BY <3>3 DEF Interrupt, Return, Exit, history
    <3> QED
      BY <1>7, <3>1, <3>2, <3>3
  <2> QED
    BY <1>1, <2>1 DEF Orderly
<1>8. CASE Tick
  <2>1. steady /\ Orderly
    BY <1>1, <1>8 DEF Tick, Orderly
  <2>2. limiter' = Passed(limiter) \/ limiter' = [Passed(limiter) EXCEPT !.lastEvent = 0]
    BY <1>8 DEF Tick
  <2> QED
    BY <1>4, <2>1, <2>2, PassedNumeric
<1>9. CASE Stop
  BY <1>1, <1>9 DEF Stop, history, Orderly
<1>10. CASE UNCHANGED vars
  BY <1>1, <1>10 DEF vars, history, Orderly
<1> QED
  BY <1>2, <1>5, <1>6, <1>7, <1>8, <1>9, <1>10 DEF Next, Worker

LEMMA DrainInvStep == DrainInv /\ [Next]_vars => DrainInv'
<1> SUFFICES ASSUME DrainInv, [Next]_vars, Standing' PROVE \E a, z, K : Ledger(a, z, K)'
  BY BasicStep, Zenon DEF DrainInv
<1>1. Basic /\ Standing /\ ~\E r \in Rates : SetDrainRate(r)
  BY StandingBefore DEF DrainInv
<1>2. steady /\ Orderly /\ Orderly'
  BY <1>1 DEF Standing
<1>3. PICK a, z, K : Ledger(a, z, K)
  BY <1>1 DEF DrainInv
<1>4. /\ \A w \in Workers : /\ held[w].act \in Int /\ Waited(w)
                            /\ due[w] \in Int
  BY <1>1, <1>3, BasicFacts, LedgerFacts
<1>5. ASSUME NEW w \in Workers,
             \/ CheckRate(w) \/ Return(w) \/ Exit(w)
             \/ Reserve(w) /\ Burst < 1
      PROVE  Ledger(a, z, K)'
  <2>1. /\ limiter' = limiter /\ allowance' = allowance
        /\ \E label \in {"idle", "checked", "stopped", "top"} : \E delay : Goto(w, label, delay)
        /\ held' = held \/ held' = [held EXCEPT ![w] = NoReservation]
    BY <1>5 DEF CheckRate, Return, Exit, Reserve, history
  <2>2. pc'[w] \in {"idle", "checked", "stopped", "top"} /\ Aside(w)
    BY <1>1, <2>1, BasicFacts DEF Aside
  <2>3. /\ ~Counts(w)' /\ ~InLine(w)' /\ Waited(w)'
        /\ \A n \in Nat : w \notin DueBy(n)'
    BY <2>2 DEF Counts, InLine, Waited, DueBy, Usable
  <2> QED
    BY <1>3, <2>1, <2>2, <2>3, QuietLedger
<1>6. ASSUME NEW w \in Workers, DecideToCancel(w) \/ Interrupt(w)
      PROVE  Ledger(a, z, K)'
  <2>1. /\ limiter' = limiter /\ allowance' = allowance /\ held' = held
        /\ Goto(w, "cancelling", 0) /\ Counts(w)
    BY <1>6 DEF DecideToCancel, TooLong, Interrupt, history, Counts
  <2>2. pc'[w] = "cancelling" /\ Aside(w)
    BY <1>1, <2>1, BasicFacts DEF Aside
  <2>3. InLine(w)
    <3>1. CASE TooLong(w)
      <4>1. Delay(w) > 0
        BY <1>4, <3>1 DEF TooLong, Delay
      <4>2. held[w].act > 0
        BY <1>4, <4>1 DEF Delay
      <4> QED
        BY <2>1, <4>2 DEF InLine
    <3>2. CASE ~TooLong(w)
      <4>1. cancelled
        BY <1>6, <3>2 DEF DecideToCancel, Interrupt
      <4> QED
        BY <1>2, <2>1, <4>1 DEF InLine, Orderly
    <3> QED
      BY <3>1, <3>2
  <2>4. /\ \A n \in Nat : w \notin DueBy(n)'
        /\ Waited(w)' /\ held'[w] = held[w]
    BY <1>4, <2>1, <2>2 DEF DueBy, Usable, Waited, Counts
  <2> QED
    BY <1>3, <2>1, <2>2, <2>3, <2>4, QuietLedger
<1>7. ASSUME NEW w \in Workers, DecideToWait(w)
      PROVE  Ledger(a, z, K)'
  <2>1. /\ limiter' = limiter /\ allowance' = allowance /\ held' = held
        /\ Goto(w, "delaying", Delay(w)) /\ pc[w] = "reserved" /\ Delay(w) > 0
    BY <1>7 DEF DecideToWait, history
  <2>2. pc'[w] = "delaying" /\ due'[w] = Delay(w) /\ Aside(w)
    BY <1>1, <2>1, BasicFacts DEF Aside
  <2>3. Delay(w) = held[w].act
    BY <1>4, <2>1 DEF Delay
  <2>4. /\ Counts(w) /\ held'[w] = held[w]
        /\ InLine(w)' => InLine(w)
        /\ \A n \in Nat : w \in DueBy(n)' => w \in DueBy(n)
    BY <2>1, <2>2 DEF Counts, InLine, DueBy, Usable
  <2>5. Waited(w)'
    <3>1. held[w].limit = limiter.limit
      BY <1>4, <2>4 DEF Waited
    <3>2. held[w].act >= held[w].act
      BY <1>4
    <3> QED
      BY <2>1, <2>2, <2>3, <3>1, <3>2 DEF Waited
  <2> QED
    BY <1>3, <2>1, <2>2, <2>4, <2>5, QuietLedger
<1>8. ASSUME NEW w \in Workers, Reserve(w), ~(Burst < 1)
      PROVE  Ledger(a, z - K, K)'
  <2>1. Burst >= 1
    BY <1>8
  <2> QED
    BY <1>1, <1>3, <1>8, <2>1, ReserveLedger
<1>9. CASE Stop \/ UNCHANGED vars
  <2>1. UNCHANGED <<limiter, pc, due, held, allowance>>
    BY <1>9 DEF Stop, vars, history
  <2>2. /\ Counted' = Counted /\ \A n : DueBy(n)' = DueBy(n)
        /\ \A w \in Workers : (InLine(w)' <=> InLine(w)) /\ Waited(w)'
    BY <1>4, <2>1 DEF Counted, Counts, DueBy, Usable, InLine, Waited
  <2>3. Queued(z, K)'
    BY <1>3, <2>1, <2>2, LedgerFacts DEF Queued, InTime, Apart
  <2>4. Covered(a, z, K)' /\ Timely(a, K)'
    BY <1>3, <2>1, <2>2, LedgerFacts, Zenon DEF Covered, Timely
  <2>5. Ledger(a, z, K)'
    BY <1>3, <2>1, <2>2, <2>3, <2>4, LedgerFacts, Zenon DEF Ledger
  <2> QED
    BY <2>5
<1>10. ASSUME NEW w \in Workers, Worker(w) PROVE \E x, y : Ledger(x, y, K)'
  BY <1>1, <1>2, <1>3, <1>5, <1>6, <1>7, <1>8, <1>10, ConsumeLedger, CancelLedger, Zenon DEF Worker
<1>11. CASE Tick
  BY <1>1, <1>2, <1>3, <1>11, TickLedger, Zenon
<1> QED
  BY <1>1, <1>9, <1>10, <1>11, Zenon DEF Next

(* RateLimiter!DrainBounded, for any workers, rates, burst and lateness:     *)
(* until Stop, and with a burst of one token after it too, no more messages  *)
(* begin at a standing rate than it supplies, the burst, and one for each    *)
(* worker.                                                                   *)
THEOREM DrainBoundedInOrder == Spec => [](Orderly => DrainBounded)
<1>1. DrainInv => (Orderly => DrainBounded)
  BY LedgerFacts DEF DrainInv, Standing, DrainBounded
<1> QED
  BY InitDrain, DrainInvStep, <1>1, PTL DEF Spec
=============================================================================
