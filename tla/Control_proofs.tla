------------------------------ MODULE Control_proofs ------------------------------
(****************************************************************************)
(* What the controllers' proofs need of Control and Signal: limits and the    *)
(* integral, filters whose samples are all numbers, and what is in the window *)
(* of a moving average.                                                       *)
(****************************************************************************)
EXTENDS Control, TLAPS

(* A filter all of whose samples are numbers, as Filter and Seed need it.    *)
Buffers == UNION {[0 .. k - 1 -> Int] : k \in Nat}

FilterSet == [kind : FilterKinds, size : Nat, seedFromFirst : BOOLEAN, seeded : BOOLEAN,
              state : Int, buf : Buffers, idx : Nat, n : Int, sum : Int]

NumberFilter(f) ==
    /\ f \in FilterSet
    /\ f.size > 0
    /\ Decay[f.size] \in 0 .. 100
    /\ f.idx \in 0 .. f.size - 1
    /\ f.buf \in [0 .. f.size - 1 -> Int]

-----------------------------------------------------------------------------
(* A clamped value lies within its bounds, and within them is left alone.    *)
LEMMA ClampWithin ==
    ASSUME NEW v \in Int, NEW lo \in Int, NEW hi \in Int, lo <= hi
    PROVE  /\ Clamp(v, lo, hi) \in Int
           /\ lo <= Clamp(v, lo, hi)
           /\ Clamp(v, lo, hi) <= hi
           /\ lo <= v /\ v <= hi => Clamp(v, lo, hi) = v
           /\ v <= hi => Clamp(v, lo, hi) = v \/ Clamp(v, lo, hi) = lo
           /\ lo <= v => Clamp(v, lo, hi) = v \/ Clamp(v, lo, hi) = hi
  BY DEF Clamp, Larger, Smaller

(* Limits.integrate: what it returns is within IClamp, and where that is     *)
(* enough, brings the sum of all terms within Min and Max.                   *)
LEMMA IntegrateWithin ==
    ASSUME NEW p, p.Min \in Int, p.Max \in Int, p.IClamp \in Int, ValidLimits(p),
           NEW i \in Int, NEW delta \in Int, NEW other \in Int
    PROVE  /\ Integrate(p, i, delta, other) \in Int
           /\ -p.IClamp <= Integrate(p, i, delta, other)
           /\ Integrate(p, i, delta, other) <= p.IClamp
           /\ (p.Min - p.IClamp <= other /\ other <= p.Max + p.IClamp) =>
                  /\ p.Min <= other + Integrate(p, i, delta, other)
                  /\ other + Integrate(p, i, delta, other) <= p.Max
  <1> DEFINE lo == Larger(-p.IClamp, p.Min - other)
             hi == Smaller(p.IClamp, p.Max - other)
  <1>1. p.Min \in Int /\ p.Max \in Int /\ p.IClamp \in Int /\ p.Min <= p.Max /\ p.IClamp >= 0
    BY DEF ValidLimits
  <1>2. /\ lo \in Int /\ hi \in Int
        /\ -p.IClamp <= lo /\ p.Min - other <= lo
        /\ hi <= p.IClamp /\ hi <= p.Max - other
        /\ (p.Min - p.IClamp <= other /\ other <= p.Max + p.IClamp) => lo <= hi
    BY <1>1 DEF Larger, Smaller
  <1>3. CASE lo > hi
    <2>1. Integrate(p, i, delta, other) = Clamp(i + delta, -p.IClamp, p.IClamp)
      BY <1>3 DEF Integrate
    <2> HIDE DEF lo, hi
    <2>2. i + delta \in Int /\ -p.IClamp \in Int /\ -p.IClamp <= p.IClamp
      BY <1>1
    <2>3. /\ Clamp(i + delta, -p.IClamp, p.IClamp) \in Int
          /\ -p.IClamp <= Clamp(i + delta, -p.IClamp, p.IClamp)
          /\ Clamp(i + delta, -p.IClamp, p.IClamp) <= p.IClamp
      BY <1>1, <2>2, ClampWithin
    <2>4. ~(p.Min - p.IClamp <= other /\ other <= p.Max + p.IClamp)
      BY <1>2, <1>3
    <2> QED BY <2>1, <2>3, <2>4
  <1>4. CASE ~(lo > hi)
    <2>1. Integrate(p, i, delta, other) = Clamp(i + delta, lo, hi)
      BY <1>4 DEF Integrate
    <2> HIDE DEF lo, hi
    <2>2. lo <= Clamp(i + delta, lo, hi) /\ Clamp(i + delta, lo, hi) <= hi
          /\ Clamp(i + delta, lo, hi) \in Int
      <3>1. i + delta \in Int /\ lo \in Int /\ hi \in Int /\ lo <= hi
        BY <1>2, <1>4
      <3> QED BY <3>1, ClampWithin
    <2> QED BY <1>1, <1>2, <1>4, <2>1, <2>2
  <1> QED BY <1>3, <1>4

-----------------------------------------------------------------------------
(* The arithmetic of numbers leads to numbers.                               *)
LEMMA PlusNumbers ==
    ASSUME NaN \notin Int, NEW a \in Int, NEW b \in Int
    PROVE  Plus(a, b) \in Int /\ Minus(a, b) \in Int
  BY DEF Plus, Minus

LEMMA ProductNumbers ==
    ASSUME NaN \notin Int, NEW a \in Int, NEW b \in Int
    PROVE  Product(a, b) \in Int
  BY DEF Product

LEMMA QuotientNumbers ==
    ASSUME NaN \notin Int, NEW a \in Int, NEW b \in Nat, b > 0
    PROVE  Quotient(a, b) \in Int
  BY DEF Quotient

LEMMA SmoothIsNumber ==
    ASSUME NaN \notin Int, NEW f, NumberFilter(f), NEW x \in Int
    PROVE  Smooth(f, x) \in Int
  <1> DEFINE a == Decay[f.size]
             p == Product(f.state, a)
             q == Product(x, 100 - a)
  <1>1. f.state \in Int /\ a \in Int /\ 100 - a \in Int
    <2>1. f.state \in Int
      BY DEF NumberFilter, FilterSet
    <2>2. a \in 0 .. 100
      BY DEF NumberFilter
    <2> QED BY <2>1, <2>2
  <1> HIDE DEF a
  <1>3. p \in Int /\ q \in Int
    BY <1>1, ProductNumbers
  <1> HIDE DEF p, q
  <1>4. Plus(p, q) \in Int
    BY <1>3, PlusNumbers
  <1>5. Quotient(Plus(p, q), 100) \in Int
    BY <1>4, QuotientNumbers
  <1> QED BY <1>5 DEF Smooth, a, p, q

LEMMA PushIsNumber ==
    ASSUME NaN \notin Int, NEW f, NumberFilter(f), NEW x \in Int
    PROVE  NumberFilter(Push(f, x)) /\ Push(f, x).sum \in Int /\ Push(f, x).size = f.size
  <1> DEFINE n == IF f.n = f.size THEN f.n ELSE f.n + 1
             s == Plus(IF f.n = f.size THEN Minus(f.sum, f.buf[f.idx]) ELSE f.sum, x)
             b == [f.buf EXCEPT ![f.idx] = x]
             i == (f.idx + 1) % f.size
             g == [f EXCEPT !.n = n, !.sum = s, !.buf = b, !.idx = i]
  <1>1. Push(f, x) = g
    BY DEF Push
  <1>2. i \in 0 .. f.size - 1 /\ n \in Int
    BY DEF NumberFilter, FilterSet
  <1>3. b \in [0 .. f.size - 1 -> Int] /\ b \in Buffers
    <2>1. b \in [0 .. f.size - 1 -> Int]
      BY DEF NumberFilter
    <2>2. f.size \in Nat
      BY DEF NumberFilter, FilterSet
    <2> QED BY <2>1, <2>2 DEF Buffers
  <1>4. s \in Int
    <2>1. f.sum \in Int /\ f.buf[f.idx] \in Int
      BY DEF NumberFilter, FilterSet
    <2>2. Minus(f.sum, f.buf[f.idx]) \in Int
      BY <2>1, PlusNumbers
    <2>3. (IF f.n = f.size THEN Minus(f.sum, f.buf[f.idx]) ELSE f.sum) \in Int
      BY <2>1, <2>2
    <2> QED BY <2>3, PlusNumbers
  <1>5. f \in FilterSet /\ f.size > 0 /\ Decay[f.size] \in 0 .. 100 /\ f.size \in Nat
    BY DEF NumberFilter, FilterSet
  <1> HIDE DEF n, s, b, i
  <1>6. g.sum = s /\ g.size = f.size /\ g.idx = i /\ g.buf = b
    BY <1>5 DEF FilterSet
  <1>7. g \in FilterSet
    <2>1. n \in Int /\ s \in Int /\ b \in Buffers /\ i \in Nat
      BY <1>2, <1>3, <1>4, <1>5
    <2> QED BY <1>5, <2>1 DEF FilterSet
  <1> HIDE DEF g
  <1> QED BY <1>1, <1>2, <1>3, <1>4, <1>5, <1>6, <1>7 DEF NumberFilter

LEMMA SeedIsNumber ==
    ASSUME NaN \notin Int, NEW f, NumberFilter(f), NEW v \in Int
    PROVE  NumberFilter(Seed(f, v))
  <1> DEFINE b == [i \in DOMAIN f.buf |-> v]
             s == Product(v, f.size)
             g == [f EXCEPT !.state = v, !.seeded = TRUE, !.n = f.size, !.sum = s,
                            !.idx = 0, !.buf = b]
  <1>1. Seed(f, v) = g
    BY DEF Seed
  <1>2. f \in FilterSet /\ f.size > 0 /\ Decay[f.size] \in 0 .. 100 /\ f.size \in Nat
    BY DEF NumberFilter, FilterSet
  <1>3. b \in [0 .. f.size - 1 -> Int] /\ b \in Buffers
    <2>1. b \in [0 .. f.size - 1 -> Int]
      BY DEF NumberFilter
    <2> QED BY <1>2, <2>1 DEF Buffers
  <1>4. s \in Int
    <2>1. f.size \in Int
      BY <1>2
    <2> QED BY <2>1, ProductNumbers
  <1> HIDE DEF b, s
  <1>5. g.size = f.size /\ g.idx = 0 /\ g.buf = b
    BY <1>2 DEF FilterSet
  <1>6. g \in FilterSet
    <2>1. s \in Int /\ b \in Buffers /\ f.size \in Int
      BY <1>2, <1>3, <1>4
    <2> QED BY <1>2, <2>1 DEF FilterSet
  <1> HIDE DEF g
  <1> QED BY <1>1, <1>2, <1>3, <1>5, <1>6 DEF NumberFilter

LEMMA ResetIsNumber ==
    ASSUME NEW f, NumberFilter(f)
    PROVE  NumberFilter(ResetSignal(f))
  <1> DEFINE b == [i \in DOMAIN f.buf |-> 0]
             g == [f EXCEPT !.state = 0, !.seeded = FALSE, !.idx = 0, !.n = 0, !.sum = 0,
                            !.buf = b]
  <1>1. ResetSignal(f) = g
    BY DEF ResetSignal
  <1>2. f \in FilterSet /\ f.size > 0 /\ Decay[f.size] \in 0 .. 100 /\ f.size \in Nat
    BY DEF NumberFilter, FilterSet
  <1>3. b \in [0 .. f.size - 1 -> Int] /\ b \in Buffers
    <2>1. b \in [0 .. f.size - 1 -> Int]
      BY DEF NumberFilter
    <2> QED BY <1>2, <2>1 DEF Buffers
  <1> HIDE DEF b
  <1>4. g.size = f.size /\ g.idx = 0 /\ g.buf = b
    BY <1>2 DEF FilterSet
  <1>5. g \in FilterSet
    <2>1. ASSUME NEW z \in Int, NEW i \in Nat, NEW e \in BOOLEAN
          PROVE  [f EXCEPT !.state = z, !.seeded = e, !.idx = i, !.n = z, !.sum = z, !.buf = b]
                     \in FilterSet
      BY <1>2, <1>3 DEF FilterSet
    <2>2. 0 \in Int /\ 0 \in Nat /\ FALSE \in BOOLEAN
      OBVIOUS
    <2> QED BY <2>1, <2>2, Zenon
  <1> HIDE DEF g
  <1> QED BY <1>1, <1>2, <1>3, <1>4, <1>5 DEF NumberFilter

LEMMA NewIsNumber ==
    ASSUME NEW spec \in [kind : FilterKinds, size : Int],
           Decay[Normalize(spec).size] \in 0 .. 100,
           NEW e \in BOOLEAN
    PROVE  NumberFilter(NewSignal(spec, e))
  <1> DEFINE k == Normalize(spec).kind
             m == Normalize(spec).size
             b == [i \in 0 .. m - 1 |-> 0]
             g == [kind |-> k, size |-> m, seedFromFirst |-> e, seeded |-> FALSE, state |-> 0,
                   buf |-> b, idx |-> 0, n |-> 0, sum |-> 0]
  <1>1. NewSignal(spec, e) = g
    BY DEF NewSignal
  <1>2. k \in FilterKinds /\ m \in Nat /\ m > 0 /\ Decay[m] \in 0 .. 100
    BY DEF Normalize
  <1> HIDE DEF k, m
  <1>3. b \in [0 .. m - 1 -> Int]
    OBVIOUS
  <1>4. b \in Buffers
    BY <1>2, <1>3 DEF Buffers
  <1> HIDE DEF b
  <1>5. g \in FilterSet
    BY <1>2, <1>4 DEF FilterSet
  <1>6. g.size = m /\ g.idx = 0 /\ g.buf = b
    OBVIOUS
  <1> HIDE DEF g
  <1>7. 0 \in 0 .. m - 1
    BY <1>2
  <1> QED BY <1>1, <1>2, <1>3, <1>5, <1>6, <1>7 DEF NumberFilter

(* A filter of numbers that is given a number returns one, and stays such.   *)
LEMMA FilterIsNumber ==
    ASSUME NaN \notin Int, NEW f, NumberFilter(f), NEW x \in Int
    PROVE  NumberFilter(Filtered(f, x)) /\ Output(f, x) \in Int
  <1>1. CASE Seeding(f)
    <2>1. Filtered(f, x) = Seed(f, x) /\ Output(f, x) = x
      BY <1>1 DEF Filtered, Output, Averaging, Smoothing
    <2> QED BY <2>1, SeedIsNumber
  <1>2. CASE Averaging(f)
    <2>1. Filtered(f, x) = Push(f, x) /\ Output(f, x) = Quotient(Push(f, x).sum, f.size)
      BY <1>2 DEF Filtered, Output, Averaging, Smoothing
    <2>2. NumberFilter(Push(f, x)) /\ Push(f, x).sum \in Int
      BY PushIsNumber
    <2>3. f.size \in Nat /\ f.size > 0
      BY DEF NumberFilter, FilterSet
    <2>4. Quotient(Push(f, x).sum, f.size) \in Int
      BY <2>2, <2>3, QuotientNumbers
    <2> QED BY <2>1, <2>2, <2>4
  <1>3. CASE Smoothing(f)
    <2> DEFINE s == Smooth(f, x)
               g == [f EXCEPT !.state = s, !.seeded = TRUE]
    <2>1. Filtered(f, x) = g /\ Output(f, x) = s
      BY <1>3 DEF Filtered, Output, Averaging, Smoothing
    <2>2. s \in Int
      BY SmoothIsNumber
    <2> HIDE DEF s
    <2>3. f \in FilterSet
      BY DEF NumberFilter
    <2>4. g.size = f.size /\ g.idx = f.idx /\ g.buf = f.buf
      BY <2>3 DEF FilterSet
    <2>5. g \in FilterSet
      BY <2>2, <2>3 DEF FilterSet
    <2> HIDE DEF g
    <2> QED BY <2>1, <2>2, <2>4, <2>5 DEF NumberFilter
  <1>4. CASE ~Seeding(f) /\ ~Averaging(f) /\ ~Smoothing(f)
    <2>1. Filtered(f, x) = f /\ Output(f, x) = x
      BY <1>4 DEF Filtered, Output
    <2> QED BY <2>1
  <1> QED BY <1>1, <1>2, <1>3, <1>4

-----------------------------------------------------------------------------
(* The reference.  The window of a moving average is told by its running      *)
(* totals: T[j] is what its newest j samples add up to.                       *)
Back(f, j) == IF j <= f.idx THEN f.idx - j ELSE f.idx - j + f.size

Totals(f, T) ==
    /\ f.n \in 0 .. f.size
    /\ T \in [0 .. f.size -> Int]
    /\ T[0] = 0
    /\ T[f.n] = f.sum
    /\ \A j \in 1 .. f.n : T[j] - T[j - 1] = f.buf[Back(f, j)]

(* The newest k samples are all v.                                           *)
WindowEnds(f, k, v) ==
    /\ k \in 0 .. f.n
    /\ \E T : Totals(f, T) /\ \A j \in 0 .. k : T[j] = j * v

LongWindow(f) == f.kind = "moving_average" /\ f.size > 1

(* The index of the slot after i in a ring of s.                             *)
LEMMA NextIndex ==
    ASSUME NEW s \in Nat, NEW i \in 0 .. s - 1
    PROVE  (i + 1) % s = IF i + 1 = s THEN 0 ELSE i + 1
  <1> DEFINE q == (i + 1) \div s
             r == (i + 1) % s
  <1>1. s > 0 /\ i \in Nat
    OBVIOUS
  <1>2. q \in Int /\ r \in 0 .. s - 1 /\ i + 1 = s * q + r
    BY <1>1
  <1> HIDE DEF q, r
  <1>3. q = 0 \/ q = 1
    <2>1. q < 0 => s * q <= -s
      BY <1>1, <1>2
    <2>2. q > 1 => s * q >= 2 * s
      BY <1>1, <1>2
    <2>3. ~(q < 0)
      BY <1>1, <1>2, <2>1
    <2>4. ~(q > 1)
      BY <1>1, <1>2, <2>2
    <2> QED BY <1>2, <2>3, <2>4
  <1>4. r = IF i + 1 = s THEN 0 ELSE i + 1
    <2>1. CASE q = 0
      BY <1>1, <1>2, <2>1
    <2>2. CASE q = 1
      BY <1>1, <1>2, <2>2
    <2> QED BY <1>3, <2>1, <2>2
  <1> QED BY <1>4 DEF r

(* A sample that enters the window moves every total up by itself.           *)
LEMMA PushTotals ==
    ASSUME NaN \notin Int, NEW f, NumberFilter(f), f.size > 1, NEW x \in Int,
           NEW k, NEW v \in Int, WindowEnds(f, k, v)
    PROVE  /\ WindowEnds(Push(f, x), 0, x)
           /\ x = v => WindowEnds(Push(f, x), Smaller(k + 1, f.size), v)
           /\ x = v /\ k + 1 >= f.size => Push(f, x).sum = f.size * v
  <1>1. PICK T : Totals(f, T) /\ \A j \in 0 .. k : T[j] = j * v
    BY DEF WindowEnds
  <1> DEFINE n == IF f.n = f.size THEN f.n ELSE f.n + 1
             s == Plus(IF f.n = f.size THEN Minus(f.sum, f.buf[f.idx]) ELSE f.sum, x)
             b == [f.buf EXCEPT ![f.idx] = x]
             i == (f.idx + 1) % f.size
             g == [f EXCEPT !.n = n, !.sum = s, !.buf = b, !.idx = i]
             U == [j \in 0 .. f.size |-> IF j = 0 THEN 0 ELSE x + T[j - 1]]
  <1>2. Push(f, x) = g
    BY DEF Push
  <1>3. /\ f \in FilterSet /\ f.size \in Nat /\ f.idx \in 0 .. f.size - 1
        /\ f.buf \in [0 .. f.size - 1 -> Int] /\ f.sum \in Int
    BY DEF NumberFilter, FilterSet
  <1>4. /\ f.n \in 0 .. f.size /\ T \in [0 .. f.size -> Int] /\ T[0] = 0 /\ T[f.n] = f.sum
        /\ \A j \in 1 .. f.n : T[j] - T[j - 1] = f.buf[Back(f, j)]
    BY <1>1 DEF Totals
  <1>5. i = IF f.idx + 1 = f.size THEN 0 ELSE f.idx + 1
    BY <1>3, NextIndex
  <1>6. n \in 1 .. f.size /\ n = Smaller(f.n + 1, f.size)
    BY <1>3, <1>4 DEF Smaller
  <1>7. /\ U \in [0 .. f.size -> Int] /\ U[0] = 0
        /\ \A j \in 1 .. f.size : U[j] = x + T[j - 1]
    BY <1>3, <1>4
  <1> HIDE DEF U
  <1>8. s = U[n]
    <2>1. CASE f.n = f.size
      <3>1. f.size \in 1 .. f.n /\ Back(f, f.size) = f.idx
        BY <1>3, <2>1 DEF Back
      <3>2. f.buf[f.idx] = T[f.size] - T[f.size - 1] /\ f.buf[f.idx] \in Int
        BY <1>3, <1>4, <3>1
      <3>3. s = f.sum - f.buf[f.idx] + x
        BY <1>3, <2>1, <3>2 DEF Plus, Minus
      <3>4. n = f.size /\ U[f.size] = x + T[f.size - 1]
        BY <1>7, <2>1, <3>1
      <3>5. T[f.size] = f.sum /\ T[f.size] \in Int /\ T[f.size - 1] \in Int
        BY <1>3, <1>4, <2>1
      <3> HIDE DEF s, n
      <3> QED BY <3>2, <3>3, <3>4, <3>5
    <2>2. CASE f.n # f.size
      <3>1. s = f.sum + x
        BY <1>3, <2>2 DEF Plus
      <3>2. n = f.n + 1 /\ f.n + 1 \in 1 .. f.size /\ (f.n + 1) - 1 = f.n
        <4>1. n = f.n + 1
          BY <2>2
        <4> HIDE DEF n
        <4> QED BY <1>3, <1>4, <2>2, <4>1
      <3> HIDE DEF s, n
      <3>3. U[n] = x + T[f.n]
        <4>1. U[f.n + 1] = x + T[(f.n + 1) - 1]
          BY <1>7, <3>2, Zenon
        <4> QED BY <3>2, <4>1, Zenon
      <3>4. T[f.n] = f.sum
        BY <1>4
      <3> QED BY <1>3, <3>1, <3>3, <3>4
    <2> QED BY <2>1, <2>2
  <1> HIDE DEF n, s, b, i
  <1>9. g.n = n /\ g.sum = s /\ g.buf = b /\ g.idx = i /\ g.size = f.size
    BY <1>3 DEF FilterSet
  <1> HIDE DEF g
  <1>10. \A j \in 1 .. n : U[j] - U[j - 1] = b[Back(g, j)]
    <2> SUFFICES ASSUME NEW j \in 1 .. n
                 PROVE  U[j] - U[j - 1] = b[Back(g, j)]
      OBVIOUS
    <2>1. Back(g, j) = IF j - 1 <= f.idx THEN f.idx - (j - 1) ELSE f.idx - (j - 1) + f.size
      <3>1. j \in Int /\ 1 <= j /\ j <= f.size /\ f.idx \in Int /\ f.size \in Int
            /\ 0 <= f.idx /\ f.idx < f.size
        BY <1>3, <1>6
      <3>2. Back(g, j) = IF j <= i THEN i - j ELSE i - j + f.size
        BY <1>9 DEF Back
      <3>3. CASE f.idx + 1 = f.size
        <4>1. i = 0
          BY <1>5, <3>3
        <4>2. Back(g, j) = f.size - j
          BY <3>1, <3>2, <4>1
        <4> QED BY <3>1, <3>3, <4>2
      <3>4. CASE f.idx + 1 # f.size
        <4>1. i = f.idx + 1
          BY <1>5, <3>4
        <4> QED BY <3>1, <3>2, <4>1
      <3> QED BY <3>3, <3>4
    <2>2. CASE j = 1
      <3>1. Back(g, j) = f.idx
        BY <1>3, <2>1, <2>2
      <3>2. b[f.idx] = x
        BY <1>3 DEF b
      <3>3. U[1] = x + T[0] /\ U[0] = 0
        <4>1. 1 \in 1 .. f.size /\ 1 - 1 = 0
          BY <1>3
        <4> QED BY <1>7, <4>1
      <3> QED BY <1>4, <2>2, <3>1, <3>2, <3>3
    <2>3. CASE j # 1
      <3>1. Back(g, j) = Back(f, j - 1) /\ Back(g, j) # f.idx /\ Back(g, j) \in 0 .. f.size - 1
        BY <1>3, <1>6, <2>1, <2>3 DEF Back
      <3>2. b[Back(g, j)] = f.buf[Back(f, j - 1)]
        BY <1>3, <3>1 DEF b
      <3>3. j - 1 \in 1 .. f.n
        BY <1>3, <1>4, <1>6, <2>3 DEF Smaller
      <3>4. T[j - 1] - T[j - 1 - 1] = f.buf[Back(f, j - 1)]
        BY <1>4, <3>3
      <3>5. U[j] = x + T[j - 1] /\ U[j - 1] = x + T[j - 1 - 1]
        <4>1. j \in 1 .. f.size /\ j - 1 \in 1 .. f.size
          BY <1>3, <1>6, <2>3
        <4> QED BY <1>7, <4>1
      <3>6. T[j - 1] \in Int /\ T[j - 1 - 1] \in Int
        BY <1>3, <1>4, <3>3
      <3> QED BY <3>2, <3>4, <3>5, <3>6
    <2> QED BY <2>2, <2>3
  <1>11. U[0] = 0
    BY <1>7
  <1>12. Totals(g, U)
    <2>1. g.n \in 0 .. g.size
      BY <1>3, <1>6, <1>9
    <2>2. U \in [0 .. g.size -> Int] /\ U[0] = 0 /\ U[g.n] = g.sum
      BY <1>7, <1>8, <1>9
    <2>3. \A j \in 1 .. g.n : U[j] - U[j - 1] = g.buf[Back(g, j)]
      BY <1>9, <1>10
    <2> QED BY <2>1, <2>2, <2>3 DEF Totals
  <1>13. WindowEnds(g, 0, x)
    <2>1. 0 \in 0 .. g.n
      BY <1>3, <1>6, <1>9
    <2>2. \A j \in 0 .. 0 : U[j] = j * x
      BY <1>11
    <2> QED BY <1>12, <2>1, <2>2 DEF WindowEnds
  <1>14. ASSUME x = v
         PROVE  WindowEnds(g, Smaller(k + 1, f.size), v)
                /\ (k + 1 >= f.size => g.sum = f.size * v)
    <2> DEFINE m == Smaller(k + 1, f.size)
    <2>1. k \in 0 .. f.n
      BY DEF WindowEnds
    <2>2. m \in 0 .. g.n /\ m \in Nat
      BY <1>3, <1>4, <1>6, <1>9, <2>1 DEF Smaller
    <2>3. \A j \in 0 .. m : U[j] = j * v
      <3> SUFFICES ASSUME NEW j \in 0 .. m, j # 0
                   PROVE  U[j] = j * v
        BY <1>11
      <3>1. j - 1 \in 0 .. k /\ j \in 0 .. f.size
        BY <1>3, <1>4, <2>1 DEF Smaller
      <3>2. U[j] = x + T[j - 1]
        BY <1>7, <3>1
      <3>3. T[j - 1] = (j - 1) * v
        BY <1>1, <3>1
      <3>4. j * v = v + (j - 1) * v
        BY <3>1
      <3> QED BY <1>14, <3>2, <3>3, <3>4
    <2>4. ASSUME k + 1 >= f.size
          PROVE  g.sum = f.size * v
      <3>1. m = f.size /\ n = f.size
        BY <1>3, <1>4, <1>6, <2>1, <2>4 DEF Smaller
      <3>2. f.size \in 0 .. m
        BY <1>3, <3>1
      <3> QED BY <1>8, <1>9, <2>3, <3>1, <3>2
    <2> HIDE DEF m
    <2>5. WindowEnds(g, m, v)
      BY <1>12, <2>2, <2>3 DEF WindowEnds
    <2> QED BY <2>4, <2>5 DEF m
  <1> QED BY <1>2, <1>13, <1>14

(* A seeded window holds nothing but the seed; an empty one holds nothing.   *)
LEMMA SeedTotals ==
    ASSUME NaN \notin Int, NEW f, NumberFilter(f), NEW v \in Int
    PROVE  WindowEnds(Seed(f, v), f.size, v)
  <1> DEFINE b == [i \in DOMAIN f.buf |-> v]
             s == Product(v, f.size)
             g == [f EXCEPT !.state = v, !.seeded = TRUE, !.n = f.size, !.sum = s,
                            !.idx = 0, !.buf = b]
             T == [j \in 0 .. f.size |-> j * v]
  <1>1. Seed(f, v) = g
    BY DEF Seed
  <1>2. f \in FilterSet /\ f.size \in Nat /\ f.buf \in [0 .. f.size - 1 -> Int]
    BY DEF NumberFilter, FilterSet
  <1>3. s = f.size * v
    BY <1>2 DEF Product
  <1>4. \A i \in 0 .. f.size - 1 : b[i] = v
    BY <1>2
  <1> HIDE DEF b, s
  <1>5. g.size = f.size /\ g.n = f.size /\ g.sum = s /\ g.idx = 0 /\ g.buf = b
    BY <1>2 DEF FilterSet
  <1> HIDE DEF g
  <1>6. T \in [0 .. f.size -> Int] /\ \A j \in 0 .. f.size : T[j] = j * v
    <2>1. \A j \in 0 .. f.size : j * v \in Int
      OBVIOUS
    <2> QED BY <2>1
  <1> HIDE DEF T
  <1>7. T[0] = 0 /\ T[f.size] = s
    <2>1. 0 \in 0 .. f.size /\ f.size \in 0 .. f.size
      BY <1>2
    <2>2. T[0] = 0 * v /\ T[f.size] = f.size * v
      BY <1>6, <2>1
    <2> QED BY <1>3, <2>2
  <1>8. \A j \in 1 .. f.size : T[j] - T[j - 1] = b[Back(g, j)]
    <2> SUFFICES ASSUME NEW j \in 1 .. f.size
                 PROVE  T[j] - T[j - 1] = b[Back(g, j)]
      OBVIOUS
    <2>1. Back(g, j) = f.size - j /\ f.size - j \in 0 .. f.size - 1
      BY <1>2, <1>5 DEF Back
    <2>2. b[Back(g, j)] = v
      BY <1>4, <2>1
    <2>3. j \in 0 .. f.size /\ j - 1 \in 0 .. f.size
      BY <1>2
    <2>4. T[j] = j * v /\ T[j - 1] = (j - 1) * v
      BY <1>6, <2>3
    <2>5. j * v - (j - 1) * v = v
      OBVIOUS
    <2> QED BY <2>2, <2>4, <2>5
  <1>9. Totals(g, T)
    <2>1. f.size \in 0 .. f.size
      BY <1>2
    <2> QED BY <1>5, <1>6, <1>7, <1>8, <2>1 DEF Totals
  <1>10. f.size \in 0 .. g.n
    BY <1>2, <1>5
  <1> QED BY <1>1, <1>6, <1>9, <1>10 DEF WindowEnds

LEMMA EmptyTotals ==
    ASSUME NEW f, f.size \in Nat, f.n = 0, f.sum = 0, NEW v \in Int
    PROVE  WindowEnds(f, 0, v)
  <1> DEFINE T == [j \in 0 .. f.size |-> 0]
  <1>1. T \in [0 .. f.size -> Int] /\ T[0] = 0
    OBVIOUS
  <1> HIDE DEF T
  <1>2. Totals(f, T)
    BY <1>1 DEF Totals
  <1>3. \A j \in 0 .. 0 : T[j] = j * v
    BY <1>1
  <1> QED BY <1>2, <1>3 DEF WindowEnds

(* No total is forgotten when fewer of the newest samples are asked for.     *)
LEMMA FewerEnds ==
    ASSUME NEW f, NEW k, NEW v \in Int, WindowEnds(f, k, v), NEW u \in Int
    PROVE  WindowEnds(f, 0, u)
  <1>1. PICK T : Totals(f, T)
    BY DEF WindowEnds
  <1>2. T[0] = 0 /\ f.n \in 0 .. f.size /\ k \in 0 .. f.n
    BY <1>1 DEF Totals, WindowEnds
  <1>3. \A j \in 0 .. 0 : T[j] = j * u
    BY <1>2
  <1>4. 0 \in 0 .. f.n
    BY <1>2
  <1> QED BY <1>1, <1>3, <1>4 DEF WindowEnds

(* The operations of a filter leave alone what it was made of.               *)
LEMMA KeepsSpec ==
    ASSUME NaN \notin Int, NEW f, NumberFilter(f), ~f.seedFromFirst, NEW x \in Int
    PROVE  /\ SpecOf(Filtered(f, x)) = SpecOf(f) /\ ~Filtered(f, x).seedFromFirst
           /\ SpecOf(Seed(f, x)) = SpecOf(f) /\ ~Seed(f, x).seedFromFirst
           /\ SpecOf(ResetSignal(f)) = SpecOf(f) /\ ~ResetSignal(f).seedFromFirst
  <1>1. f \in FilterSet
    BY DEF NumberFilter
  <1>2. SpecOf(Seed(f, x)) = SpecOf(f) /\ ~Seed(f, x).seedFromFirst
    BY <1>1 DEF Seed, SpecOf, FilterSet
  <1>3. SpecOf(ResetSignal(f)) = SpecOf(f) /\ ~ResetSignal(f).seedFromFirst
    BY <1>1 DEF ResetSignal, SpecOf, FilterSet
  <1>4. ~Seeding(f)
    BY DEF Seeding
  <1>5. SpecOf(Filtered(f, x)) = SpecOf(f) /\ ~Filtered(f, x).seedFromFirst
    <2>1. CASE Averaging(f)
      <3>1. Filtered(f, x) = Push(f, x)
        BY <1>4, <2>1 DEF Filtered, Averaging, Smoothing
      <3>2. SpecOf(Push(f, x)) = SpecOf(f) /\ ~Push(f, x).seedFromFirst
        BY <1>1 DEF Push, SpecOf, FilterSet
      <3> QED BY <3>1, <3>2
    <2>2. CASE Smoothing(f)
      <3>1. Filtered(f, x) = [f EXCEPT !.state = Smooth(f, x), !.seeded = TRUE]
        BY <1>4, <2>2 DEF Filtered, Averaging, Smoothing
      <3> QED BY <1>1, <3>1 DEF SpecOf, FilterSet
    <2>3. CASE ~Averaging(f) /\ ~Smoothing(f)
      <3>1. Filtered(f, x) = f
        BY <1>4, <2>3 DEF Filtered
      <3> QED BY <3>1
    <2> QED BY <2>1, <2>2, <2>3
  <1> QED BY <1>2, <1>3, <1>5

LEMMA NewKeepsSpec ==
    ASSUME NEW spec \in [kind : FilterKinds, size : Int]
    PROVE  /\ SpecOf(NewSignal(spec, FALSE)) = Normalize(spec)
           /\ ~NewSignal(spec, FALSE).seedFromFirst
           /\ NewSignal(spec, FALSE).n = 0 /\ NewSignal(spec, FALSE).sum = 0
  <1>1. Normalize(spec) = [kind |-> Normalize(spec).kind, size |-> Normalize(spec).size]
    BY DEF Normalize
  <1>2. SpecOf(NewSignal(spec, FALSE)) = [kind |-> Normalize(spec).kind, size |-> Normalize(spec).size]
    BY DEF SpecOf, NewSignal
  <1> QED BY <1>1, <1>2 DEF NewSignal

LEMMA Division ==
    ASSUME NEW m \in Int, NEW a \in Nat, a > 0
    PROVE  m \div a \in Int /\ m % a \in 0 .. a - 1 /\ m = a * (m \div a) + (m % a)
  OBVIOUS

LEMMA QuotientOfProduct ==
    ASSUME NEW a \in Nat, a > 0, NEW b \in Int
    PROVE  (a * b) \div a = b
  <1> DEFINE q == (a * b) \div a
             r == (a * b) % a
  <1>1. q \in Int /\ r \in 0 .. a - 1 /\ a * b = a * q + r
    <2>1. a * b \in Int
      OBVIOUS
    <2> QED BY <2>1, Division
  <1> HIDE DEF q, r
  <1>2. a * (b - q) = r
    <2>1. a * (b - q) = a * b - a * q /\ a * b \in Int /\ a * q \in Int
      BY <1>1
    <2> QED BY <1>1, <2>1
  <1>3. b - q >= 1 => a * (b - q) >= a
    BY <1>1
  <1>4. b - q <= -1 => a * (b - q) <= -a
    BY <1>1
  <1>5. b - q = 0
    BY <1>1, <1>2, <1>3, <1>4
  <1> QED BY <1>1, <1>5 DEF q
================================================================================
