--------------------------- MODULE SignalFilter_proofs ---------------------------
(****************************************************************************)
(* Proofs about SignalFilter, for any filters and any samples that are        *)
(* numbers: what a filter returns is no further out than what it was given,   *)
(* and a moving average returns the mean that SlidingMean promises.           *)
(****************************************************************************)
EXTENDS SignalFilter, Control_proofs, SequenceTheorems, WellFoundedInduction

-----------------------------------------------------------------------------
(* The ring, told by its running totals: T[j] is what its newest j places add *)
(* up to, where places that no sample has reached hold zero.                  *)
Ring(g, T) ==
    /\ g.n \in 0 .. g.size
    /\ T \in [0 .. g.size -> Int]
    /\ T[0] = 0
    /\ T[g.size] = g.sum
    /\ \A j \in 1 .. g.size : T[j] - T[j - 1] = g.buf[Back(g, j)]
    /\ \A j \in 1 .. g.size : j > g.n => g.buf[Back(g, j)] = 0

(* The totals after one more sample.                                         *)
Shifted(g, T, x) == [j \in 0 .. g.size |-> IF j = 0 THEN 0 ELSE x + T[j - 1]]

(* The place before the one that is j back is j + 1 back.                    *)
LEMMA BackAfterPush ==
    ASSUME NEW g, NumberFilter(g), NEW h, h.size = g.size,
           h.idx = (g.idx + 1) % g.size, NEW j \in 1 .. g.size
    PROVE  /\ j = 1 => Back(h, j) = g.idx
           /\ j # 1 => Back(h, j) = Back(g, j - 1) /\ Back(h, j) # g.idx
                       /\ Back(h, j) \in 0 .. g.size - 1
  <1>1. g.size \in Nat /\ g.idx \in 0 .. g.size - 1
    BY DEF NumberFilter, FilterSet
  <1>2. h.idx = IF g.idx + 1 = g.size THEN 0 ELSE g.idx + 1
    BY <1>1, NextIndex
  <1>3. j \in Int /\ 1 <= j /\ j <= g.size /\ g.idx \in Int /\ 0 <= g.idx /\ g.idx < g.size
    BY <1>1
  <1>4. Back(h, j) = IF j - 1 <= g.idx THEN g.idx - (j - 1) ELSE g.idx - (j - 1) + g.size
    <2>1. Back(h, j) = IF j <= h.idx THEN h.idx - j ELSE h.idx - j + g.size
      BY DEF Back
    <2>2. CASE g.idx + 1 = g.size
      <3>1. h.idx = 0
        BY <1>2, <2>2
      <3> QED BY <1>1, <1>3, <2>1, <2>2, <3>1
    <2>3. CASE g.idx + 1 # g.size
      <3>1. h.idx = g.idx + 1
        BY <1>2, <2>3
      <3> QED BY <1>1, <1>3, <2>1, <3>1
    <2> QED BY <2>2, <2>3
  <1>5. CASE j = 1
    BY <1>1, <1>3, <1>4, <1>5
  <1>6. CASE j # 1
    BY <1>1, <1>3, <1>4, <1>6 DEF Back
  <1> QED BY <1>5, <1>6

(* A sample that enters the ring moves every total up by itself and drops    *)
(* the oldest.                                                               *)
LEMMA PushRing ==
    ASSUME NaN \notin Int, NEW g, NumberFilter(g), NEW x \in Int, NEW T, Ring(g, T)
    PROVE  Ring(Push(g, x), Shifted(g, T, x))
  <1> DEFINE n == IF g.n = g.size THEN g.n ELSE g.n + 1
             s == Plus(IF g.n = g.size THEN Minus(g.sum, g.buf[g.idx]) ELSE g.sum, x)
             b == [g.buf EXCEPT ![g.idx] = x]
             i == (g.idx + 1) % g.size
             h == [g EXCEPT !.n = n, !.sum = s, !.buf = b, !.idx = i]
             U == Shifted(g, T, x)
  <1>1. Push(g, x) = h
    BY DEF Push
  <1>2. /\ g \in FilterSet /\ g.size \in Nat /\ g.size > 0 /\ g.idx \in 0 .. g.size - 1
        /\ g.buf \in [0 .. g.size - 1 -> Int] /\ g.sum \in Int
    BY DEF NumberFilter, FilterSet
  <1>3. /\ g.n \in 0 .. g.size /\ T \in [0 .. g.size -> Int] /\ T[0] = 0 /\ T[g.size] = g.sum
        /\ \A j \in 1 .. g.size : T[j] - T[j - 1] = g.buf[Back(g, j)]
        /\ \A j \in 1 .. g.size : j > g.n => g.buf[Back(g, j)] = 0
    BY DEF Ring
  <1>4. n \in 1 .. g.size /\ (n = g.size \/ n = g.n + 1)
    BY <1>2, <1>3
  <1>5. /\ U \in [0 .. g.size -> Int] /\ U[0] = 0
        /\ \A j \in 1 .. g.size : U[j] = x + T[j - 1]
    BY <1>2, <1>3 DEF Shifted
  <1> HIDE DEF U
  <1>6. U[g.size] = s
    <2>1. g.size \in 1 .. g.size /\ Back(g, g.size) = g.idx
      BY <1>2 DEF Back
    <2>2. T[g.size] - T[g.size - 1] = g.buf[g.idx] /\ U[g.size] = x + T[g.size - 1]
      BY <1>3, <1>5, <2>1
    <2>3. T[g.size - 1] \in Int /\ g.buf[g.idx] \in Int
      <3>1. g.size - 1 \in 0 .. g.size
        BY <1>2
      <3> QED BY <1>2, <1>3, <3>1
    <2>4. CASE g.n = g.size
      <3>1. s = g.sum - g.buf[g.idx] + x
        BY <1>2, <2>3, <2>4 DEF Plus, Minus
      <3> HIDE DEF s
      <3> QED BY <1>2, <1>3, <2>2, <2>3, <3>1
    <2>5. CASE g.n # g.size
      <3>1. s = g.sum + x
        BY <1>2, <2>5 DEF Plus
      <3>2. g.buf[g.idx] = 0
        <4>1. g.size > g.n
          BY <1>2, <1>3, <2>5
        <4> QED BY <1>3, <2>1, <4>1
      <3> HIDE DEF s
      <3> QED BY <1>2, <1>3, <2>2, <2>3, <3>1, <3>2
    <2> QED BY <2>4, <2>5
  <1> HIDE DEF n, s, b
  <1>7. h.n = n /\ h.sum = s /\ h.buf = b /\ h.idx = i /\ h.size = g.size
    BY <1>2 DEF FilterSet
  <1> HIDE DEF h
  <1>8. ASSUME NEW j \in 1 .. g.size
        PROVE  /\ j = 1 => b[Back(h, j)] = x
               /\ j # 1 => b[Back(h, j)] = g.buf[Back(g, j - 1)]
    <2>1. j = 1 => Back(h, j) = g.idx
      BY <1>7, BackAfterPush
    <2>2. j # 1 => Back(h, j) = Back(g, j - 1) /\ Back(h, j) # g.idx
                   /\ Back(h, j) \in 0 .. g.size - 1
      BY <1>7, BackAfterPush
    <2>3. b[g.idx] = x /\ \A k \in 0 .. g.size - 1 : k # g.idx => b[k] = g.buf[k]
      BY <1>2 DEF b
    <2> QED BY <2>1, <2>2, <2>3
  <1> HIDE DEF i
  <1>9. \A j \in 1 .. g.size : U[j] - U[j - 1] = b[Back(h, j)]
    <2> SUFFICES ASSUME NEW j \in 1 .. g.size
                 PROVE  U[j] - U[j - 1] = b[Back(h, j)]
      OBVIOUS
    <2>1. CASE j = 1
      <3>1. U[1] = x + T[0] /\ 1 - 1 = 0
        <4>1. 1 \in 1 .. g.size /\ 1 - 1 = 0
          BY <1>2
        <4> QED BY <1>5, <4>1
      <3>2. b[Back(h, 1)] = x
        BY <1>8, <2>1
      <3> QED BY <1>3, <1>5, <2>1, <3>1, <3>2
    <2>2. CASE j # 1
      <3>1. j - 1 \in 1 .. g.size /\ j - 1 - 1 \in 0 .. g.size /\ j - 1 \in 0 .. g.size
        BY <1>2, <2>2
      <3>2. U[j] = x + T[j - 1] /\ U[j - 1] = x + T[j - 1 - 1]
        BY <1>5, <3>1
      <3>3. T[j - 1] - T[j - 1 - 1] = g.buf[Back(g, j - 1)]
        BY <1>3, <3>1
      <3>4. T[j - 1] \in Int /\ T[j - 1 - 1] \in Int
        BY <1>3, <3>1
      <3>5. b[Back(h, j)] = g.buf[Back(g, j - 1)]
        BY <1>8, <2>2
      <3> QED BY <3>2, <3>3, <3>4, <3>5
    <2> QED BY <2>1, <2>2
  <1>10. \A j \in 1 .. g.size : j > n => b[Back(h, j)] = 0
    <2> SUFFICES ASSUME NEW j \in 1 .. g.size, j > n
                 PROVE  b[Back(h, j)] = 0
      OBVIOUS
    <2>1. j # 1 /\ j - 1 \in 1 .. g.size /\ j - 1 > g.n
      BY <1>2, <1>3, <1>4
    <2> QED BY <1>3, <1>8, <2>1
  <1>11. h.n \in 0 .. h.size
    BY <1>2, <1>4, <1>7
  <1>12. Ring(h, U)
    BY <1>5, <1>6, <1>7, <1>9, <1>10, <1>11 DEF Ring
  <1> QED BY <1>1, <1>12 DEF U

(* A ring that holds one value everywhere.                                   *)
Multiple(g, v) == [j \in 0 .. g.size |-> j * v]

LEMMA LevelRing ==
    ASSUME NEW g, g.size \in Nat, NEW v \in Int, g.idx = 0, g.n \in 0 .. g.size,
           \A i \in 0 .. g.size - 1 : g.buf[i] = v,
           g.sum = g.size * v, v = 0 \/ g.n = g.size
    PROVE  Ring(g, Multiple(g, v))
  <1> DEFINE T == Multiple(g, v)
  <1>1. T \in [0 .. g.size -> Int] /\ \A j \in 0 .. g.size : T[j] = j * v
    <2>1. \A j \in 0 .. g.size : j * v \in Int
      OBVIOUS
    <2> QED BY <2>1 DEF Multiple
  <1> HIDE DEF T
  <1>2. T[0] = 0 /\ T[g.size] = g.sum
    <2>1. 0 \in 0 .. g.size /\ g.size \in 0 .. g.size /\ 0 * v = 0
      OBVIOUS
    <2> QED BY <1>1, <2>1
  <1>3. \A j \in 1 .. g.size : g.buf[Back(g, j)] = v
    <2> SUFFICES ASSUME NEW j \in 1 .. g.size
                 PROVE  g.buf[Back(g, j)] = v
      OBVIOUS
    <2>1. Back(g, j) = g.size - j /\ g.size - j \in 0 .. g.size - 1
      BY DEF Back
    <2> QED BY <2>1
  <1>4. \A j \in 1 .. g.size : T[j] - T[j - 1] = v
    <2> SUFFICES ASSUME NEW j \in 1 .. g.size
                 PROVE  T[j] - T[j - 1] = v
      OBVIOUS
    <2>1. j \in 0 .. g.size /\ j - 1 \in 0 .. g.size
      OBVIOUS
    <2>2. T[j] = j * v /\ T[j - 1] = (j - 1) * v
      BY <1>1, <2>1
    <2>3. j * v - (j - 1) * v = v
      OBVIOUS
    <2> QED BY <2>2, <2>3
  <1>5. \A j \in 1 .. g.size : j > g.n => g.buf[Back(g, j)] = 0
    BY <1>3
  <1> QED BY <1>1, <1>2, <1>3, <1>4, <1>5 DEF Ring, T

-----------------------------------------------------------------------------
(* What a filter holds lies within the range of what it was given: the state  *)
(* of an exponential one, and every running total of a moving average.        *)
Within(g, lo, hi) ==
    /\ lo <= g.state /\ g.state <= hi
    /\ \E T : Ring(g, T) /\ \A k \in 0 .. g.size : k * lo <= T[k] /\ T[k] <= k * hi

Held(g, S) == \E lo, hi \in S : Within(g, lo, hi)

LEMMA Scaled ==
    ASSUME NEW k \in Nat, NEW a \in Int, NEW b \in Int, a <= b
    PROVE  k * a <= k * b
  <1>1. k * (b - a) >= 0
    OBVIOUS
  <1> QED BY <1>1

LEMMA DivisionWithin ==
    ASSUME NEW m \in Int, NEW a \in Nat, a > 0, NEW lo \in Int, NEW hi \in Int,
           a * lo <= m, m <= a * hi
    PROVE  m \div a \in Int /\ lo <= m \div a /\ m \div a <= hi
  <1> DEFINE q == m \div a
             r == m % a
  <1>1. q \in Int /\ r \in 0 .. a - 1 /\ m = a * q + r
    BY Division
  <1> HIDE DEF q, r
  <1>2. lo <= q
    <2> SUFFICES ASSUME q + 1 <= lo
                 PROVE  FALSE
      BY <1>1
    <2>1. a * (q + 1) <= a * lo /\ a * (q + 1) = a * q + a
      BY <1>1, Scaled
    <2> QED BY <1>1, <2>1
  <1>3. q <= hi
    <2> SUFFICES ASSUME hi + 1 <= q
                 PROVE  FALSE
      BY <1>1
    <2>1. a * (hi + 1) <= a * q /\ a * (hi + 1) = a * hi + a
      BY <1>1, Scaled
    <2> QED BY <1>1, <2>1
  <1> QED BY <1>1, <1>2, <1>3 DEF q

(* The range that takes in one more sample.                                  *)
LEMMA Wider ==
    ASSUME NEW S \in SUBSET Int, NEW lo \in S, NEW hi \in S, NEW x \in Int
    PROVE  /\ Smaller(lo, x) \in S \cup {x} /\ Larger(hi, x) \in S \cup {x}
           /\ Smaller(lo, x) \in Int /\ Larger(hi, x) \in Int
           /\ Smaller(lo, x) <= lo /\ Smaller(lo, x) <= x
           /\ hi <= Larger(hi, x) /\ x <= Larger(hi, x)
  BY DEF Smaller, Larger

LEMMA SeedHeld ==
    ASSUME NaN \notin Int, NEW g, NumberFilter(g), NEW v \in Int, NEW S \in SUBSET Int, v \in S
    PROVE  Held(Seed(g, v), S)
  <1> DEFINE b == [i \in DOMAIN g.buf |-> v]
             s == Product(v, g.size)
             h == [g EXCEPT !.state = v, !.seeded = TRUE, !.n = g.size, !.sum = s,
                            !.idx = 0, !.buf = b]
  <1>1. Seed(g, v) = h
    BY DEF Seed
  <1>2. g \in FilterSet /\ g.size \in Nat /\ g.buf \in [0 .. g.size - 1 -> Int]
    BY DEF NumberFilter, FilterSet
  <1>3. s = g.size * v
    BY <1>2 DEF Product
  <1>4. \A i \in 0 .. g.size - 1 : b[i] = v
    BY <1>2
  <1> HIDE DEF b, s
  <1>5. h.size = g.size /\ h.n = g.size /\ h.sum = s /\ h.idx = 0 /\ h.buf = b /\ h.state = v
    BY <1>2 DEF FilterSet
  <1> HIDE DEF h
  <1>6. Ring(h, Multiple(h, v))
    <2>1. h.size \in Nat /\ h.n \in 0 .. h.size /\ h.sum = h.size * v
          /\ \A i \in 0 .. h.size - 1 : h.buf[i] = v
      BY <1>2, <1>3, <1>4, <1>5
    <2> QED BY <1>5, <2>1, LevelRing
  <1>7. \A k \in 0 .. h.size : k * v <= Multiple(h, v)[k] /\ Multiple(h, v)[k] <= k * v
    BY DEF Multiple
  <1>8. Within(h, v, v)
    BY <1>5, <1>6, <1>7 DEF Within
  <1> QED BY <1>1, <1>8 DEF Held

(* A filter that starts from zero holds nothing but zeros.                   *)
LEMMA ZeroHeld ==
    ASSUME NEW g, g.size \in Nat, g.state = 0, g.idx = 0, g.n = 0, g.sum = 0,
           \A i \in 0 .. g.size - 1 : g.buf[i] = 0, NEW S \in SUBSET Int, 0 \in S
    PROVE  Held(g, S)
  <1>1. Ring(g, Multiple(g, 0))
    <2>1. g.n \in 0 .. g.size /\ g.sum = g.size * 0 /\ 0 \in Int
      OBVIOUS
    <2> QED BY <2>1, LevelRing
  <1>2. \A k \in 0 .. g.size : k * 0 <= Multiple(g, 0)[k] /\ Multiple(g, 0)[k] <= k * 0
    BY DEF Multiple
  <1>3. Within(g, 0, 0)
    BY <1>1, <1>2 DEF Within
  <1> QED BY <1>3 DEF Held

LEMMA StillHeld ==
    ASSUME NEW g, NEW S, NEW R, S \subseteq R, Held(g, S)
    PROVE  Held(g, R)
  BY DEF Held

(* The mean that a push leads to, and the totals after it.                   *)
LEMMA PushHeld ==
    ASSUME NaN \notin Int, NEW g, NumberFilter(g), NEW x \in Int, NEW S \in SUBSET Int,
           Held(g, S)
    PROVE  /\ Held(Push(g, x), S \cup {x})
           /\ \E lo, hi \in S \cup {x} : /\ lo <= Quotient(Push(g, x).sum, g.size)
                                         /\ Quotient(Push(g, x).sum, g.size) <= hi
  <1>1. PICK lo \in S, hi \in S : Within(g, lo, hi)
    BY DEF Held
  <1>2. PICK T : Ring(g, T) /\ \A k \in 0 .. g.size : k * lo <= T[k] /\ T[k] <= k * hi
    BY <1>1 DEF Within
  <1> DEFINE h == Push(g, x)
             U == Shifted(g, T, x)
             l == Smaller(lo, x)
             u == Larger(hi, x)
  <1>3. Ring(h, U)
    BY <1>2, PushRing
  <1>4. h.size = g.size /\ g.size \in Nat /\ g.size > 0 /\ h.sum \in Int
    BY PushIsNumber DEF NumberFilter, FilterSet
  <1>5. h.state = g.state
    <2>1. g \in FilterSet
      BY DEF NumberFilter
    <2> QED BY <2>1 DEF Push, FilterSet
  <1>6. T \in [0 .. g.size -> Int] /\ U \in [0 .. g.size -> Int] /\ U[g.size] = h.sum
    BY <1>2, <1>3, <1>4 DEF Ring
  <1>7. /\ l \in S \cup {x} /\ u \in S \cup {x} /\ l \in Int /\ u \in Int
        /\ l <= lo /\ l <= x /\ hi <= u /\ x <= u
    BY Wider
  <1>8. U[0] = 0 /\ \A k \in 1 .. g.size : U[k] = x + T[k - 1]
    BY <1>4 DEF Shifted
  <1> HIDE DEF h, U, l, u
  <1>9. \A k \in 0 .. g.size : k * l <= U[k] /\ U[k] <= k * u
    <2> SUFFICES ASSUME NEW k \in 0 .. g.size
                 PROVE  k * l <= U[k] /\ U[k] <= k * u
      OBVIOUS
    <2>1. CASE k = 0
      <3>1. 0 * l = 0 /\ 0 * u = 0
        BY <1>7
      <3> QED BY <1>8, <2>1, <3>1
    <2>2. CASE k # 0
      <3>1. k \in 1 .. g.size /\ k - 1 \in 0 .. g.size /\ k - 1 \in Nat
        BY <1>4, <2>2
      <3>2. (k - 1) * lo <= T[k - 1] /\ T[k - 1] <= (k - 1) * hi /\ U[k] = x + T[k - 1]
            /\ T[k - 1] \in Int
        BY <1>2, <1>6, <1>8, <3>1
      <3>3. lo \in Int /\ hi \in Int
        OBVIOUS
      <3>4. (k - 1) * l <= (k - 1) * lo /\ (k - 1) * hi <= (k - 1) * u
        BY <1>7, <3>1, <3>3, Scaled
      <3>5. k * l = l + (k - 1) * l /\ k * u = u + (k - 1) * u
        BY <1>7, <3>1
      <3>6. (k - 1) * l \in Int /\ (k - 1) * lo \in Int /\ (k - 1) * hi \in Int /\ (k - 1) * u \in Int
        BY <1>7, <3>1, <3>3
      <3> QED BY <1>7, <3>2, <3>4, <3>5, <3>6
    <2> QED BY <2>1, <2>2
  <1>10. Held(h, S \cup {x})
    <2>1. l <= g.state /\ g.state <= u
      <3>1. lo <= g.state /\ g.state <= hi /\ g.state \in Int
        BY <1>1 DEF Within, NumberFilter, FilterSet
      <3> QED BY <1>7, <3>1
    <2>2. Within(h, l, u)
      BY <1>3, <1>4, <1>5, <1>9, <2>1 DEF Within
    <2> QED BY <1>7, <2>2 DEF Held
  <1>11. g.size * l <= h.sum /\ h.sum <= g.size * u
    <2>1. g.size \in 0 .. g.size
      BY <1>4
    <2> QED BY <1>6, <1>9, <2>1
  <1>12. Quotient(h.sum, g.size) = h.sum \div g.size
    BY <1>4 DEF Quotient
  <1>13. l <= h.sum \div g.size /\ h.sum \div g.size <= u
    BY <1>4, <1>7, <1>11, DivisionWithin
  <1> QED BY <1>7, <1>10, <1>12, <1>13 DEF h

(* An exponential filter returns a mean, weighted in hundredths, of what it  *)
(* held and what it is given.                                                *)
LEMMA SmoothHeld ==
    ASSUME NaN \notin Int, NEW g, NumberFilter(g), NEW x \in Int, NEW S \in SUBSET Int,
           Held(g, S)
    PROVE  /\ Held([g EXCEPT !.state = Smooth(g, x), !.seeded = TRUE], S \cup {x})
           /\ \E lo, hi \in S \cup {x} : lo <= Smooth(g, x) /\ Smooth(g, x) <= hi
  <1>1. PICK lo \in S, hi \in S : Within(g, lo, hi)
    BY DEF Held
  <1>2. PICK T : Ring(g, T) /\ \A k \in 0 .. g.size : k * lo <= T[k] /\ T[k] <= k * hi
    BY <1>1 DEF Within
  <1> DEFINE a == Decay[g.size]
             w == 100 - a
             s == Smooth(g, x)
             h == [g EXCEPT !.state = s, !.seeded = TRUE]
             l == Smaller(lo, x)
             u == Larger(hi, x)
  <1>3. a \in Nat /\ w \in Nat /\ a + w = 100 /\ g.state \in Int /\ g.size \in Nat
    <2>1. a \in 0 .. 100
      BY DEF NumberFilter
    <2>2. g.state \in Int /\ g.size \in Nat
      BY DEF NumberFilter, FilterSet
    <2> HIDE DEF a
    <2>3. a \in Nat /\ 100 - a \in Nat /\ a + (100 - a) = 100
      BY <2>1
    <2> QED BY <2>2, <2>3
  <1>4. s \in Int
    BY SmoothIsNumber
  <1>5. s = (g.state * a + x * w) \div 100
    <2> HIDE DEF a
    <2>1. Product(g.state, a) = g.state * a /\ Product(x, w) = x * w
      BY <1>3 DEF Product
    <2>2. g.state * a \in Int /\ x * w \in Int
      BY <1>3
    <2>3. Plus(g.state * a, x * w) = g.state * a + x * w /\ g.state * a + x * w \in Int
      BY <2>2 DEF Plus
    <2>4. Quotient(g.state * a + x * w, 100) = (g.state * a + x * w) \div 100
      BY <2>3 DEF Quotient
    <2> QED BY <2>1, <2>3, <2>4 DEF Smooth, a
  <1>6. /\ l \in S \cup {x} /\ u \in S \cup {x} /\ l \in Int /\ u \in Int
        /\ l <= lo /\ l <= x /\ hi <= u /\ x <= u
    BY Wider
  <1>7. lo <= g.state /\ g.state <= hi /\ l <= g.state /\ g.state <= u
    <2>1. lo <= g.state /\ g.state <= hi /\ lo \in Int /\ hi \in Int
      BY <1>1 DEF Within
    <2> QED BY <1>3, <1>6, <2>1
  <1> HIDE DEF a, w, s, l, u
  <1>8. 100 * l <= g.state * a + x * w /\ g.state * a + x * w <= 100 * u
    <2>1. a * l <= a * g.state /\ a * g.state <= a * u
      BY <1>3, <1>6, <1>7, Scaled
    <2>2. w * l <= w * x /\ w * x <= w * u
      BY <1>3, <1>6, Scaled
    <2>3. a * l + w * l = 100 * l /\ a * u + w * u = 100 * u
      <3>1. w = 100 - a
        BY <1>3
      <3> QED BY <1>3, <1>6, <3>1
    <2>4. a * g.state = g.state * a /\ w * x = x * w
      BY <1>3
    <2>5. /\ a * l \in Int /\ w * l \in Int /\ a * u \in Int /\ w * u \in Int
          /\ g.state * a \in Int /\ x * w \in Int
      BY <1>3, <1>6
    <2>6. a * l <= g.state * a /\ g.state * a <= a * u /\ w * l <= x * w /\ x * w <= w * u
      BY <2>1, <2>2, <2>4
    <2> QED BY <2>3, <2>5, <2>6
  <1>9. l <= s /\ s <= u
    <2>1. g.state * a + x * w \in Int
      BY <1>3
    <2> QED BY <1>5, <1>6, <1>8, <2>1, DivisionWithin
  <1>10. h.state = s /\ h.size = g.size /\ h.n = g.n /\ h.sum = g.sum /\ h.buf = g.buf
         /\ h.idx = g.idx
    <2>1. g \in FilterSet
      BY DEF NumberFilter
    <2> QED BY <2>1 DEF FilterSet
  <1> HIDE DEF h
  <1>11. Ring(h, T)
    <2>1. \A j : Back(h, j) = Back(g, j)
      BY <1>10 DEF Back
    <2> QED BY <1>2, <1>10, <2>1 DEF Ring
  <1>12. \A k \in 0 .. h.size : k * l <= T[k] /\ T[k] <= k * u
    <2> SUFFICES ASSUME NEW k \in 0 .. g.size
                 PROVE  k * l <= T[k] /\ T[k] <= k * u
      BY <1>10
    <2>1. k * lo <= T[k] /\ T[k] <= k * hi /\ T[k] \in Int
      BY <1>2 DEF Ring
    <2>2. k * l <= k * lo /\ k * hi <= k * u
      <3>1. k \in Nat /\ lo \in Int /\ hi \in Int
        BY <1>3
      <3> QED BY <1>6, <3>1, Scaled
    <2>3. k * l \in Int /\ k * lo \in Int /\ k * hi \in Int /\ k * u \in Int
      BY <1>3, <1>6
    <2> QED BY <2>1, <2>2, <2>3
  <1>13. Within(h, l, u)
    BY <1>9, <1>10, <1>11, <1>12 DEF Within
  <1> QED BY <1>6, <1>9, <1>13 DEF Held, h, s

-----------------------------------------------------------------------------
(* The invariant: the filter deals in numbers, and once it has a past that   *)
(* past lies within what it was given.                                       *)
Started(g) == g.kind # "none" /\ ~Seeding(g)

FilterInv ==
    /\ NumberFilter(f)
    /\ seen \subseteq Int
    /\ f.seedFromFirst \in BOOLEAN
    /\ Started(f) => Held(f, seen)

LEMMA NumberSamples ==
    ASSUME NaN \notin Samples
    PROVE  Samples \subseteq Int /\ NaN \notin Int /\ 0 \in Samples
  BY SignalAssumption

LEMMA FilterInvInit ==
    ASSUME NaN \notin Samples, Init
    PROVE  FilterInv
  <1>1. PICK s \in Specs, b \in BOOLEAN : f = NewSignal(s, b)
    BY DEF Init
  <1>2. NumberFilter(f)
    <2>1. s \in [kind : FilterKinds, size : Int] /\ Decay[Normalize(s).size] \in 0 .. 100
      BY SignalAssumption
    <2> QED BY <1>1, <2>1, NewIsNumber
  <1>3. f.seedFromFirst = b /\ f.seeded = FALSE /\ f.state = 0 /\ f.idx = 0 /\ f.n = 0 /\ f.sum = 0
        /\ f.buf = [i \in 0 .. f.size - 1 |-> 0]
    BY <1>1 DEF NewSignal
  <1>4. seen \subseteq Int
    BY DEF Init, Origin
  <1>5. ASSUME Started(f)
        PROVE  Held(f, seen)
    <2>1. ~f.seedFromFirst
      BY <1>3, <1>5 DEF Started, Seeding
    <2>2. seen = {0}
      BY <2>1 DEF Init, Origin
    <2>3. f.size \in Nat /\ \A i \in 0 .. f.size - 1 : f.buf[i] = 0
      BY <1>2, <1>3 DEF NumberFilter, FilterSet
    <2> QED BY <1>3, <2>2, <2>3, ZeroHeld
  <1> QED BY <1>2, <1>3, <1>4, <1>5 DEF FilterInv

(* A sample that is filtered, and what Filter returns for it.                *)
LEMMA FilterKeeps ==
    ASSUME NaN \notin Samples, FilterInv, NEW x \in Samples, Filter(x)
    PROVE  /\ FilterInv'
           /\ \E lo, hi \in seen' : lo <= out' /\ out' <= hi
  <1>1. x \in Int /\ NaN \notin Int
    BY NumberSamples
  <1>2. f' = Filtered(f, x) /\ out' = Output(f, x) /\ seen' = seen \cup {x}
    BY DEF Filter
  <1>3. NumberFilter(f) /\ seen \in SUBSET Int /\ (Started(f) => Held(f, seen))
    BY DEF FilterInv
  <1>4. NumberFilter(f')
    BY <1>1, <1>2, <1>3, FilterIsNumber
  <1>5. seen' \in SUBSET Int /\ x \in seen'
    BY <1>1, <1>2, <1>3
  <1>6. f'.seedFromFirst \in BOOLEAN
    BY <1>4 DEF NumberFilter, FilterSet
  <1>7. \/ Held(f', seen') /\ \E lo, hi \in seen' : lo <= out' /\ out' <= hi
        \/ f' = f /\ out' = x
    <2>1. CASE Seeding(f)
      <3>1. f' = Seed(f, x) /\ out' = x
        BY <1>2, <2>1 DEF Filtered, Output, Averaging, Smoothing
      <3>2. Held(Seed(f, x), seen')
        BY <1>1, <1>3, <1>5, SeedHeld
      <3>3. x <= x
        BY <1>1
      <3> QED BY <1>5, <3>1, <3>2, <3>3
    <2>2. CASE Averaging(f)
      <3>1. f' = Push(f, x) /\ out' = Quotient(Push(f, x).sum, f.size) /\ Started(f)
        BY <1>2, <2>2 DEF Filtered, Output, Averaging, Smoothing, Started
      <3>2. /\ Held(Push(f, x), seen \cup {x})
            /\ \E lo, hi \in seen \cup {x} : /\ lo <= Quotient(Push(f, x).sum, f.size)
                                             /\ Quotient(Push(f, x).sum, f.size) <= hi
        BY <1>1, <1>3, <3>1, PushHeld
      <3> QED BY <1>2, <3>1, <3>2
    <2>3. CASE Smoothing(f)
      <3>1. /\ f' = [f EXCEPT !.state = Smooth(f, x), !.seeded = TRUE]
            /\ out' = Smooth(f, x) /\ Started(f)
        BY <1>2, <2>3 DEF Filtered, Output, Averaging, Smoothing, Started
      <3>2. /\ Held([f EXCEPT !.state = Smooth(f, x), !.seeded = TRUE], seen \cup {x})
            /\ \E lo, hi \in seen \cup {x} : lo <= Smooth(f, x) /\ Smooth(f, x) <= hi
        BY <1>1, <1>3, <3>1, SmoothHeld
      <3> QED BY <1>2, <3>1, <3>2
    <2>4. CASE ~Seeding(f) /\ ~Averaging(f) /\ ~Smoothing(f)
      <3>1. f' = f /\ out' = x
        BY <1>2, <2>4 DEF Filtered, Output
      <3> QED BY <3>1
    <2> QED BY <2>1, <2>2, <2>3, <2>4
  <1>8. Started(f') => Held(f', seen')
    <2>1. f' = f => (Started(f') => Started(f))
      BY DEF Started, Seeding
    <2>2. f' = f /\ Started(f) => Held(f', seen')
      BY <1>2, <1>3, StillHeld
    <2> QED BY <1>7, <2>1, <2>2
  <1>9. \E lo, hi \in seen' : lo <= out' /\ out' <= hi
    <2>1. x <= x
      BY <1>1
    <2> QED BY <1>5, <1>7, <2>1
  <1> QED BY <1>4, <1>5, <1>6, <1>8, <1>9 DEF FilterInv

LEMMA FilterInvStep ==
    ASSUME NaN \notin Samples, FilterInv, [Next]_vars
    PROVE  FilterInv'
  <1>1. NumberFilter(f) /\ seen \in SUBSET Int /\ (Started(f) => Held(f, seen))
        /\ f.seedFromFirst \in BOOLEAN
    BY DEF FilterInv
  <1>2. ASSUME NEW x \in Samples, Filter(x)
        PROVE  FilterInv'
    BY <1>2, FilterKeeps
  <1>3. ASSUME NEW v \in Samples, SeedWith(v)
        PROVE  FilterInv'
    <2>1. v \in Int /\ NaN \notin Int
      BY NumberSamples
    <2>2. f' = Seed(f, v) /\ seen' = {v}
      BY <1>3 DEF SeedWith
    <2>3. NumberFilter(f')
      BY <1>1, <2>1, <2>2, SeedIsNumber
    <2>4. Held(f', seen')
      BY <1>1, <2>1, <2>2, SeedHeld
    <2>5. f'.seedFromFirst \in BOOLEAN /\ seen' \subseteq Int
      BY <2>1, <2>2, <2>3 DEF NumberFilter, FilterSet
    <2> QED BY <2>3, <2>4, <2>5 DEF FilterInv
  <1>4. CASE Reset
    <2>1. f' = ResetSignal(f) /\ seen' = Origin(f)
      BY <1>4 DEF Reset
    <2>2. NumberFilter(f')
      BY <1>1, <2>1, ResetIsNumber
    <2>3. /\ f'.seedFromFirst = f.seedFromFirst /\ f'.seeded = FALSE /\ f'.state = 0
          /\ f'.idx = 0 /\ f'.n = 0 /\ f'.sum = 0 /\ f'.size = f.size
          /\ f'.buf = [i \in DOMAIN f.buf |-> 0]
      BY <1>1, <2>1 DEF ResetSignal, NumberFilter, FilterSet
    <2>4. f'.size \in Nat /\ \A i \in 0 .. f'.size - 1 : f'.buf[i] = 0
      BY <1>1, <2>3 DEF NumberFilter, FilterSet
    <2>5. seen' \subseteq Int
      BY <2>1 DEF Origin
    <2>6. ASSUME Started(f')
          PROVE  Held(f', seen')
      <3>1. ~f.seedFromFirst
        BY <2>3, <2>6 DEF Started, Seeding
      <3>2. seen' = {0}
        BY <2>1, <3>1 DEF Origin
      <3> QED BY <2>3, <2>4, <3>2, ZeroHeld
    <2> QED BY <1>1, <2>2, <2>3, <2>5, <2>6 DEF FilterInv
  <1>5. CASE UNCHANGED vars
    BY <1>1, <1>5 DEF vars, FilterInv
  <1> QED BY <1>2, <1>3, <1>4, <1>5 DEF Next

(* filter.go:62: for any filter, any numbers and any calls before, Filter     *)
(* returns nothing outside the range of what the filter was given since it    *)
(* was last reset or seeded.                                                 *)
THEOREM NeverOvershoots ==
    ASSUME NaN \notin Samples
    PROVE  Spec => NoOvershoot
  <1>1. Init => FilterInv
    BY FilterInvInit
  <1>2. FilterInv /\ [Next]_vars => FilterInv'
    BY FilterInvStep
  <1>3. FilterInv /\ [Next]_vars =>
          [\A x \in Samples : Filter(x) =>
              \E lo, hi \in seen' : lo <= out' /\ out' <= hi]_vars
    BY FilterKeeps
  <1> QED BY <1>1, <1>2, <1>3, PTL DEF Spec, NoOvershoot

-----------------------------------------------------------------------------
(* The mean of the window.  The sums of a sequence are a recursive function;  *)
(* that a function with the same steps is that function follows from the      *)
(* least place at which they would differ.                                   *)
Steps(w, T) == T = [i \in 0 .. Len(w) |-> IF i = 0 THEN 0 ELSE T[i - 1] + w[i]]

LEMMA SumsStep ==
    ASSUME NEW w, NEW T, Steps(w, T)
    PROVE  Steps(w, SM!Sums(w))
  <1>1. SM!Sums(w) = CHOOSE t : Steps(w, t)
    BY DEF SM!Sums, Steps
  <1> QED BY <1>1

Less == {p \in Nat \X Nat : p[1] < p[2]}

LEMMA LeastNumber ==
    ASSUME NEW S \in SUBSET Nat, S # {}
    PROVE  \E n \in S : \A m \in S : n <= m
  <1>1. IsWellFoundedOn(Less, Nat)
    BY NatLessThanWellFounded DEF OpToRel, Less
  <1>2. PICK n \in S : \A m \in S : ~(<<m, n>> \in Less)
    BY <1>1, WFMin
  <1>3. ASSUME NEW m \in S
        PROVE  n <= m
    <2>1. ~(<<m, n>> \in Less) /\ m \in Nat /\ n \in Nat
      BY <1>2
    <2> QED BY <2>1 DEF Less
  <1> QED BY <1>3

LEMMA StepsAgree ==
    ASSUME NEW w, Len(w) \in Nat, NEW T, Steps(w, T), NEW U, Steps(w, U)
    PROVE  T[Len(w)] = U[Len(w)]
  <1> DEFINE Apart == {i \in 0 .. Len(w) : T[i] # U[i]}
  <1>1. SUFFICES ASSUME Apart # {}
                 PROVE  FALSE
    <2>1. Len(w) \in 0 .. Len(w)
      OBVIOUS
    <2> QED BY <2>1
  <1>2. Apart \in SUBSET Nat
    OBVIOUS
  <1> HIDE DEF Apart
  <1>3. PICK i \in Apart : \A j \in Apart : i <= j
    BY <1>1, <1>2, LeastNumber
  <1>4. i \in 0 .. Len(w) /\ T[i] # U[i] /\ i \in Nat
    BY <1>2, <1>3 DEF Apart
  <1>5. /\ T[i] = IF i = 0 THEN 0 ELSE T[i - 1] + w[i]
        /\ U[i] = IF i = 0 THEN 0 ELSE U[i - 1] + w[i]
    BY <1>4 DEF Steps
  <1>6. i # 0 /\ T[i - 1] # U[i - 1]
    BY <1>4, <1>5
  <1>7. i - 1 \in 0 .. Len(w)
    BY <1>4, <1>6
  <1>8. i - 1 \in Apart
    BY <1>6, <1>7 DEF Apart
  <1> QED BY <1>3, <1>4, <1>8

(* The window of a filter, as SignalFilter reads it, and its places.         *)
WindowOf(g) == [i \in 1 .. g.size |-> g.buf[(g.idx + i - 1) % g.size]]

LEMMA PlaceInRing ==
    ASSUME NEW s \in Nat, NEW i \in 0 .. s - 1, NEW k \in 1 .. s
    PROVE  (i + k - 1) % s = IF i + k - 1 < s THEN i + k - 1 ELSE i + k - 1 - s
  <1> DEFINE m == i + k - 1
             q == m \div s
             r == m % s
  <1>1. s > 0 /\ m \in Nat /\ m < 2 * s
    OBVIOUS
  <1> HIDE DEF m
  <1>2. q \in Int /\ r \in 0 .. s - 1 /\ m = s * q + r
    BY <1>1, Division
  <1> HIDE DEF q, r
  <1>3. q = 0 \/ q = 1
    <2>1. q <= -1 => s * q <= s * (-1)
      BY <1>1, <1>2, Scaled
    <2>2. q >= 2 => s * 2 <= s * q
      BY <1>1, <1>2, Scaled
    <2>3. s * q \in Int
      BY <1>2
    <2> QED BY <1>1, <1>2, <2>1, <2>2, <2>3
  <1>4. r = IF m < s THEN m ELSE m - s
    <2>1. q = 0 => s * q = 0
      BY <1>1
    <2>2. q = 1 => s * q = s
      BY <1>1
    <2> QED BY <1>1, <1>2, <1>3, <2>1, <2>2
  <1> QED BY <1>4 DEF r, m

LEMMA WindowPlace ==
    ASSUME NEW g, NumberFilter(g), NEW i \in 1 .. g.size
    PROVE  /\ WindowOf(g)[i] = g.buf[Back(g, g.size + 1 - i)]
           /\ WindowOf(g)[i] \in Int
  <1>1. g.size \in Nat /\ g.idx \in 0 .. g.size - 1 /\ g.buf \in [0 .. g.size - 1 -> Int]
    BY DEF NumberFilter, FilterSet
  <1> DEFINE r == (g.idx + i - 1) % g.size
  <1>2. WindowOf(g)[i] = g.buf[r]
    BY DEF WindowOf
  <1>3. r = IF g.idx + i - 1 < g.size THEN g.idx + i - 1 ELSE g.idx + i - 1 - g.size
    BY <1>1, PlaceInRing
  <1> HIDE DEF r
  <1>4. Back(g, g.size + 1 - i) = r /\ r \in 0 .. g.size - 1
    <2>1. g.idx \in Int /\ 0 <= g.idx /\ g.idx < g.size /\ i \in Int /\ 1 <= i /\ i <= g.size
      BY <1>1
    <2> QED BY <1>1, <1>3, <2>1 DEF Back
  <1> QED BY <1>1, <1>2, <1>4

(* The window is a sequence, and its mean is the sum that the ring keeps,    *)
(* divided by its length.                                                    *)
LEMMA WindowMean ==
    ASSUME NEW g, NumberFilter(g), NEW T, Ring(g, T)
    PROVE  /\ WindowOf(g) \in Seq(Int) /\ Len(WindowOf(g)) = g.size
           /\ SM!Mean(WindowOf(g)) = g.sum \div g.size
  <1> DEFINE w == WindowOf(g)
             V == [i \in 0 .. g.size |-> T[g.size] - T[g.size - i]]
  <1>1. g.size \in Nat /\ g.size > 0
    BY DEF NumberFilter, FilterSet
  <1>2. w \in Seq(Int) /\ Len(w) = g.size
    <2>1. w \in [1 .. g.size -> Int]
      <3>1. w = [i \in 1 .. g.size |-> w[i]]
        BY DEF WindowOf
      <3>2. \A i \in 1 .. g.size : w[i] \in Int
        BY WindowPlace
      <3> HIDE DEF w
      <3> QED BY <3>1, <3>2
    <2> HIDE DEF w
    <2> QED BY <1>1, <2>1
  <1>3. /\ T \in [0 .. g.size -> Int] /\ T[0] = 0 /\ T[g.size] = g.sum
        /\ \A j \in 1 .. g.size : T[j] - T[j - 1] = g.buf[Back(g, j)]
    BY DEF Ring
  <1>4. V[0] = 0 /\ V[g.size] = g.sum
    <2>1. 0 \in 0 .. g.size /\ g.size \in 0 .. g.size
      BY <1>1
    <2>2. V[0] = T[g.size] - T[g.size - 0] /\ V[g.size] = T[g.size] - T[g.size - g.size]
      BY <2>1
    <2>3. g.size - 0 = g.size /\ g.size - g.size = 0 /\ T[g.size] \in Int
      BY <1>1, <1>3, <2>1
    <2> QED BY <1>3, <2>2, <2>3
  <1>5. \A i \in 1 .. g.size : V[i] = V[i - 1] + w[i]
    <2> SUFFICES ASSUME NEW i \in 1 .. g.size
                 PROVE  V[i] = V[i - 1] + w[i]
      OBVIOUS
    <2> DEFINE j == g.size + 1 - i
    <2>1. /\ i \in 0 .. g.size /\ i - 1 \in 0 .. g.size
          /\ j \in 1 .. g.size /\ g.size - (i - 1) = j /\ g.size - i = j - 1
          /\ j \in 0 .. g.size /\ j - 1 \in 0 .. g.size
      BY <1>1
    <2> HIDE DEF j
    <2>2. V[i] = T[g.size] - T[j - 1] /\ V[i - 1] = T[g.size] - T[j]
      BY <2>1
    <2>3. w[i] = T[j] - T[j - 1]
      <3>1. w[i] = g.buf[Back(g, j)]
        BY WindowPlace DEF j
      <3> QED BY <1>3, <2>1, <3>1
    <2> HIDE DEF w, V
    <2>4. T[g.size] \in Int /\ T[j] \in Int /\ T[j - 1] \in Int
      <3>1. g.size \in 0 .. g.size
        BY <1>1
      <3> QED BY <1>3, <2>1, <3>1
    <2> QED BY <2>2, <2>3, <2>4
  <1>6. Steps(w, V)
    <2>1. V = [i \in 0 .. g.size |-> V[i]]
      OBVIOUS
    <2> HIDE DEF w, V
    <2>2. ASSUME NEW i \in 0 .. g.size
          PROVE  V[i] = IF i = 0 THEN 0 ELSE V[i - 1] + w[i]
      <3>1. i = 0 \/ i \in 1 .. g.size
        BY <1>1
      <3> QED BY <1>4, <1>5, <3>1
    <2> QED BY <1>2, <2>1, <2>2 DEF Steps
  <1> HIDE DEF w, V
  <1>7. SM!Sums(w)[Len(w)] = g.sum
    <2>1. Steps(w, SM!Sums(w))
      BY <1>6, SumsStep
    <2>2. V[Len(w)] = SM!Sums(w)[Len(w)]
      BY <1>1, <1>2, <1>6, <2>1, StepsAgree
    <2> QED BY <1>2, <1>4, <2>2
  <1> QED BY <1>2, <1>7 DEF SM!Mean, w

(* What becomes of the window: a new filter holds zeros, seeding and         *)
(* resetting level it, and a push drops the oldest sample for the new one.   *)
LEMMA NewWindow ==
    ASSUME NEW s \in Specs, NEW b \in BOOLEAN
    PROVE  LET g == NewSignal(s, b)
           IN  /\ WindowOf(g) = [i \in 1 .. Normalize(s).size |-> 0]
               /\ g.sum = 0 /\ g.size = Normalize(s).size /\ g.size \in Nat /\ g.size > 0
  <1> DEFINE g == NewSignal(s, b)
  <1>1. NumberFilter(g)
    <2>1. s \in [kind : FilterKinds, size : Int] /\ Decay[Normalize(s).size] \in 0 .. 100
      BY SignalAssumption
    <2> QED BY <2>1, NewIsNumber
  <1>2. /\ g.sum = 0 /\ g.size = Normalize(s).size /\ g.idx = 0
        /\ g.buf = [i \in 0 .. g.size - 1 |-> 0]
    BY DEF NewSignal
  <1>3. g.size \in Nat /\ g.size > 0
    BY <1>1 DEF NumberFilter, FilterSet
  <1> HIDE DEF g
  <1>4. \A i \in 1 .. g.size : g.buf[(g.idx + i - 1) % g.size] = 0
    <2> SUFFICES ASSUME NEW i \in 1 .. g.size
                 PROVE  g.buf[(g.idx + i - 1) % g.size] = 0
      OBVIOUS
    <2>1. g.idx + i - 1 \in Int
      BY <1>2
    <2>2. (g.idx + i - 1) % g.size \in 0 .. g.size - 1
      BY <1>3, <2>1, Division
    <2> QED BY <1>2, <2>2
  <1>5. WindowOf(g) = [i \in 1 .. g.size |-> 0]
    BY <1>4 DEF WindowOf
  <1> QED BY <1>2, <1>3, <1>5 DEF g

Level(g, v) == [i \in DOMAIN WindowOf(g) |-> v]

LEMMA LevelWindow ==
    ASSUME NEW g, NumberFilter(g), NEW h, NEW v \in Int, h.idx = 0, h.size = g.size,
           h.buf = [i \in DOMAIN g.buf |-> v]
    PROVE  WindowOf(h) = Level(g, v)
  <1>1. g.size \in Nat /\ g.size > 0 /\ DOMAIN g.buf = 0 .. g.size - 1
    BY DEF NumberFilter, FilterSet
  <1>2. \A i \in 1 .. g.size : h.buf[(h.idx + i - 1) % h.size] = v
    <2> SUFFICES ASSUME NEW i \in 1 .. g.size
                 PROVE  h.buf[(h.idx + i - 1) % h.size] = v
      OBVIOUS
    <2>1. h.idx + i - 1 \in Int
      OBVIOUS
    <2>2. (h.idx + i - 1) % h.size \in 0 .. g.size - 1
      BY <1>1, <2>1, Division
    <2> QED BY <1>1, <2>2
  <1>3. DOMAIN WindowOf(g) = 1 .. g.size
    BY DEF WindowOf
  <1> QED BY <1>2, <1>3 DEF WindowOf, Level

LEMMA PushWindow ==
    ASSUME NaN \notin Int, NEW g, NumberFilter(g), NEW x \in Int, NEW T, Ring(g, T)
    PROVE  WindowOf(Push(g, x)) = Append(Tail(WindowOf(g)), x)
  <1> DEFINE h == Push(g, x)
             w == WindowOf(g)
             u == WindowOf(h)
  <1>1. g \in FilterSet /\ g.size \in Nat /\ g.size > 0 /\ g.idx \in 0 .. g.size - 1
        /\ g.buf \in [0 .. g.size - 1 -> Int]
    BY DEF NumberFilter, FilterSet
  <1>2. h.size = g.size /\ h.idx = (g.idx + 1) % g.size /\ h.buf = [g.buf EXCEPT ![g.idx] = x]
    BY <1>1 DEF Push, FilterSet
  <1>3. NumberFilter(h)
    BY PushIsNumber
  <1>4. Ring(h, Shifted(g, T, x))
    BY PushRing
  <1>5. w \in Seq(Int) /\ Len(w) = g.size /\ u \in Seq(Int) /\ Len(u) = g.size
    BY <1>2, <1>3, <1>4, WindowMean
  <1> HIDE DEF h
  <1>6. u[g.size] = x
    <2>1. g.size \in 1 .. h.size /\ h.size + 1 - g.size = 1 /\ 1 \in 1 .. g.size
      BY <1>1, <1>2
    <2>2. u[g.size] = h.buf[Back(h, 1)]
      BY <1>3, <2>1, WindowPlace
    <2>3. Back(h, 1) = g.idx
      BY <1>2, <2>1, BackAfterPush
    <2> QED BY <1>1, <1>2, <2>2, <2>3
  <1>7. ASSUME NEW i \in 1 .. g.size - 1
        PROVE  u[i] = w[i + 1]
    <2> DEFINE j == g.size + 1 - i
    <2>1. /\ i \in 1 .. h.size /\ i + 1 \in 1 .. g.size /\ j \in 1 .. g.size /\ j # 1
          /\ h.size + 1 - i = j /\ g.size + 1 - (i + 1) = j - 1
      BY <1>1, <1>2
    <2> HIDE DEF j
    <2>2. u[i] = h.buf[Back(h, j)]
      BY <1>3, <2>1, WindowPlace
    <2>3. w[i + 1] = g.buf[Back(g, j - 1)]
      BY <2>1, WindowPlace
    <2>4. Back(h, j) = Back(g, j - 1) /\ Back(h, j) # g.idx /\ Back(h, j) \in 0 .. g.size - 1
      BY <1>2, <2>1, BackAfterPush
    <2> QED BY <1>1, <1>2, <2>2, <2>3, <2>4
  <1> HIDE DEF w, u
  <1>8. /\ Tail(w) \in Seq(Int) /\ Len(Tail(w)) = g.size - 1
        /\ \A i \in 1 .. g.size - 1 : Tail(w)[i] = w[i + 1]
    <2>1. w # <<>>
      BY <1>1, <1>5
    <2> QED BY <1>1, <1>5, <2>1, HeadTailProperties
  <1>9. /\ Append(Tail(w), x) \in Seq(Int) /\ Len(Append(Tail(w), x)) = g.size
        /\ \A i \in 1 .. g.size - 1 : Append(Tail(w), x)[i] = Tail(w)[i]
        /\ Append(Tail(w), x)[g.size] = x
    <2>1. g.size - 1 + 1 = g.size
      BY <1>1
    <2> QED BY <1>8, <2>1, AppendProperties
  <1>10. \A i \in 1 .. g.size : u[i] = Append(Tail(w), x)[i]
    <2> SUFFICES ASSUME NEW i \in 1 .. g.size
                 PROVE  u[i] = Append(Tail(w), x)[i]
      OBVIOUS
    <2>1. i = g.size \/ i \in 1 .. g.size - 1
      BY <1>1
    <2> QED BY <1>6, <1>7, <1>8, <1>9, <2>1
  <1>11. u = Append(Tail(w), x)
    BY <1>5, <1>9, <1>10, SeqEqual
  <1> QED BY <1>11 DEF u, w, h

-----------------------------------------------------------------------------
(* The refinement.  LastMean is what SlidingMean is shown for its out: a      *)
(* filter that does not average has only its seeded window to show.          *)
LastMean == IF f.kind = "moving_average" /\ f.size > 1 THEN out ELSE f.sum \div f.size

LEMMA MeanInit ==
    ASSUME NaN \notin Samples, Init
    PROVE  SM!Init
  <1>1. PICK s \in Specs, b \in BOOLEAN : f = NewSignal(s, b)
    BY DEF Init
  <1> DEFINE m == Normalize(s).size
  <1>2. WindowOf(f) = [i \in 1 .. m |-> 0] /\ f.sum = 0 /\ f.size \in Nat /\ f.size > 0
    BY <1>1, NewWindow
  <1>3. LastMean = 0
    <2>1. 0 \div f.size = 0
      <3>1. f.size * 0 = 0
        BY <1>2
      <3> QED BY <1>2, <3>1, QuotientOfProduct
    <2> QED BY <1>2, <2>1 DEF Init, LastMean
  <1>4. m \in {Normalize(t).size : t \in Specs}
    OBVIOUS
  <1> HIDE DEF m
  <1> QED BY <1>2, <1>3, <1>4 DEF SM!Init, Window, WindowOf, LastMean

(* The window is levelled by Seed and Reset.                                 *)
LEMMA Levelled ==
    ASSUME NumberFilter(f), NumberFilter(f'), NEW v \in Samples, v \in Int,
           f'.idx = 0, f'.size = f.size, f'.kind = f.kind, f'.sum = f.size * v,
           f'.buf = [i \in DOMAIN f.buf |-> v], out' \in {out, v}
    PROVE  SM!Restart(v)
  <1>1. f.size \in Nat /\ f.size > 0
    BY DEF NumberFilter, FilterSet
  <1>2. WindowOf(f') = Level(f, v)
    BY LevelWindow
  <1>3. LastMean' \in {LastMean, v}
    <2>1. f'.sum \div f'.size = v
      BY <1>1, QuotientOfProduct
    <2> QED BY <2>1 DEF LastMean
  <1> QED BY <1>2, <1>3 DEF SM!Restart, Window, WindowOf, LastMean, Level

LEMMA MeanStep ==
    ASSUME NaN \notin Samples, FilterInv, [Next]_vars
    PROVE  [SM!Next]_(SM!vars)
  <1>1. NumberFilter(f) /\ (Started(f) => Held(f, seen)) /\ NaN \notin Int /\ 0 \in Samples
    BY NumberSamples DEF FilterInv
  <1>2. f \in FilterSet /\ f.size \in Nat /\ f.size > 0
    BY <1>1 DEF NumberFilter, FilterSet
  <1>3. NumberFilter(f')
    BY FilterInvStep DEF FilterInv
  <1>4. ASSUME UNCHANGED <<WindowOf(f), LastMean>>
        PROVE  UNCHANGED SM!vars
    BY <1>4 DEF SM!vars, Window, WindowOf, LastMean
  <1>5. ASSUME NEW v \in Samples, f' = Seed(f, v), out' \in {out, v}
        PROVE  SM!Restart(v)
    <2>1. v \in Int
      BY NumberSamples
    <2>2. /\ f'.idx = 0 /\ f'.size = f.size /\ f'.kind = f.kind
          /\ f'.sum = Product(v, f.size) /\ f'.buf = [i \in DOMAIN f.buf |-> v]
      BY <1>2, <1>5 DEF Seed, FilterSet
    <2>3. Product(v, f.size) = f.size * v
      BY <1>1, <1>2, <2>1 DEF Product
    <2> QED BY <1>1, <1>3, <1>5, <2>1, <2>2, <2>3, Levelled
  <1>6. ASSUME NEW x \in Samples, Filter(x)
        PROVE  SM!Sample(x) \/ SM!Restart(x) \/ UNCHANGED SM!vars
    <2>1. f' = Filtered(f, x) /\ out' = Output(f, x) /\ x \in Int
      BY <1>6, NumberSamples DEF Filter
    <2>2. CASE Seeding(f)
      <3>1. f' = Seed(f, x) /\ out' = x
        BY <2>1, <2>2 DEF Filtered, Output, Averaging, Smoothing
      <3> QED BY <1>5, <3>1
    <2>3. CASE Averaging(f)
      <3>1. /\ f' = Push(f, x) /\ out' = Quotient(Push(f, x).sum, f.size) /\ Started(f)
            /\ f.kind = "moving_average" /\ f.size > 1
        BY <2>1, <2>3 DEF Filtered, Output, Averaging, Smoothing, Started
      <3>2. PICK T : Ring(f, T)
        BY <1>1, <3>1 DEF Held, Within
      <3>3. WindowOf(f') = Append(Tail(WindowOf(f)), x)
        BY <1>1, <2>1, <3>1, <3>2, PushWindow
      <3>4. f'.size = f.size /\ f'.kind = f.kind
        BY <1>2, <3>1 DEF Push, FilterSet
      <3>5. SM!Mean(WindowOf(f')) = f'.sum \div f'.size
        <4>1. Ring(f', Shifted(f, T, x))
          BY <1>1, <2>1, <3>1, <3>2, PushRing
        <4> QED BY <1>3, <4>1, WindowMean
      <3>6. LastMean' = f'.sum \div f'.size
        <4>1. f'.sum # NaN
          BY <1>1, <1>3 DEF NumberFilter, FilterSet
        <4>2. out' = f'.sum \div f.size
          BY <3>1, <4>1 DEF Quotient
        <4> QED BY <3>1, <3>4, <4>2 DEF LastMean
      <3>7. SM!Sample(x)
        BY <3>3, <3>5, <3>6 DEF SM!Sample, Window, WindowOf, LastMean
      <3> QED BY <3>7
    <2>4. CASE Smoothing(f)
      <3>1. f' = [f EXCEPT !.state = Smooth(f, x), !.seeded = TRUE] /\ f.kind = "exponential"
        BY <2>1, <2>4 DEF Filtered, Averaging, Smoothing
      <3>2. /\ f'.kind = f.kind /\ f'.size = f.size /\ f'.sum = f.sum
            /\ f'.idx = f.idx /\ f'.buf = f.buf
        BY <1>2, <3>1 DEF FilterSet
      <3>3. UNCHANGED <<WindowOf(f), LastMean>>
        BY <3>1, <3>2 DEF WindowOf, LastMean
      <3> QED BY <1>4, <3>3
    <2>5. CASE ~Seeding(f) /\ ~Averaging(f) /\ ~Smoothing(f)
      <3>1. f' = f
        BY <2>1, <2>5 DEF Filtered
      <3>2. ~(f.kind = "moving_average" /\ f.size > 1)
        BY <2>5 DEF Averaging
      <3>3. UNCHANGED <<WindowOf(f), LastMean>>
        BY <3>1, <3>2 DEF WindowOf, LastMean
      <3> QED BY <1>4, <3>3
    <2> QED BY <2>2, <2>3, <2>4, <2>5
  <1>7. ASSUME NEW v \in Samples, SeedWith(v)
        PROVE  SM!Restart(v)
    BY <1>5, <1>7 DEF SeedWith
  <1>8. CASE Reset
    <2>1. f' = ResetSignal(f) /\ out' = out
      BY <1>8 DEF Reset
    <2>2. /\ f'.idx = 0 /\ f'.size = f.size /\ f'.kind = f.kind /\ f'.sum = 0
          /\ f'.buf = [i \in DOMAIN f.buf |-> 0]
      BY <1>2, <2>1 DEF ResetSignal, FilterSet
    <2>3. f.size * 0 = 0
      BY <1>2
    <2>4. SM!Restart(0)
      BY <1>1, <1>3, <2>1, <2>2, <2>3, Levelled
    <2> QED BY <1>1, <2>4 DEF SM!Next
  <1>9. CASE UNCHANGED vars
    <2>1. UNCHANGED <<WindowOf(f), LastMean>>
      BY <1>9 DEF vars, WindowOf, LastMean
    <2> QED BY <1>4, <2>1
  <1> QED BY <1>6, <1>7, <1>8, <1>9 DEF Next, SM!Next

(* window.go:14-44: the running sum over a ring buffer, whatever its length,  *)
(* the numbers and the calls, returns the mean of the last samples.          *)
THEOREM RingIsMean ==
    ASSUME NaN \notin Samples
    PROVE  Spec => MeanOfLast
  <1>1. Init => FilterInv /\ SM!Init
    BY FilterInvInit, MeanInit
  <1>2. FilterInv /\ [Next]_vars => FilterInv' /\ [SM!Next]_(SM!vars)
    BY FilterInvStep, MeanStep
  <1> QED BY <1>1, <1>2, PTL DEF Spec, MeanOfLast, SM!Spec
=============================================================================
