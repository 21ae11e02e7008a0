----------------------------- MODULE StepProofs -----------------------------
(***************************************************************************)
(* Proofs about the steps of the main meter: EdgeDetect, which finds them, *)
(* and Energy, which pairs them.                                           *)
(*                                                                         *)
(* A step of the load is written once, when its time has come, with its    *)
(* sizes, whether or not its INSERT succeeds. The invariant says what the  *)
(* two rings hold: x the loads of its samples, y those of half a filter    *)
(* before, for the load in the middle of the filter has more than half of  *)
(* it; the marks of y are on the samples from before the first load and on *)
(* two samples before each step that is written; and written are the steps *)
(* that have passed the near end of the window. It holds for any ring,     *)
(* filter and window that fit together, and for any loads that outlast     *)
(* half the filter and differ by more than the threshold.                  *)
(*                                                                         *)
(* No step is counted twice, the pairs of a device never cross, and energy *)
(* goes to a device that was read or to index -1: for any clusters, any    *)
(* times and any number of steps and requests. The invariant of the pairs  *)
(* says that a pair leaves no unused step of its device between its ends;  *)
(* that of the tables says which devices the mapping may name while the    *)
(* page is between its two statements.                                     *)
(***************************************************************************)
EXTENDS EdgeDetect, Energy, FiniteSetTheorems, WellFoundedInduction, TLAPS

-----------------------------------------------------------------------------
(* EdgeDetect: the invariant                                               *)


Half == (FilterLength - 1) \div 2

Place(k) == k % BufferLength

\* the samples that the ring holds when c is the newest
Held(c) == c - BufferLength + 1 .. c

\* Sample k is of the load lv[j]; before the first there was none.
InLevel(lv, j, k) ==
  /\ j > 0 => lv[j].first <= k
  /\ j < Len(lv) => k < lv[j + 1].first

LoadOf(lv, j) == IF j = 0 THEN 0 ELSE lv[j].value

Dwelling(lv) ==
  /\ lv \in Seq([value : Loads, first : Nat]) /\ Len(lv) >= 1
  /\ lv[1].first = 1
  /\ \A h, j \in 1 .. Len(lv) : h < j => lv[h].first + MinDwell <= lv[j].first
  /\ \A j \in 1 .. Len(lv) - 1 : lv[j].value # lv[j + 1].value

\* x holds the loads
Curve(r, lv, c) ==
  /\ r \in [EdgeSlot -> Nat]
  /\ \A k \in Held(c), j \in 0 .. Len(lv) : InLevel(lv, j, k) => r[Place(k)] = LoadOf(lv, j)

\* the step to lv[j + 1] as y shows it: its first sample there
Edge(lv, j) == lv[j + 1].first + Half

\* one of the first f steps has left its mark on k
Marked(lv, f, k) == \E j \in 1 .. f : k = Edge(lv, j) - 3 \/ k = Edge(lv, j) - 2

\* y holds the loads of half a filter ago, and the marks of f steps
Smooth(r, lv, c, f) ==
  /\ r \in [EdgeSlot -> [epoch : Nat, value : Nat, check : BOOLEAN]]
  /\ \A k \in Held(c) : k >= 0 => r[Place(k)].epoch = k
  /\ \A k \in Held(c), j \in 0 .. Len(lv) :
       InLevel(lv, j, k - Half) => r[Place(k)].value = LoadOf(lv, j)
  /\ \A k \in Held(c) : r[Place(k)].check <=> k <= Half \/ Marked(lv, f, k)

\* what nialm_db_write was called with, and what became of it
Calls == [row : [epoch : Int, power : Nat, dP : Int], rc : {"ok", "error"}]

\* the steps that have come to the position t of the window were written
Stored(rows, lv, c, t) ==
  /\ rows \in Seq(Calls)
  /\ Len(rows) < Len(lv)
  /\ \A j \in 1 .. Len(rows) :
       rows[j].row = [epoch |-> Edge(lv, j) - 3, power |-> lv[j].value,
                      dP |-> lv[j + 1].value - lv[j].value]
  /\ \A j \in 1 .. Len(lv) - 1 : j <= Len(rows) <=> Edge(lv, j) - 3 + t <= c

EdgeInv ==
  /\ count \in Nat /\ n = Place(count)
  /\ Dwelling(levels) /\ levels[Len(levels)].first <= count + 1
  /\ Curve(x, levels, count)
  /\ Smooth(y, levels, count, Len(nialm))
  /\ Stored(nialm, levels, count, Space)

-----------------------------------------------------------------------------
(* The ring                                                                *)

LEMMA LeastNat ==
  ASSUME NEW S, S \subseteq Nat, S # {}
  PROVE  \E m \in S : \A o \in S : m <= o
  <1>1. PICK m \in S : \A o \in S : ~(<<o, m>> \in OpToRel(<, Nat))
    BY NatLessThanWellFounded, WFMin
  <1>2. \A o \in S : m <= o
    <2> SUFFICES ASSUME NEW o \in S, o < m PROVE FALSE
      OBVIOUS
    <2>1. <<o, m>> \in Nat \X Nat /\ <<o, m>>[1] < <<o, m>>[2]
      OBVIOUS
    <2>2. <<o, m>> \in OpToRel(<, Nat)
      BY <2>1, Zenon DEF OpToRel
    <2> QED BY <1>1, <2>2
  <1> QED BY <1>2

LEMMA Sizes ==
  /\ BufferLength \in Nat /\ WindowSize \in Nat /\ Space \in Nat
  /\ 6 <= Space /\ Space <= WindowSize /\ WindowSize < BufferLength
  /\ Half \in Nat /\ 3 <= Half /\ FilterLength = 2 * Half + 1
  /\ FilterLength <= BufferLength
  /\ MinDwell \in Nat /\ Half < MinDwell /\ Marker = 2
  BY FilterAssumption, LoadAssumption, StepAssumption DEF Half

LEMMA Multiples ==
  ASSUME NEW b \in Nat, b > 0, NEW q \in Int, -b < b * q, b * q < b
  PROVE  q = 0
  <1>1. CASE q >= 1
    <2>1. b * q >= b
      BY <1>1
    <2> QED BY <2>1
  <1>2. CASE q <= -1
    <2>1. b * q <= -b
      BY <1>2
    <2> QED BY <2>1
  <1> QED BY <1>1, <1>2

LEMMA ModShift ==
  ASSUME NEW b \in Nat, b > 0, NEW a \in Int, NEW q \in Int
  PROVE  (a + b * q) % b = a % b
  <1> DEFINE p == a \div b
             o == (a + b * q) \div b
             r == a % b
             t == (a + b * q) % b
  <1>1. /\ p \in Int /\ a = b * p + r
        /\ r \in 0 .. b - 1
    OBVIOUS
  <1>2. a + b * q \in Int
    OBVIOUS
  <1>3. /\ o \in Int /\ a + b * q = b * o + t
        /\ t \in 0 .. b - 1
    BY <1>2
  <1>4. b * (p + q - o) = t - r
    <2> HIDE DEF p, o, r, t
    <2>1. b * (p + q - o) = b * p + b * q - b * o
      BY <1>1, <1>3
    <2> QED BY <1>1, <1>3, <2>1
  <1>5. p + q - o = 0
    <2> HIDE DEF p, o, r, t
    <2> QED BY <1>1, <1>3, <1>4, Multiples
  <1> HIDE DEF p, o, r, t
  <1>6. t = r
    BY <1>1, <1>3, <1>4, <1>5
  <1> QED BY <1>6 DEF t, r

LEMMA PlaceIn ==
  ASSUME NEW k \in Int
  PROVE  Place(k) \in EdgeSlot
  BY Sizes DEF Place, EdgeSlot

\* The samples in the ring have places of their own.
LEMMA PlaceOnce ==
  ASSUME NEW k \in Int, NEW l \in Int, Place(k) = Place(l),
         k - l < BufferLength, l - k < BufferLength
  PROVE  k = l
  <1> DEFINE b == BufferLength
             p == k \div b
             q == l \div b
  <1>1. b \in Nat /\ b > 0
    BY Sizes
  <1>2. /\ p \in Int /\ k = b * p + Place(k)
        /\ q \in Int /\ l = b * q + Place(l)
        /\ Place(l) \in Int
    BY <1>1 DEF Place
  <1> HIDE DEF b, p, q
  <1>3. b * (p - q) = k - l
    <2>1. b * (p - q) = b * p - b * q
      BY <1>1, <1>2
    <2> QED BY <1>1, <1>2, <2>1
  <1>4. p - q = 0
    BY <1>1, <1>2, <1>3, Multiples DEF b
  <1> QED BY <1>1, <1>2, <1>3, <1>4

LEMMA PlaceAt ==
  ASSUME NEW k \in Int, NEW d \in Int
  PROVE  At(Place(k), d) = Place(k + d)
  <1> DEFINE b == BufferLength
             q == k \div b
  <1>1. b \in Nat /\ b > 0
    BY Sizes
  <1>2. q \in Int /\ k % b = k - b * q
    BY <1>1
  <1> DEFINE a == (k % b) + d
  <1>3. a + b * q = k + d /\ a \in Int
    BY <1>1, <1>2
  <1> HIDE DEF a, b, q
  <1>4. (a + b * q) % b = a % b
    BY <1>1, <1>2, <1>3, ModShift
  <1>5. a % b = (k + d) % b
    BY <1>3, <1>4
  <1> QED BY <1>5 DEF At, Place, a, b

LEMMA PlaceNext ==
  ASSUME NEW k \in Int
  PROVE  NextSlot(Place(k)) = Place(k + 1)
  <1>1. At(Place(k), 1) = Place(k + 1)
    BY PlaceAt
  <1>2. Place(k) \in EdgeSlot
    BY PlaceIn
  <1> QED BY <1>1, <1>2, Sizes DEF At, NextSlot, EdgeSlot

-----------------------------------------------------------------------------
(* The loads                                                               *)

LEMMA Element ==
  ASSUME NEW S, NEW s \in Seq(S), NEW j \in 1 .. Len(s)
  PROVE  s[j] \in S /\ Len(s) \in Nat
  OBVIOUS

LEMMA LevelShape ==
  ASSUME NEW lv, Dwelling(lv), NEW j \in 1 .. Len(lv)
  PROVE  /\ Len(lv) \in Nat /\ lv[j].first \in Nat
         /\ lv[j].value \in Loads /\ lv[j].value \in Nat /\ lv[j].value > 0
  <1>1. lv[j] \in [value : Loads, first : Nat] /\ Len(lv) \in Nat
    <2>1. lv \in Seq([value : Loads, first : Nat])
      BY DEF Dwelling
    <2> QED BY <2>1, Element
  <1>2. lv[j].value \in Loads /\ lv[j].first \in Nat
    BY <1>1
  <1>3. Loads \subseteq Nat /\ 0 \notin Loads
    BY LoadAssumption, StepAssumption
  <1>4. lv[j].value \in Nat /\ lv[j].value # 0
    BY <1>2, <1>3
  <1> QED BY <1>1, <1>2, <1>4

LEMMA LoadNat ==
  ASSUME NEW lv, Dwelling(lv), NEW j \in 0 .. Len(lv)
  PROVE  LoadOf(lv, j) \in Nat /\ (j > 0 => LoadOf(lv, j) \in Loads /\ LoadOf(lv, j) > 0)
  <1>1. CASE j = 0
    BY <1>1 DEF LoadOf
  <1>2. CASE j # 0
    <2>1. j \in 1 .. Len(lv)
      BY <1>2 DEF Dwelling
    <2> QED BY <1>2, <2>1, LevelShape DEF LoadOf
  <1> QED BY <1>1, <1>2

\* every sample is of some load, or of the time before the first
LEMMA LevelIs ==
  ASSUME NEW lv, Dwelling(lv), NEW k \in Int
  PROVE  \E j \in 0 .. Len(lv) : InLevel(lv, j, k)
  <1> DEFINE S == {j \in 0 .. Len(lv) : j < Len(lv) => k < lv[j + 1].first}
  <1>1. Len(lv) \in Nat
    BY DEF Dwelling
  <1>2. Len(lv) \in S /\ S \subseteq Nat
    BY <1>1
  <1>3. PICK j \in S : \A o \in S : j <= o
    <2> HIDE DEF S
    <2> QED BY <1>2, LeastNat
  <1>4. j > 0 => lv[j].first <= k
    <2> SUFFICES ASSUME j > 0 PROVE lv[j].first <= k
      OBVIOUS
    <2>1. j - 1 \notin S
      <3>1. j \in Nat
        BY <1>2, <1>3
      <3> HIDE DEF S
      <3> QED BY <1>3, <3>1
    <2>2. j - 1 \in 0 .. Len(lv) /\ j \in 1 .. Len(lv)
      BY <1>1
    <2>3. ~(k < lv[j].first)
      BY <2>1, <2>2
    <2> QED BY <2>2, <2>3, LevelShape
  <1> QED BY <1>3, <1>4 DEF InLevel

LEMMA LevelOrder ==
  ASSUME NEW lv, Dwelling(lv), NEW h \in 0 .. Len(lv), NEW j \in 0 .. Len(lv),
         NEW k \in Int, NEW l \in Int, InLevel(lv, h, k), InLevel(lv, j, l), k <= l
  PROVE  h <= j
  <1> SUFFICES ASSUME j < h PROVE FALSE
    OBVIOUS
  <1>1. Len(lv) \in Nat /\ h \in 1 .. Len(lv) /\ j + 1 \in 1 .. Len(lv) /\ j + 1 <= h
    BY DEF Dwelling
  <1>2. l < lv[j + 1].first /\ lv[h].first <= k
    BY <1>1 DEF InLevel
  <1>3. lv[j + 1].first \in Nat /\ lv[h].first \in Nat
    BY <1>1, LevelShape
  <1>4. lv[j + 1].first <= lv[h].first
    <2>1. CASE j + 1 = h
      BY <2>1, <1>3
    <2>2. CASE j + 1 < h
      <3>1. lv[j + 1].first + MinDwell <= lv[h].first
        BY <1>1, <2>2 DEF Dwelling
      <3> QED BY <1>3, <3>1, Sizes
    <2> QED BY <1>1, <2>1, <2>2
  <1> QED BY <1>2, <1>3, <1>4

\* Two samples that are near have loads that follow each other.
LEMMA LevelNear ==
  ASSUME NEW lv, Dwelling(lv), NEW h \in 0 .. Len(lv), NEW j \in 0 .. Len(lv),
         NEW k \in Int, NEW l \in Int, InLevel(lv, h, k), InLevel(lv, j, l),
         l - k <= MinDwell
  PROVE  j <= h + 1
  <1>0. Len(lv) \in Nat /\ h \in Nat /\ j \in Nat
    <2>1. Len(lv) \in Nat
      BY DEF Dwelling
    <2> QED BY <2>1
  <1> SUFFICES ASSUME h + 2 <= j PROVE FALSE
    BY <1>0
  <1>1. Len(lv) \in Nat /\ h + 1 \in 1 .. Len(lv) /\ j \in 1 .. Len(lv) /\ h + 1 < j
    BY <1>0
  <1>2. k < lv[h + 1].first /\ lv[j].first <= l
    BY <1>1 DEF InLevel
  <1>3. lv[h + 1].first \in Nat /\ lv[j].first \in Nat
    BY <1>1, LevelShape
  <1>4. lv[h + 1].first + MinDwell <= lv[j].first
    BY <1>1 DEF Dwelling
  <1> QED BY <1>2, <1>3, <1>4, Sizes

\* The difference of two loads passes both the threshold and the tolerance.
LEMMA Apart ==
  ASSUME NEW v \in Loads, NEW w \in Loads, v # w
  PROVE  /\ Magnitude(v - w) > Threshold(v, v)
         /\ Magnitude(v - w) >= Tolerance(w, v)
         /\ Magnitude(v - w) >= Tolerance(v, w)
  <1>1. v \in Nat /\ w \in Nat
    BY LoadAssumption
  <1>2. Magnitude(v - w) > Threshold(v, v) /\ Magnitude(w - v) > Threshold(w, w)
    BY StepAssumption
  <1>3. Magnitude(v - w) = Magnitude(w - v)
    BY <1>1 DEF Magnitude
  <1>4. /\ (v + v) \div 200 \in Nat /\ (w + w) \div 200 \in Nat
        /\ (v + w) \div 200 \in Nat
        /\ \/ (v + w) \div 200 <= (v + v) \div 200
           \/ (v + w) \div 200 <= (w + w) \div 200
    BY <1>1
  <1>5. /\ Threshold(v, v) = 25 + (v + v) \div 200
        /\ Threshold(w, w) = 25 + (w + w) \div 200
        /\ Tolerance(v, w) = 10 + (v + w) \div 200
        /\ w + v = v + w
    BY <1>1, <1>4 DEF Threshold, Tolerance, Magnitude
  <1>6. Tolerance(w, v) = Tolerance(v, w)
    BY <1>5 DEF Tolerance
  <1>7. Magnitude(v - w) \in Int
    BY <1>1 DEF Magnitude
  <1> QED BY <1>2, <1>3, <1>4, <1>5, <1>6, <1>7

LEMMA Even ==
  ASSUME NEW v \in Nat
  PROVE  Magnitude(v - v) = 0 /\ Threshold(v, v) >= 25 /\ Tolerance(v, v) >= 10
         /\ Threshold(v, v) \in Nat
  <1>1. (v + v) \div 200 \in Nat
    OBVIOUS
  <1> QED BY <1>1 DEF Threshold, Tolerance, Magnitude

\* The load in the middle of the filter has more than half of it.
LEMMA Majority ==
  ASSUME NEW lv, Dwelling(lv), NEW c \in Int, NEW j \in 0 .. Len(lv),
         InLevel(lv, j, c - Half)
  PROVE  \E a \in 0 .. Half : \A k \in a .. a + Half : InLevel(lv, j, c - k)
  <1>1. Len(lv) \in Nat
    BY DEF Dwelling
  <1>2. CASE j = Len(lv) \/ c < lv[j + 1].first
    <2>1. \A k \in 0 .. 0 + Half : InLevel(lv, j, c - k)
      <3> SUFFICES ASSUME NEW k \in 0 .. Half PROVE InLevel(lv, j, c - k)
        BY Sizes
      <3>1. j > 0 => lv[j].first <= c - k
        BY <1>1, LevelShape, Sizes DEF InLevel
      <3>2. j < Len(lv) => c - k < lv[j + 1].first
        BY <1>1, <1>2, LevelShape
      <3> QED BY <3>1, <3>2 DEF InLevel
    <2> QED BY <2>1, Sizes
  <1>3. CASE j < Len(lv) /\ lv[j + 1].first <= c
    <2> DEFINE a == c - lv[j + 1].first + 1
    <2>1. j + 1 \in 1 .. Len(lv) /\ lv[j + 1].first \in Nat
      BY <1>1, <1>3, LevelShape
    <2>2. c - Half < lv[j + 1].first
      BY <1>3 DEF InLevel
    <2>3. a \in 0 .. Half
      <3>1. c - Half < lv[j + 1].first /\ lv[j + 1].first <= c /\ Half \in Nat
        BY <1>3, <2>2, Sizes
      <3> QED BY <2>1, <3>1
    <2>4. \A k \in a .. a + Half : InLevel(lv, j, c - k)
      <3> SUFFICES ASSUME NEW k \in a .. a + Half PROVE InLevel(lv, j, c - k)
        OBVIOUS
      <3>0. k \in Int /\ a <= k /\ k <= a + Half /\ Half \in Nat
        BY <2>3, Sizes
      <3>1. c - k < lv[j + 1].first /\ lv[j + 1].first - 1 - Half <= c - k
        <4> DEFINE e == lv[j + 1].first
        <4>1. e \in Nat /\ c - e + 1 <= k /\ k <= c - e + 1 + Half
          BY <2>1, <3>0
        <4> HIDE DEF e
        <4>2. c - k < e /\ e - 1 - Half <= c - k
          BY <3>0, <4>1
        <4> QED BY <4>2 DEF e
      <3>2. ASSUME j > 0 PROVE lv[j].first <= c - k
        <4>1. j \in 1 .. Len(lv) /\ lv[j].first \in Nat
          BY <1>1, <3>2, LevelShape
        <4>2. lv[j].first + MinDwell <= lv[j + 1].first
          BY <2>1, <4>1 DEF Dwelling
        <4> DEFINE d == lv[j].first
                   e == lv[j + 1].first
        <4>3. d \in Nat /\ e \in Nat /\ d + MinDwell <= e /\ e - 1 - Half <= c - k
              /\ k \in Int
          BY <2>1, <3>0, <3>1, <4>1, <4>2
        <4> HIDE DEF d, e
        <4>4. d <= c - k
          BY <4>3, Sizes
        <4> QED BY <4>4 DEF d
      <3> QED BY <3>1, <3>2 DEF InLevel
    <2> QED BY <2>3, <2>4
  <1>4. j < Len(lv) => lv[j + 1].first \in Nat
    BY <1>1, LevelShape
  <1> QED BY <1>1, <1>2, <1>3, <1>4

-----------------------------------------------------------------------------
(* The filter                                                              *)

\* What more than half of the window is, is its median.
LEMMA MedianOfMost ==
  ASSUME NEW r \in [EdgeSlot -> Nat], NEW s \in EdgeSlot, NEW u \in Nat,
         NEW a \in 0 .. Half, \A k \in a .. a + Half : r[At(s, -k)] = u
  PROVE  Median(r, s) = u
  <1> DEFINE last == 0 .. FilterLength - 1
             v(k) == r[At(s, -k)]
             low(k) == {j \in last : v(j) < v(k)}
             high(k) == {j \in last : v(j) <= v(k)}
             P(k) == Cardinality(low(k)) <= Half /\ Half < Cardinality(high(k))
             M == a .. a + Half
  <1>1. Median(r, s) = v(CHOOSE k \in last : P(k))
    BY DEF Median, Half
  <1>2. /\ Half \in Nat /\ last = 0 .. 2 * Half /\ a \in Int
        /\ M \subseteq last /\ a \in M /\ a \in last
    BY Sizes
  <1>3. \A k \in last : v(k) \in Nat
    BY <1>2, Sizes DEF At, EdgeSlot
  <1>4. \A k \in M : v(k) = u
    OBVIOUS
  <1>5. IsFiniteSet(M) /\ Cardinality(M) = Half + 1
    <2>1. a + Half \in Int /\ ~(a > a + Half) /\ (a + Half) - a + 1 = Half + 1
      BY <1>2
    <2>2. IsFiniteSet(a .. a + Half) /\ Cardinality(a .. a + Half) = (a + Half) - a + 1
      BY <1>2, <2>1, FS_Interval
    <2> HIDE DEF last
    <2> QED BY <2>1, <2>2
  <1>6. IsFiniteSet(last) /\ Cardinality(last) = 2 * Half + 1
    <2>1. IsFiniteSet(0 .. 2 * Half) /\ Cardinality(0 .. 2 * Half) = 2 * Half - 0 + 1
      BY <1>2, FS_Interval
    <2> HIDE DEF last
    <2> QED BY <1>2, <2>1
  <1> HIDE DEF last, v, M
  <1>7. IsFiniteSet(last \ M) /\ Cardinality(last \ M) = Half
    <2>1. last \cap M = M
      BY <1>2
    <2>2. /\ IsFiniteSet(last \ M)
          /\ Cardinality(last \ M) = Cardinality(last) - Cardinality(last \cap M)
      BY <1>6, FS_Difference
    <2>3. Cardinality(last \ M) = (2 * Half + 1) - (Half + 1)
      BY <1>5, <1>6, <2>1, <2>2
    <2> QED BY <1>2, <2>2, <2>3
  <1>8. ASSUME NEW S, S \subseteq last, S \cap M = {}
        PROVE  Cardinality(S) <= Half
    <2>1. S \in SUBSET (last \ M)
      BY <1>8
    <2> QED BY <1>7, <2>1, FS_Subset
  <1>9. ASSUME NEW S, S \subseteq last, M \subseteq S
        PROVE  Cardinality(S) > Half
    <2>1. S \in SUBSET last /\ M \in SUBSET S
      BY <1>9
    <2>2. IsFiniteSet(S)
      BY <1>6, <2>1, FS_Subset
    <2>3. Cardinality(M) <= Cardinality(S) /\ Cardinality(S) \in Nat
      BY <2>1, <2>2, FS_Subset, FS_CardinalityType
    <2> QED BY <1>2, <1>5, <2>3
  <1>10. \A k \in last : low(k) \subseteq last /\ high(k) \subseteq last
    OBVIOUS
  <1>11. P(a)
    <2>1. low(a) \cap M = {}
      BY <1>2, <1>3, <1>4
    <2>2. M \subseteq high(a)
      BY <1>2, <1>3, <1>4
    <2> QED BY <1>2, <1>8, <1>9, <1>10, <2>1, <2>2
  <1>12. ASSUME NEW k \in last, P(k) PROVE v(k) = u
    <2>1. CASE v(k) < u
      <3>1. high(k) \cap M = {}
        BY <1>3, <1>4, <2>1
      <3>2. Cardinality(high(k)) <= Half /\ Half < Cardinality(high(k))
        BY <1>8, <1>10, <1>12, <3>1
      <3>3. Cardinality(high(k)) \in Nat
        <4>1. high(k) \in SUBSET last
          BY <1>10
        <4> QED BY <1>6, <4>1, FS_Subset, FS_CardinalityType
      <3> HIDE DEF high
      <3> QED BY <1>2, <3>2, <3>3
    <2>2. CASE v(k) > u
      <3>1. M \subseteq low(k)
        BY <1>2, <1>3, <1>4, <2>2
      <3>2. Cardinality(low(k)) <= Half /\ Half < Cardinality(low(k))
        BY <1>9, <1>10, <1>12, <3>1
      <3>3. Cardinality(low(k)) \in Nat
        <4>1. low(k) \in SUBSET last
          BY <1>10
        <4> QED BY <1>6, <4>1, FS_Subset, FS_CardinalityType
      <3> HIDE DEF low
      <3> QED BY <1>2, <3>2, <3>3
    <2>3. v(k) \in Nat
      BY <1>3
    <2> QED BY <2>1, <2>2, <2>3
  <1> HIDE DEF P
  <1>13. P(CHOOSE k \in last : P(k)) /\ (CHOOSE k \in last : P(k)) \in last
    BY <1>2, <1>11
  <1> QED BY <1>1, <1>12, <1>13

\* The median is the load of half a filter ago.
LEMMA MedianIs ==
  ASSUME NEW lv, Dwelling(lv), NEW c \in Int, NEW r, Curve(r, lv, c),
         NEW j \in 0 .. Len(lv), InLevel(lv, j, c - Half)
  PROVE  Median(r, Place(c)) = LoadOf(lv, j)
  <1>1. PICK a \in 0 .. Half : \A k \in a .. a + Half : InLevel(lv, j, c - k)
    BY Majority
  <1>2. \A k \in a .. a + Half : r[At(Place(c), -k)] = LoadOf(lv, j)
    <2> SUFFICES ASSUME NEW k \in a .. a + Half
                 PROVE  r[At(Place(c), -k)] = LoadOf(lv, j)
      OBVIOUS
    <2>1. k \in Int /\ c - k \in Held(c)
      BY Sizes DEF Held
    <2>2. At(Place(c), -k) = Place(c - k)
      <3>1. At(Place(c), -k) = Place(c + (-k)) /\ c + (-k) = c - k
        BY <2>1, PlaceAt
      <3> QED BY <3>1
    <2>3. r[Place(c - k)] = LoadOf(lv, j)
      BY <1>1, <2>1 DEF Curve
    <2> QED BY <2>2, <2>3
  <1>3. r \in [EdgeSlot -> Nat] /\ Place(c) \in EdgeSlot /\ LoadOf(lv, j) \in Nat
    BY PlaceIn, LoadNat DEF Curve
  <1> QED BY <1>2, <1>3, MedianOfMost

-----------------------------------------------------------------------------
(* The scan                                                                *)

\* the window position whose first sample is b
Window(b) == [z \in 0 .. Space - 1 |-> Place(b + z)]

LEMMA PositionIs ==
  ASSUME NEW c \in Int, NEW t \in Int
  PROVE  Position(Place(c), t) = Window(c - t)
  <1>1. ASSUME NEW z \in 0 .. Space - 1
        PROVE  At(Place(c), z - t) = Place((c - t) + z)
    <2>1. z - t \in Int /\ c + (z - t) = (c - t) + z
      BY Sizes
    <2> QED BY <2>1, PlaceAt
  <1> QED BY <1>1 DEF Position, Window

\* the window lies in the ring
Inside(b, c) == b \in Int /\ c \in Int /\ c - BufferLength < b /\ b + Space <= c

LEMMA InsideHeld ==
  ASSUME NEW b, NEW c, Inside(b, c), NEW z \in 0 .. Space - 1
  PROVE  b + z \in Held(c) /\ Window(b)[z] = Place(b + z) /\ Place(b + z) \in EdgeSlot
  <1>1. b \in Int /\ c \in Int /\ z \in Int /\ b + z \in Int
    BY Sizes DEF Inside
  <1>2. b + z \in Held(c)
    BY <1>1, Sizes DEF Inside, Held
  <1> QED BY <1>1, <1>2, PlaceIn DEF Window

LEMMA SmoothValue ==
  ASSUME NEW r, NEW lv, NEW c, NEW f, Smooth(r, lv, c, f), NEW k \in Held(c),
         NEW j \in 0 .. Len(lv), InLevel(lv, j, k - Half)
  PROVE  r[Place(k)].value = LoadOf(lv, j)
  BY Zenon DEF Smooth

\* A step that starts in a window is a step of the load.
LEMMA StartIsEdge ==
  ASSUME NEW lv, Dwelling(lv), NEW r, NEW f, NEW b, NEW c, Smooth(r, lv, c, f),
         Inside(b, c), Starts(r, Window(b))
  PROVE  \E j \in 0 .. Len(lv) - 1 : Edge(lv, j) \in {b + 2, b + 3}
  <1> DEFINE v(z) == r[Window(b)[z]].value
  <1>1. /\ b \in Int /\ c \in Int /\ Half \in Nat /\ Len(lv) \in Nat
        /\ b - Half \in Int /\ (b + 1) - Half \in Int /\ (b + 3) - Half \in Int
    BY Sizes DEF Inside, Dwelling
  <1>2. PICK h \in 0 .. Len(lv) : InLevel(lv, h, b - Half)
    BY <1>1, LevelIs
  <1>3. PICK j \in 0 .. Len(lv) : InLevel(lv, j, (b + 1) - Half)
    BY <1>1, LevelIs
  <1>4. PICK l \in 0 .. Len(lv) : InLevel(lv, l, (b + 3) - Half)
    BY <1>1, LevelIs
  <1>5. h <= j /\ j <= l /\ l <= h + 1
    <2>1. b - Half <= (b + 1) - Half /\ (b + 1) - Half <= (b + 3) - Half
          /\ ((b + 3) - Half) - (b - Half) <= MinDwell
      BY <1>1, Sizes
    <2>2. h <= j
      BY <1>1, <1>2, <1>3, <2>1, LevelOrder
    <2>3. j <= l
      BY <1>1, <1>3, <1>4, <2>1, LevelOrder
    <2>4. l <= h + 1
      BY <1>1, <1>2, <1>4, <2>1, LevelNear
    <2> QED BY <2>2, <2>3, <2>4
  <1>6. v(1) = LoadOf(lv, j) /\ v(3) = LoadOf(lv, l) /\ v(0) = LoadOf(lv, h)
    <2>1. 0 \in 0 .. Space - 1 /\ 1 \in 0 .. Space - 1 /\ 3 \in 0 .. Space - 1
      BY Sizes
    <2>2. /\ Window(b)[0] = Place(b + 0) /\ b + 0 \in Held(c)
          /\ Window(b)[1] = Place(b + 1) /\ b + 1 \in Held(c)
          /\ Window(b)[3] = Place(b + 3) /\ b + 3 \in Held(c)
      BY <2>1, InsideHeld
    <2>3. (b + 0) - Half = b - Half
      BY <1>1
    <2>5. r[Place(b + 0)].value = LoadOf(lv, h)
      <3>1. InLevel(lv, h, (b + 0) - Half)
        BY <1>2, <2>3
      <3> QED BY <2>2, <3>1, SmoothValue, ZenonT(40)
    <2>6. r[Place(b + 1)].value = LoadOf(lv, j)
      BY <1>3, <2>2, SmoothValue, ZenonT(40)
    <2>7. r[Place(b + 3)].value = LoadOf(lv, l)
      BY <1>4, <2>2, SmoothValue, ZenonT(40)
    <2> QED BY <2>2, <2>5, <2>6, <2>7
  <1>7. j # l
    <2> SUFFICES ASSUME j = l PROVE FALSE
      OBVIOUS
    <2>1. v(1) \in Nat /\ v(0) \in Nat /\ v(3) = v(1)
      BY <1>6, LoadNat
    <2>2. Magnitude(v(3) - v(1)) > Threshold(v(1), v(0))
      BY DEF Starts
    <2> HIDE DEF v
    <2>3. (v(1) + v(0)) \div 200 \in Nat
      BY <2>1
    <2> QED BY <2>1, <2>2, <2>3 DEF Magnitude, Threshold
  <1>8. j = h /\ l = j + 1 /\ j + 1 \in 1 .. Len(lv) /\ j < Len(lv)
    BY <1>1, <1>5, <1>7
  <1>9. (b + 1) - Half < lv[j + 1].first /\ lv[j + 1].first <= (b + 3) - Half
    BY <1>1, <1>3, <1>4, <1>8 DEF InLevel
  <1>10. Edge(lv, j) \in {b + 2, b + 3}
    <2> DEFINE e == lv[j + 1].first
    <2>1. e \in Nat
      BY <1>8, LevelShape
    <2>2. (b + 1) - Half < e /\ e <= (b + 3) - Half
      BY <1>9
    <2> HIDE DEF e
    <2>3. e + Half \in {b + 2, b + 3}
      BY <1>1, <2>1, <2>2
    <2> QED BY <2>3 DEF Edge, e
  <1> QED BY <1>1, <1>8, <1>10

\* A step of the load is found three samples after the window's first.
LEMMA EdgeStarts ==
  ASSUME NEW lv, Dwelling(lv), NEW r, NEW f, NEW b, NEW c, Smooth(r, lv, c, f),
         Inside(b, c), NEW j \in 1 .. Len(lv) - 1, Edge(lv, j) = b + 3
  PROVE  /\ Starts(r, Window(b)) /\ ~Ends(r, Window(b), 0) /\ Ends(r, Window(b), 1)
         /\ r[Window(b)[0]].value = lv[j].value
         /\ r[Window(b)[1]].value = lv[j].value
         /\ r[Window(b)[4]].value = lv[j + 1].value
  <1> DEFINE v(z) == r[Window(b)[z]].value
             old == lv[j].value
             new == lv[j + 1].value
  <1>1. /\ b \in Int /\ c \in Int /\ Half \in Nat /\ Len(lv) \in Nat
        /\ j \in 1 .. Len(lv) /\ j + 1 \in 1 .. Len(lv)
    <2>1. Len(lv) \in Nat
      BY DEF Dwelling
    <2> QED BY <2>1, Sizes DEF Inside
  <1>2. lv[j + 1].first \in Nat /\ lv[j].first \in Nat
    BY <1>1, LevelShape
  <1>3. lv[j + 1].first = (b + 3) - Half /\ lv[j].first + 4 <= (b + 3) - Half
    <2>1. lv[j].first + MinDwell <= lv[j + 1].first
      BY <1>1 DEF Dwelling
    <2> QED BY <1>1, <1>2, <2>1, Sizes, SMTT(40) DEF Edge
  <1>4. ASSUME j + 1 < Len(lv)
        PROVE  lv[j + 2].first \in Nat /\ (b + 7) - Half <= lv[j + 2].first
    <2>1. j + 2 \in 1 .. Len(lv)
      BY <1>1, <1>4
    <2>2. lv[j + 1].first + MinDwell <= lv[j + 2].first
      <3>1. j + 1 < j + 2
        BY <1>1
      <3> QED BY <1>1, <2>1, <3>1 DEF Dwelling
    <2>3. lv[j + 2].first \in Nat
      BY <2>1, LevelShape
    <2> QED BY <1>1, <1>2, <1>3, <2>2, <2>3, Sizes, SMTT(40)
  <1>5. \A z \in 0 .. 2 : InLevel(lv, j, (b + z) - Half)
    <2> SUFFICES ASSUME NEW z \in 0 .. 2 PROVE InLevel(lv, j, (b + z) - Half)
      OBVIOUS
    <2>1. lv[j].first <= (b + z) - Half
      BY <1>1, <1>2, <1>3
    <2>2. (b + z) - Half < lv[j + 1].first
      BY <1>1, <1>2, <1>3
    <2> QED BY <2>1, <2>2 DEF InLevel
  <1>6. \A z \in 3 .. 4 : InLevel(lv, j + 1, (b + z) - Half)
    BY <1>1, <1>2, <1>3, <1>4, SMTT(40) DEF InLevel
  <1>7. ASSUME NEW z \in 0 .. 4
        PROVE  v(z) = IF z <= 2 THEN old ELSE new
    <2>1. z \in 0 .. Space - 1
      BY Sizes
    <2>2. Window(b)[z] = Place(b + z) /\ b + z \in Held(c)
      BY <2>1, InsideHeld
    <2>4. j \in 0 .. Len(lv) /\ j + 1 \in 0 .. Len(lv) /\ j # 0 /\ j + 1 # 0
      BY <1>1
    <2>5. LoadOf(lv, j) = old /\ LoadOf(lv, j + 1) = new
      BY <2>4 DEF LoadOf
    <2>6. CASE z \in 0 .. 2
      <3>1. InLevel(lv, j, (b + z) - Half)
        BY <1>5, <2>6
      <3>2. r[Place(b + z)].value = LoadOf(lv, j)
        BY <2>2, <2>4, <3>1, SmoothValue, ZenonT(40)
      <3> QED BY <2>2, <2>5, <2>6, <3>2
    <2>7. CASE z \in 3 .. 4
      <3>1. InLevel(lv, j + 1, (b + z) - Half)
        BY <1>6, <2>7
      <3>2. r[Place(b + z)].value = LoadOf(lv, j + 1)
        BY <2>2, <2>4, <3>1, SmoothValue, ZenonT(40)
      <3> QED BY <2>2, <2>5, <2>7, <3>2
    <2> QED BY <2>6, <2>7
  <1>8. /\ v(0) = old /\ v(1) = old /\ v(2) = old
        /\ v(3) = new /\ v(4) = new
    BY <1>7
  <1>9. old \in Loads /\ new \in Loads /\ old # new /\ old \in Nat /\ new \in Nat
    BY <1>1, LevelShape DEF Dwelling
  <1> HIDE DEF old, new
  <1>10. /\ Magnitude(new - old) > Threshold(old, old)
         /\ Magnitude(new - old) >= Tolerance(new, old)
         /\ Magnitude(old - old) = 0 /\ Tolerance(old, old) >= 10
         /\ Magnitude(new - new) = 0 /\ Tolerance(new, new) >= 10
         /\ Tolerance(old, old) \in Nat /\ Tolerance(new, new) \in Nat
    <2>1. \A w \in Nat : Tolerance(w, w) \in Nat /\ Magnitude(w - w) = 0
      BY DEF Magnitude, Tolerance
    <2>2. Magnitude(old - new) = Magnitude(new - old)
      BY <1>9 DEF Magnitude
    <2>3. Magnitude(old - new) > Threshold(old, old)
      BY <1>9, Apart
    <2>4. Magnitude(old - new) >= Tolerance(new, old)
      BY <1>9, Apart
    <2> QED BY <1>9, <2>1, <2>2, <2>3, <2>4, Even
  <1>11. Starts(r, Window(b))
    BY <1>8, <1>10 DEF Starts
  <1>12. Ends(r, Window(b), 1)
    <2>1. 3 + 1 = 4 /\ 2 + 1 = 3
      OBVIOUS
    <2> QED BY <1>8, <1>10, <2>1 DEF Ends
  <1>13. ~Ends(r, Window(b), 0)
    <2>1. 3 + 0 = 3 /\ 2 + 0 = 2
      OBVIOUS
    <2>2. Magnitude(new - old) \in Int /\ Tolerance(new, old) \in Int
      BY <1>9 DEF Magnitude, Tolerance
    <2>3. ~(Magnitude(new - old) < Tolerance(new, old))
      BY <1>10, <2>2
    <2> QED BY <1>8, <2>1, <2>3 DEF Ends
  <1> QED BY <1>8, <1>11, <1>12, <1>13 DEF old, new

\* what a scan has found so far, when the steps up to position t are stored
Holds(g, lv, c, t) == Smooth(g.ring, lv, c, Len(g.rows)) /\ Stored(g.rows, lv, c, t)

LEMMA EdgeNat ==
  ASSUME NEW lv, Dwelling(lv), NEW j \in 0 .. Len(lv) - 1
  PROVE  /\ Len(lv) \in Nat /\ Edge(lv, j) \in Nat
         /\ j = 0 => Edge(lv, j) = 1 + Half
         /\ \A h \in 0 .. Len(lv) - 1 : h < j => Edge(lv, h) + 4 <= Edge(lv, j)
  <1>1. Len(lv) \in Nat /\ j \in Nat /\ j + 1 \in 1 .. Len(lv)
    <2>1. Len(lv) \in Nat
      BY DEF Dwelling
    <2> QED BY <2>1
  <1>2. lv[j + 1].first \in Nat /\ Half \in Nat
    BY <1>1, LevelShape, Sizes
  <1>3. j = 0 => Edge(lv, j) = 1 + Half
    BY DEF Edge, Dwelling
  <1>4. ASSUME NEW h \in 0 .. Len(lv) - 1, h < j
        PROVE  Edge(lv, h) + 4 <= Edge(lv, j)
    <2>1. h + 1 \in 1 .. Len(lv) /\ h + 1 < j + 1
      BY <1>1, <1>4
    <2>2. lv[h + 1].first \in Nat
      BY <2>1, LevelShape
    <2>3. lv[h + 1].first + MinDwell <= lv[j + 1].first
      BY <1>1, <2>1 DEF Dwelling
    <2> DEFINE d == lv[h + 1].first
               e == lv[j + 1].first
    <2>4. d \in Nat /\ e \in Nat /\ d + MinDwell <= e
      BY <1>2, <2>2, <2>3
    <2> HIDE DEF d, e
    <2>5. (d + Half) + 4 <= e + Half
      BY <1>2, <2>4, Sizes
    <2> QED BY <2>5 DEF Edge, d, e
  <1> QED BY <1>1, <1>2, <1>3, <1>4 DEF Edge

LEMMA PositionInside ==
  ASSUME NEW c \in Int, NEW t \in Space .. WindowSize
  PROVE  Inside(c - t, c) /\ Position(Place(c), t) = Window(c - t)
  <1>1. t \in Int /\ Space <= t /\ t < BufferLength
    BY Sizes
  <1> QED BY <1>1, PositionIs, Sizes DEF Inside

LEMMA UnmarkedIs ==
  ASSUME NEW r, NEW b, NEW c, Inside(b, c)
  PROVE  Unmarked(r, Window(b)) <=> ~r[Place(b)].check /\ ~r[Place(b + 1)].check
  <1>1. 0 .. Marker - 1 = {0, 1}
    BY Sizes
  <1>2. 0 \in 0 .. Space - 1 /\ 1 \in 0 .. Space - 1
    BY Sizes
  <1>3. b + 0 = b
    BY DEF Inside
  <1>4. Window(b)[0] = Place(b) /\ Window(b)[1] = Place(b + 1)
    BY <1>2, <1>3, InsideHeld
  <1> QED BY <1>1, <1>4 DEF Unmarked

\* Where no new step is due, the scan changes nothing.
LEMMA ScanQuiet ==
  ASSUME NEW lv, Dwelling(lv), NEW g, NEW c \in Int, NEW t \in Space .. WindowSize,
         NEW rc, Holds(g, lv, c, Space + 1),
         \A j \in 1 .. Len(lv) - 1 : j > Len(g.rows) => Edge(lv, j) - 3 # c - t
  PROVE  Scan(g, Place(c), t, rc) = g
  <1> DEFINE b == c - t
             r == g.ring
             f == Len(g.rows)
  <1>1. Inside(b, c) /\ Position(Place(c), t) = Window(b)
    BY PositionInside
  <1>2. SUFFICES ASSUME Starts(r, Window(b)), Unmarked(r, Window(b)) PROVE FALSE
    <2>1. \/ Scan(g, Place(c), t, rc) = g
          \/ Starts(r, Position(Place(c), t)) /\ Unmarked(r, Position(Place(c), t))
      BY DEF Scan
    <2> QED BY <1>1, <2>1
  <1>3. b \in Int /\ b \in Held(c) /\ t \in Int /\ Space <= t /\ Half \in Nat
        /\ Space \in Nat /\ b = c - t
    <2>1. 0 \in 0 .. Space - 1
      BY Sizes
    <2>2. b + 0 \in Held(c)
      BY <1>1, <2>1, InsideHeld
    <2> QED BY <2>2, Sizes
  <1>4. Smooth(r, lv, c, f) /\ Stored(g.rows, lv, c, Space + 1)
    BY DEF Holds
  <1>5. \A j \in 1 .. Len(lv) - 1 : j > f => Edge(lv, j) - 3 # b
    OBVIOUS
  <1> HIDE DEF b, r, f
  <1>6. ~(b <= Half) /\ ~Marked(lv, f, b)
    BY <1>1, <1>2, <1>3, <1>4, UnmarkedIs DEF Smooth
  <1>7. PICK j \in 0 .. Len(lv) - 1 : Edge(lv, j) \in {b + 2, b + 3}
    BY <1>1, <1>2, <1>4, StartIsEdge
  <1>8. Edge(lv, j) \in Nat /\ (j = 0 => Edge(lv, j) = 1 + Half) /\ Len(lv) \in Nat
    BY EdgeNat
  <1>9. f \in Nat
    <2>1. g.rows \in Seq(Calls)
      BY <1>4 DEF Stored
    <2> QED BY <2>1 DEF f
  <1>10. j \in 1 .. Len(lv) - 1
    BY <1>3, <1>6, <1>7, <1>8
  <1>11. CASE j <= f
    <2>1. j \in 1 .. f
      BY <1>9, <1>10, <1>11
    <2>2. b = Edge(lv, j) - 3 \/ b = Edge(lv, j) - 2
      BY <1>3, <1>7, <1>8
    <2> QED BY <1>6, <2>1, <2>2 DEF Marked
  <1>12. CASE j > f
    <2>1. Edge(lv, j) = b + 2
      BY <1>3, <1>5, <1>7, <1>8, <1>10, <1>12
    <2>2. ~(j <= f)
      BY <1>9, <1>10, <1>12
    <2>3. ~(Edge(lv, j) - 3 + (Space + 1) <= c)
      BY <1>4, <1>10, <2>2 DEF Stored, f
    <2> QED BY <1>3, <2>1, <2>3
  <1> QED BY <1>9, <1>10, <1>11, <1>12

\* The marks of a new step are the only ones that change.
LEMMA MarkSmooth ==
  ASSUME NEW lv, Dwelling(lv), NEW r, NEW c, NEW f \in Nat, NEW b, Smooth(r, lv, c, f),
         Inside(b, c), Edge(lv, f + 1) = b + 3
  PROVE  Smooth(Mark(r, Window(b)), lv, c, f + 1)
  <1> DEFINE q == Mark(r, Window(b))
  <1>1. b \in Int /\ c \in Int /\ Held(c) \subseteq Int
    BY Sizes DEF Inside, Held
  <1>2. \A s \in EdgeSlot :
          q[s] = IF s = Place(b) \/ s = Place(b + 1) THEN [r[s] EXCEPT !.check = TRUE] ELSE r[s]
    <2>1. 0 .. Marker - 1 = {0, 1} /\ 0 \in 0 .. Space - 1 /\ 1 \in 0 .. Space - 1
      BY Sizes
    <2>2. Window(b)[0] = Place(b) /\ Window(b)[1] = Place(b + 1)
      <3>1. b + 0 = b
        BY <1>1
      <3> QED BY <2>1, <3>1, InsideHeld
    <2> QED BY <2>1, <2>2 DEF Mark
  <1>3. DOMAIN q = EdgeSlot
    BY DEF Mark
  <1>4. r \in [EdgeSlot -> [epoch : Nat, value : Nat, check : BOOLEAN]]
    BY DEF Smooth
  <1>5. \A s \in EdgeSlot :
          /\ q[s] \in [epoch : Nat, value : Nat, check : BOOLEAN]
          /\ q[s].epoch = r[s].epoch /\ q[s].value = r[s].value
          /\ q[s].check <=> r[s].check \/ s = Place(b) \/ s = Place(b + 1)
    <2> SUFFICES ASSUME NEW s \in EdgeSlot
                 PROVE  /\ q[s] \in [epoch : Nat, value : Nat, check : BOOLEAN]
                        /\ q[s].epoch = r[s].epoch /\ q[s].value = r[s].value
                        /\ q[s].check <=> r[s].check \/ s = Place(b) \/ s = Place(b + 1)
      OBVIOUS
    <2>1. r[s] \in [epoch : Nat, value : Nat, check : BOOLEAN]
      BY <1>4
    <2> HIDE DEF q
    <2>2. CASE s = Place(b) \/ s = Place(b + 1)
      <3>1. q[s] = [r[s] EXCEPT !.check = TRUE]
        BY <1>2, <2>2
      <3> QED BY <2>1, <2>2, <3>1
    <2>3. CASE ~(s = Place(b) \/ s = Place(b + 1))
      <3>1. q[s] = r[s]
        BY <1>2, <2>3
      <3> QED BY <2>1, <2>3, <3>1
    <2> QED BY <2>2, <2>3
  <1>6. q = [s \in EdgeSlot |-> q[s]]
    BY DEF Mark
  <1> HIDE DEF q
  <1>7. q \in [EdgeSlot -> [epoch : Nat, value : Nat, check : BOOLEAN]]
    BY <1>5, <1>6
  <1>8. \A k \in Held(c) : Place(k) \in EdgeSlot
    BY <1>1, PlaceIn
  <1>9. \A k \in Held(c) : k >= 0 => q[Place(k)].epoch = k
    BY <1>5, <1>8 DEF Smooth
  <1>10. \A k \in Held(c), j \in 0 .. Len(lv) :
           InLevel(lv, j, k - Half) => q[Place(k)].value = LoadOf(lv, j)
    BY <1>5, <1>8 DEF Smooth
  <1>11. ASSUME NEW k \in Held(c)
         PROVE  q[Place(k)].check <=> k <= Half \/ Marked(lv, f + 1, k)
    <2>1. 0 \in 0 .. Space - 1 /\ 1 \in 0 .. Space - 1 /\ b + 0 = b
      BY <1>1, Sizes
    <2>2. b \in Held(c) /\ b + 1 \in Held(c)
      BY <2>1, InsideHeld
    <2>3. \A l \in Held(c) : Place(k) = Place(l) => k = l
      <3> SUFFICES ASSUME NEW l \in Held(c), Place(k) = Place(l) PROVE k = l
        OBVIOUS
      <3>1. k \in Int /\ l \in Int /\ k - l < BufferLength /\ l - k < BufferLength
        BY <1>1, Sizes DEF Held
      <3> QED BY <3>1, PlaceOnce
    <2>4. r[Place(k)].check <=> k <= Half \/ Marked(lv, f, k)
      BY DEF Smooth
    <2>5. Marked(lv, f + 1, k) <=> Marked(lv, f, k) \/ k = b \/ k = b + 1
      <3>1. 1 .. f + 1 = (1 .. f) \union {f + 1}
        OBVIOUS
      <3>2. Edge(lv, f + 1) - 3 = b /\ Edge(lv, f + 1) - 2 = b + 1
        BY <1>1
      <3> QED BY <3>1, <3>2 DEF Marked
    <2>6. Place(k) = Place(b) \/ Place(k) = Place(b + 1) <=> k = b \/ k = b + 1
      BY <2>2, <2>3
    <2>7. q[Place(k)].check <=> r[Place(k)].check \/ (Place(k) = Place(b) \/ Place(k) = Place(b + 1))
      BY <1>5, <1>8
    <2> QED BY <2>4, <2>5, <2>6, <2>7
  <1>12. Smooth(q, lv, c, f + 1)
    BY <1>7, <1>9, <1>10, <1>11 DEF Smooth
  <1> QED BY <1>12 DEF q

\* A step that is due is written, with its sizes and its time.
LEMMA ScanFinds ==
  ASSUME NEW lv, Dwelling(lv), NEW g, NEW c \in Int, Holds(g, lv, c, Space + 1),
         NEW j \in 1 .. Len(lv) - 1, j > Len(g.rows), Edge(lv, j) - 3 = c - Space,
         NEW rc \in {"ok", "error"}
  PROVE  Holds(Scan(g, Place(c), Space, rc), lv, c, Space)
  <1> DEFINE b == c - Space
             r == g.ring
             f == Len(g.rows)
             p == Window(b)
             row == [epoch |-> Edge(lv, j) - 3, power |-> lv[j].value,
                     dP |-> lv[j + 1].value - lv[j].value]
             call == [row |-> row, rc |-> rc]
  <1>1. Inside(b, c) /\ Position(Place(c), Space) = p
    <2>1. Space \in Space .. WindowSize
      BY Sizes
    <2> QED BY <2>1, PositionInside
  <1>2. Smooth(r, lv, c, f) /\ Stored(g.rows, lv, c, Space + 1)
    BY DEF Holds
  <1>rows. g.rows \in Seq(Calls)
    BY <1>2 DEF Stored
  <1>3. f \in Nat /\ Len(lv) \in Nat /\ Space \in Nat /\ Half \in Nat
    <2>1. f \in Nat
      BY <1>rows
    <2>2. Len(lv) \in Nat
      BY DEF Dwelling
    <2> QED BY <2>1, <2>2, Sizes
  <1>4. Edge(lv, j) \in Nat /\ Edge(lv, j) = b + 3 /\ b \in Int /\ b + Space = c
    <2>1. j \in 0 .. Len(lv) - 1
      BY <1>3
    <2> QED BY <2>1, EdgeNat, Sizes
  <1>5. \A h \in 0 .. Len(lv) - 1 :
          Edge(lv, h) \in Nat /\ (h < j => Edge(lv, h) + 4 <= Edge(lv, j))
                              /\ (j < h => Edge(lv, j) + 4 <= Edge(lv, h))
    <2>1. j \in 0 .. Len(lv) - 1
      BY <1>3
    <2> QED BY <2>1, EdgeNat
  <1>6. j = f + 1
    <2> SUFFICES ASSUME j - 1 > f PROVE FALSE
      BY <1>3
    <2>1. j - 1 \in 1 .. Len(lv) - 1 /\ ~(j - 1 <= f) /\ j - 1 < j
      BY <1>3
    <2>2. ~(Edge(lv, j - 1) - 3 + (Space + 1) <= c)
      BY <1>2, <2>1 DEF Stored
    <2>3. Edge(lv, j - 1) \in Nat /\ Edge(lv, j - 1) + 4 <= Edge(lv, j)
      BY <1>3, <1>5, <2>1
    <2> HIDE DEF b
    <2> QED BY <1>3, <1>4, <2>2, <2>3
  <1>7. /\ Starts(r, p) /\ ~Ends(r, p, 0) /\ Ends(r, p, 1)
        /\ r[p[0]].value = lv[j].value /\ r[p[1]].value = lv[j].value
        /\ r[p[4]].value = lv[j + 1].value
    <2> HIDE DEF b, r, f
    <2> QED BY <1>1, <1>2, <1>4, EdgeStarts
  <1>8. Half + 2 <= b
    <2>1. 0 \in 0 .. Len(lv) - 1 /\ 0 < j
      BY <1>3
    <2>2. Edge(lv, 0) = 1 + Half /\ Edge(lv, 0) + 4 <= Edge(lv, j)
      BY <1>5, <2>1, EdgeNat
    <2> HIDE DEF b
    <2> QED BY <1>3, <1>4, <2>2
  <1> HIDE DEF b, r
  <1>9. 0 \in 0 .. Space - 1 /\ 1 \in 0 .. Space - 1 /\ b + 0 = b
    BY <1>4, Sizes
  <1>10. /\ b \in Held(c) /\ b + 1 \in Held(c)
         /\ p[0] = Place(b) /\ p[1] = Place(b + 1)
    BY <1>1, <1>9, InsideHeld
  <1>11. Unmarked(r, p)
    <2>1. ASSUME NEW k \in {b, b + 1}
          PROVE  ~(k <= Half) /\ ~Marked(lv, f, k)
      <3>1. k \in Int /\ ~(k <= Half)
        BY <1>3, <1>4, <1>8
      <3>2. ASSUME NEW h \in 1 .. f
            PROVE  ~(k = Edge(lv, h) - 3 \/ k = Edge(lv, h) - 2)
        <4>1. h \in 0 .. Len(lv) - 1 /\ h < j
          BY <1>3, <1>6
        <4>2. Edge(lv, h) \in Nat /\ Edge(lv, h) + 4 <= Edge(lv, j)
          BY <1>5, <4>1
        <4> QED BY <1>4, <3>1, <4>2, SMTT(40)
      <3> QED BY <3>1, <3>2 DEF Marked
    <2>2. ~r[Place(b)].check /\ ~r[Place(b + 1)].check
      BY <1>2, <1>10, <2>1 DEF Smooth
    <2> QED BY <1>1, <2>2, UnmarkedIs
  <1>12. Row(r, p, 1) = row
    <2>1. r[Place(b)].epoch = b
      BY <1>2, <1>3, <1>4, <1>8, <1>10 DEF Smooth
    <2>2. b = Edge(lv, j) - 3 /\ 3 + 1 = 4
      BY <1>4
    <2> QED BY <1>7, <1>10, <2>1, <2>2 DEF Row
  <1>13. Scan(g, Place(c), Space, rc) =
           [ring |-> Mark(r, p), rows |-> Write(g.rows, Row(r, p, 1), rc)]
    <2> DEFINE w == Position(Place(c), Space)
               ks == {k \in 0 .. Space - 5 : Ends(g.ring, w, k)}
               k0 == CHOOSE k \in ks : \A h \in ks : k <= h
    <2>1. w = p /\ r = g.ring
      BY <1>1 DEF r
    <2>2. Starts(g.ring, w) /\ Unmarked(g.ring, w)
          /\ Ends(g.ring, w, 1) /\ ~Ends(g.ring, w, 0)
      BY <1>7, <1>11, <2>1
    <2>3. 1 \in ks /\ (\A h \in ks : 1 <= h) /\ ks # {}
      BY <2>2, Sizes
    <2>4. k0 \in ks /\ \A h \in ks : k0 <= h
      BY <2>3
    <2>5. k0 = 1
      BY <2>3, <2>4
    <2>6. Scan(g, Place(c), Space, rc) =
            IF Starts(g.ring, w) /\ ks # {} /\ Unmarked(g.ring, w)
            THEN [ring |-> Mark(g.ring, w), rows |-> Write(g.rows, Row(g.ring, w, k0), rc)]
            ELSE g
      BY DEF Scan
    <2> HIDE DEF w, ks, k0
    <2>7. Scan(g, Place(c), Space, rc) =
            [ring |-> Mark(g.ring, w), rows |-> Write(g.rows, Row(g.ring, w, k0), rc)]
      BY <2>2, <2>3, <2>6, Zenon
    <2> QED BY <2>1, <2>5, <2>7
  <1>14. Smooth(Mark(r, p), lv, c, f + 1)
    BY <1>1, <1>2, <1>3, <1>4, <1>6, MarkSmooth
  <1>15. call \in Calls
    <2>1. j \in 1 .. Len(lv) /\ j + 1 \in 1 .. Len(lv)
      BY <1>3
    <2>2. lv[j].value \in Nat /\ lv[j + 1].value \in Nat
      BY <2>1, LevelShape
    <2>3. row \in [epoch : Int, power : Nat, dP : Int]
      BY <1>4, <2>2
    <2> HIDE DEF row
    <2> QED BY <2>3 DEF Calls
  <1>18. call.row = row /\ Write(g.rows, row, rc) = Append(g.rows, call)
    BY DEF Write
  <1> HIDE DEF row, call
  <1>16. Stored(Append(g.rows, call), lv, c, Space)
    <2> DEFINE a == Append(g.rows, call)
    <2>1. a \in Seq(Calls) /\ Len(a) = f + 1 /\ a[f + 1] = call
          /\ \A h \in 1 .. f : a[h] = g.rows[h]
      BY <1>3, <1>15, <1>rows
    <2> HIDE DEF a
    <2>2. Len(a) < Len(lv)
      BY <1>3, <1>6, <2>1
    <2>3. ASSUME NEW h \in 1 .. Len(a)
          PROVE  a[h].row = [epoch |-> Edge(lv, h) - 3, power |-> lv[h].value,
                             dP |-> lv[h + 1].value - lv[h].value]
      <3>1. CASE h = f + 1
        BY <1>6, <1>18, <2>1, <3>1 DEF row
      <3>2. CASE h \in 1 .. f
        <4>1. a[h] = g.rows[h]
          BY <2>1, <3>2
        <4> QED BY <1>2, <3>2, <4>1 DEF Stored, f
      <3> QED BY <1>3, <2>1, <3>1, <3>2, SMTT(40)
    <2>4. ASSUME NEW h \in 1 .. Len(lv) - 1
          PROVE  h <= Len(a) <=> Edge(lv, h) - 3 + Space <= c
      <3>0. h \in 0 .. Len(lv) - 1 /\ h \in Nat /\ j \in Nat
        BY <1>3
      <3>1. CASE h = j
        BY <1>3, <1>4, <1>6, <2>1, <3>1
      <3>2. CASE h < j
        <4>1. Edge(lv, h) \in Nat /\ Edge(lv, h) + 4 <= Edge(lv, j)
          BY <1>5, <3>0, <3>2
        <4>2. Edge(lv, h) - 3 + Space <= c
          BY <1>3, <1>4, <4>1
        <4>3. h <= Len(a)
          BY <1>3, <1>6, <2>1, <3>0, <3>2
        <4> QED BY <4>2, <4>3
      <3>3. CASE j < h
        <4>1. Edge(lv, h) \in Nat /\ Edge(lv, j) + 4 <= Edge(lv, h)
          BY <1>5, <3>0, <3>3
        <4> QED BY <1>3, <1>4, <1>6, <2>1, <3>0, <3>3, <4>1, SMTT(40)
      <3> QED BY <3>0, <3>1, <3>2, <3>3
    <2>5. Stored(a, lv, c, Space)
      BY <2>1, <2>2, <2>3, <2>4 DEF Stored
    <2> QED BY <2>5 DEF a
  <1>17. Len(Append(g.rows, call)) = f + 1
    BY <1>rows
  <1> HIDE DEF p, f
  <1>19. Scan(g, Place(c), Space, rc) = [ring |-> Mark(r, p), rows |-> Append(g.rows, call)]
    BY <1>12, <1>13, <1>18
  <1> HIDE DEF call
  <1> DEFINE after == Scan(g, Place(c), Space, rc)
  <1>20. after.ring = Mark(r, p) /\ after.rows = Append(g.rows, call)
    BY <1>19
  <1> HIDE DEF after
  <1>21. Holds(after, lv, c, Space)
    BY <1>14, <1>16, <1>17, <1>20 DEF Holds
  <1> QED BY <1>21 DEF after

-----------------------------------------------------------------------------
(* One live value                                                          *)

\* The loads lv go on as more, with sample c + 1.
Grows(lv, more, c) ==
  /\ Len(lv) <= Len(more)
  /\ \A j \in 1 .. Len(lv) : more[j] = lv[j]
  /\ \A j \in Len(lv) + 1 .. Len(more) : c < more[j].first
  /\ more[Len(more)].first <= c + 1

\* what was is not changed
LEMMA OldLevel ==
  ASSUME NEW lv, NEW more, Dwelling(lv), Dwelling(more), NEW c \in Int, Grows(lv, more, c),
         NEW k \in Int, k <= c, NEW j \in 0 .. Len(more), InLevel(more, j, k)
  PROVE  j \in 0 .. Len(lv) /\ InLevel(lv, j, k) /\ LoadOf(more, j) = LoadOf(lv, j)
  <1>1. Len(lv) \in Nat /\ Len(more) \in Nat /\ Len(lv) >= 1 /\ Len(lv) <= Len(more)
    BY DEF Dwelling, Grows
  <1>2. j <= Len(lv)
    <2> SUFFICES ASSUME j > Len(lv) PROVE FALSE
      BY <1>1
    <2>1. j \in Len(lv) + 1 .. Len(more) /\ j \in 1 .. Len(more) /\ j > 0
      BY <1>1
    <2>2. c < more[j].first /\ more[j].first <= k /\ more[j].first \in Nat
      BY <2>1, LevelShape DEF Grows, InLevel
    <2> QED BY <2>2
  <1>3. j > 0 => j \in 1 .. Len(lv) /\ more[j] = lv[j]
    BY <1>1, <1>2 DEF Grows
  <1>4. j < Len(lv) => j < Len(more) /\ more[j + 1] = lv[j + 1]
    <2>1. j < Len(lv) => j + 1 \in 1 .. Len(lv)
      BY <1>1
    <2> QED BY <1>1, <2>1 DEF Grows
  <1>5. j \in 0 .. Len(lv) /\ (j # 0 => j > 0)
    BY <1>1, <1>2
  <1> QED BY <1>3, <1>4, <1>5 DEF InLevel, LoadOf

LEMMA LastLevel ==
  ASSUME NEW lv, Dwelling(lv), NEW k \in Int, lv[Len(lv)].first <= k,
         NEW j \in 0 .. Len(lv), InLevel(lv, j, k)
  PROVE  j = Len(lv)
  <1>1. Len(lv) \in Nat /\ Len(lv) >= 1 /\ Len(lv) \in 0 .. Len(lv)
    BY DEF Dwelling
  <1>2. InLevel(lv, Len(lv), k)
    BY <1>1 DEF InLevel
  <1>3. Len(lv) <= j
    BY <1>1, <1>2, LevelOrder
  <1> QED BY <1>1, <1>3

\* The ring's new slot is that of the sample that falls out.
LEMMA HeldNext ==
  ASSUME NEW c \in Int, NEW k \in Held(c + 1)
  PROVE  \/ k = c + 1
         \/ k \in Held(c) /\ k <= c /\ Place(k) # Place(c + 1) /\ Place(k) \in EdgeSlot
  <1> SUFFICES ASSUME k # c + 1
               PROVE  k \in Held(c) /\ k <= c /\ Place(k) # Place(c + 1) /\ Place(k) \in EdgeSlot
    OBVIOUS
  <1>1. k \in Int /\ k <= c /\ c + 1 - k < BufferLength /\ c + 1 \in Int
        /\ k - (c + 1) < BufferLength /\ k \in Held(c)
    BY Sizes DEF Held
  <1>2. Place(k) # Place(c + 1)
    <2>1. (c + 1) - k < BufferLength
      BY <1>1
    <2> QED BY <1>1, <2>1, PlaceOnce
  <1> QED BY <1>1, <1>2, PlaceIn

LEMMA CurveNext ==
  ASSUME NEW lv, NEW more, Dwelling(lv), Dwelling(more), NEW c \in Int, Grows(lv, more, c),
         NEW r, Curve(r, lv, c)
  PROVE  Curve([r EXCEPT ![Place(c + 1)] = more[Len(more)].value], more, c + 1)
  <1> DEFINE v == more[Len(more)].value
             q == [r EXCEPT ![Place(c + 1)] = v]
  <1>1. Len(more) \in Nat /\ Len(more) \in 1 .. Len(more) /\ Len(more) # 0
    BY DEF Dwelling
  <1>2. v \in Nat /\ LoadOf(more, Len(more)) = v
    BY <1>1, LevelShape DEF LoadOf
  <1>3. r \in [EdgeSlot -> Nat] /\ Place(c + 1) \in EdgeSlot
    BY PlaceIn DEF Curve
  <1> HIDE DEF v
  <1>4. /\ q \in [EdgeSlot -> Nat] /\ q[Place(c + 1)] = v
        /\ \A s \in EdgeSlot : s # Place(c + 1) => q[s] = r[s]
    BY <1>2, <1>3
  <1> HIDE DEF q
  <1>5. ASSUME NEW k \in Held(c + 1), NEW j \in 0 .. Len(more), InLevel(more, j, k)
        PROVE  q[Place(k)] = LoadOf(more, j)
    <2>1. CASE k = c + 1
      <3>1. j = Len(more)
        BY <1>5, <2>1, LastLevel DEF Grows
      <3> QED BY <1>2, <1>4, <2>1, <3>1
    <2>2. CASE k # c + 1
      <3>1. k \in Held(c) /\ k <= c /\ Place(k) # Place(c + 1) /\ Place(k) \in EdgeSlot
        BY <2>2, HeldNext
      <3>2. k \in Int
        BY Sizes DEF Held
      <3>3. j \in 0 .. Len(lv) /\ InLevel(lv, j, k) /\ LoadOf(more, j) = LoadOf(lv, j)
        BY <1>5, <3>1, <3>2, OldLevel
      <3> QED BY <1>4, <3>1, <3>3 DEF Curve
    <2> QED BY <2>1, <2>2
  <1>6. Curve(q, more, c + 1)
    BY <1>4, <1>5 DEF Curve
  <1> QED BY <1>6 DEF q, v

\* the steps that are stored keep their marks
LEMMA OldEdges ==
  ASSUME NEW lv, NEW more, Dwelling(lv), NEW c, Grows(lv, more, c),
         NEW f \in Nat, f < Len(lv)
  PROVE  /\ \A j \in 1 .. f : Edge(more, j) = Edge(lv, j)
         /\ \A k : Marked(more, f, k) <=> Marked(lv, f, k)
  <1>1. Len(lv) \in Nat
    BY DEF Dwelling
  <1>2. ASSUME NEW j \in 1 .. f PROVE Edge(more, j) = Edge(lv, j)
    <2>1. j + 1 \in 1 .. Len(lv)
      BY <1>1
    <2> QED BY <2>1 DEF Grows, Edge
  <1> QED BY <1>2 DEF Marked

LEMMA SmoothNext ==
  ASSUME NEW lv, NEW more, Dwelling(lv), Dwelling(more), NEW c \in Nat, Grows(lv, more, c),
         NEW r, NEW f \in Nat, f < Len(lv), Smooth(r, lv, c, f),
         \A j \in 1 .. f : Edge(lv, j) - 3 + Space <= c,
         NEW l \in 0 .. Len(more), InLevel(more, l, (c + 1) - Half)
  PROVE  Smooth([r EXCEPT ![Place(c + 1)] = Filtered(@, c + 1, LoadOf(more, l))],
                more, c + 1, f)
  <1> DEFINE v == LoadOf(more, l)
             o == r[Place(c + 1)]
             P == [epoch : Nat, value : Nat, check : BOOLEAN]
             q == [r EXCEPT ![Place(c + 1)] = Filtered(o, c + 1, v)]
  <1>1. /\ v \in Nat /\ (l > 0 => v > 0) /\ (l = 0 => v = 0)
        /\ Len(lv) \in Nat /\ Len(more) \in Nat /\ Half \in Nat /\ c + 1 \in Nat
        /\ (c + 1) - Half \in Int /\ l \in Nat
    <2>1. Len(more) \in Nat
      BY DEF Dwelling
    <2>2. l = 0 => v = 0
      BY DEF LoadOf
    <2>3. v \in Nat /\ (l > 0 => v > 0)
      BY LoadNat
    <2> HIDE DEF v
    <2> QED BY <2>1, <2>2, <2>3, Sizes DEF Dwelling
  <1>2. r \in [EdgeSlot -> P] /\ Place(c + 1) \in EdgeSlot /\ o \in P
    <2>1. r \in [EdgeSlot -> P]
      BY DEF Smooth
    <2>2. Place(c + 1) \in EdgeSlot
      BY PlaceIn
    <2> HIDE DEF P
    <2> QED BY <2>1, <2>2
  <1> HIDE DEF v
  <1>3. /\ Filtered(o, c + 1, v) \in P
        /\ Filtered(o, c + 1, v).epoch = c + 1 /\ Filtered(o, c + 1, v).value = v
        /\ v > 0 => ~Filtered(o, c + 1, v).check
        /\ v = 0 => (Filtered(o, c + 1, v).check <=> o.check)
    <2>1. o.check \in BOOLEAN
      BY <1>2
    <2> HIDE DEF o
    <2>2. CASE v > 0
      <3> DEFINE no == FALSE
      <3>1. Filtered(o, c + 1, v) = [epoch |-> c + 1, value |-> v, check |-> no]
        BY <2>2 DEF Filtered
      <3>2. no \in BOOLEAN /\ ~no
        OBVIOUS
      <3> HIDE DEF no
      <3>3. /\ Filtered(o, c + 1, v) \in P
            /\ Filtered(o, c + 1, v).epoch = c + 1 /\ Filtered(o, c + 1, v).value = v
        BY <1>1, <3>1, <3>2
      <3>4. v # 0 /\ Filtered(o, c + 1, v).check = no
        BY <2>2, <3>1
      <3> QED BY <3>2, <3>3, <3>4
    <2>3. CASE v = 0
      <3>1. Filtered(o, c + 1, v) = [epoch |-> c + 1, value |-> v, check |-> o.check]
        BY <2>3 DEF Filtered
      <3> QED BY <1>1, <2>1, <2>3, <3>1
    <2> QED BY <1>1, <2>2, <2>3
  <1> HIDE DEF P
  <1>4. /\ q \in [EdgeSlot -> P] /\ q[Place(c + 1)] = Filtered(o, c + 1, v)
        /\ \A s \in EdgeSlot : s # Place(c + 1) => q[s] = r[s]
    BY <1>2, <1>3
  <1> HIDE DEF q
  <1>5. ASSUME NEW k \in Held(c + 1)
        PROVE  k >= 0 => q[Place(k)].epoch = k
    <2>1. CASE k = c + 1
      BY <1>3, <1>4, <2>1
    <2>2. CASE k # c + 1
      <3>1. k \in Held(c) /\ Place(k) # Place(c + 1) /\ Place(k) \in EdgeSlot
        BY <2>2, HeldNext
      <3> QED BY <1>4, <3>1 DEF Smooth
    <2> QED BY <2>1, <2>2
  <1>6. ASSUME NEW k \in Held(c + 1), NEW j \in 0 .. Len(more), InLevel(more, j, k - Half)
        PROVE  q[Place(k)].value = LoadOf(more, j)
    <2>1. CASE k = c + 1
      <3>1. InLevel(more, j, (c + 1) - Half)
        BY <1>6, <2>1
      <3>2. (c + 1) - Half <= (c + 1) - Half
        BY <1>1
      <3>3. l <= j
        BY <1>1, <3>1, <3>2, LevelOrder
      <3>4. j <= l
        BY <1>1, <3>1, <3>2, LevelOrder
      <3>5. j = l
        BY <1>1, <3>3, <3>4
      <3> QED BY <1>3, <1>4, <2>1, <3>5 DEF v
    <2>2. CASE k # c + 1
      <3>1. k \in Held(c) /\ k <= c /\ Place(k) # Place(c + 1) /\ Place(k) \in EdgeSlot
        BY <2>2, HeldNext
      <3>2. k \in Int /\ k - Half \in Int /\ k - Half <= c
        BY <1>1, <3>1, Sizes DEF Held
      <3>3. j \in 0 .. Len(lv) /\ InLevel(lv, j, k - Half) /\ LoadOf(more, j) = LoadOf(lv, j)
        BY <1>6, <3>2, OldLevel
      <3>4. r[Place(k)].value = LoadOf(lv, j)
        BY <3>1, <3>3, SmoothValue
      <3> QED BY <1>4, <3>1, <3>3, <3>4
    <2> QED BY <2>1, <2>2
  <1>7. ASSUME NEW k \in Held(c + 1)
        PROVE  q[Place(k)].check <=> k <= Half \/ Marked(more, f, k)
    <2>1. CASE k # c + 1
      <3>1. k \in Held(c) /\ Place(k) # Place(c + 1) /\ Place(k) \in EdgeSlot
        BY <2>1, HeldNext
      <3>2. r[Place(k)].check <=> k <= Half \/ Marked(lv, f, k)
        BY <3>1 DEF Smooth
      <3>3. Marked(more, f, k) <=> Marked(lv, f, k)
        BY OldEdges
      <3> QED BY <1>4, <3>1, <3>2, <3>3
    <2>2. CASE k = c + 1 /\ l > 0
      <3>1. ~q[Place(k)].check
        BY <1>1, <1>3, <1>4, <2>2
      <3>2. ~(k <= Half)
        <4>1. l - 1 \in 0 .. Len(more) - 1 /\ l \in 1 .. Len(more) /\ (l - 1) + 1 = l
              /\ 0 \in 0 .. Len(more) - 1
          BY <1>1, <2>2
        <4>2. /\ Edge(more, l - 1) \in Nat /\ Edge(more, 0) = 1 + Half
              /\ 0 < l - 1 => Edge(more, 0) + 4 <= Edge(more, l - 1)
          BY <4>1, EdgeNat
        <4>3. 1 + Half <= Edge(more, l - 1)
          BY <1>1, <4>1, <4>2
        <4>4. Edge(more, l - 1) = more[l].first + Half
          BY <4>1 DEF Edge
        <4>5. more[l].first <= (c + 1) - Half /\ more[l].first \in Nat
          BY <2>2, <4>1, LevelShape DEF InLevel
        <4> QED BY <1>1, <2>2, <4>3, <4>4, <4>5, SMTT(40)
      <3>3. ~Marked(more, f, k)
        <4>0. Marked(more, f, k) <=> Marked(lv, f, k)
          BY OldEdges
        <4> SUFFICES ASSUME NEW j \in 1 .. f,
                            k = Edge(lv, j) - 3 \/ k = Edge(lv, j) - 2
                     PROVE  FALSE
          BY <4>0 DEF Marked
        <4>1. Edge(lv, j) \in Nat /\ Edge(lv, j) - 3 + Space <= c
          <5>1. j \in 0 .. Len(lv) - 1
            BY <1>1
          <5> QED BY <5>1, EdgeNat
        <4> QED BY <1>1, <2>2, <4>1, Sizes
      <3> QED BY <3>1, <3>2, <3>3
    <2>3. CASE k = c + 1 /\ l = 0
      <3>1. k <= Half
        <4>1. 0 < Len(more) /\ 0 + 1 = 1 /\ more[1].first = 1
          BY DEF Dwelling
        <4>2. (c + 1) - Half < 1
          BY <2>3, <4>1 DEF InLevel
        <4> QED BY <1>1, <2>3, <4>2
      <3>2. o.check
        <4> DEFINE e == (c + 1) - BufferLength
        <4>1. e \in Held(c) /\ e <= Half
          BY <1>1, <2>3, <3>1, Sizes DEF Held
        <4>2. Place(e) = Place(c + 1)
          <5> DEFINE one == 1
          <5>1. /\ e \in Int /\ e + BufferLength * one = c + 1 /\ one \in Int
                /\ BufferLength \in Nat /\ BufferLength > 0
            BY <1>1, Sizes
          <5> HIDE DEF e, one
          <5>2. (e + BufferLength * one) % BufferLength = e % BufferLength
            BY <5>1, ModShift
          <5> QED BY <5>1, <5>2 DEF Place
        <4> HIDE DEF e
        <4>3. r[Place(e)].check
          BY <4>1 DEF Smooth
        <4> QED BY <4>2, <4>3
      <3>3. q[Place(k)].check
        BY <1>1, <1>3, <1>4, <2>3, <3>2
      <3> QED BY <3>1, <3>3
    <2> QED BY <1>1, <2>1, <2>2, <2>3
  <1>8. Smooth(q, more, c + 1, f)
    BY <1>4, <1>5, <1>6, <1>7 DEF Smooth, P
  <1> QED BY <1>8 DEF q, o, v

LEMMA StoredNext ==
  ASSUME NEW lv, NEW more, Dwelling(lv), Dwelling(more), NEW c \in Nat, Grows(lv, more, c),
         NEW rows, Stored(rows, lv, c, Space)
  PROVE  Stored(rows, more, c + 1, Space + 1)
  <1>1. /\ Len(lv) \in Nat /\ Len(more) \in Nat /\ Len(lv) <= Len(more)
        /\ Len(rows) \in Nat /\ Len(rows) < Len(lv)
        /\ rows \in Seq(Calls)
    BY DEF Dwelling, Grows, Stored
  <1>2. \A j \in 1 .. Len(lv) - 1 :
          Edge(more, j) = Edge(lv, j) /\ more[j] = lv[j] /\ more[j + 1] = lv[j + 1]
    <2> SUFFICES ASSUME NEW j \in 1 .. Len(lv) - 1
                 PROVE  Edge(more, j) = Edge(lv, j) /\ more[j] = lv[j] /\ more[j + 1] = lv[j + 1]
      OBVIOUS
    <2>1. j \in 1 .. Len(lv) /\ j + 1 \in 1 .. Len(lv)
      BY <1>1
    <2> QED BY <2>1 DEF Grows, Edge
  <1>3. ASSUME NEW j \in 1 .. Len(rows)
        PROVE  rows[j].row = [epoch |-> Edge(more, j) - 3, power |-> more[j].value,
                              dP |-> more[j + 1].value - more[j].value]
    <2>1. j \in 1 .. Len(lv) - 1
      BY <1>1
    <2> QED BY <1>2, <2>1 DEF Stored
  <1>4. ASSUME NEW j \in 1 .. Len(more) - 1
        PROVE  j <= Len(rows) <=> Edge(more, j) - 3 + (Space + 1) <= c + 1
    <2>1. CASE j < Len(lv)
      <3>1. j \in 1 .. Len(lv) - 1 /\ j \in 0 .. Len(lv) - 1
        BY <1>1, <2>1
      <3>2. Edge(more, j) = Edge(lv, j) /\ Edge(lv, j) \in Nat
        BY <1>2, <3>1, EdgeNat
      <3>3. j <= Len(rows) <=> Edge(lv, j) - 3 + Space <= c
        BY <3>1 DEF Stored
      <3> QED BY <3>2, <3>3, Sizes
    <2>2. CASE Len(lv) <= j
      <3>1. j + 1 \in Len(lv) + 1 .. Len(more) /\ j + 1 \in 1 .. Len(more)
        BY <1>1, <2>2
      <3>2. c < more[j + 1].first /\ more[j + 1].first \in Nat
        BY <3>1, LevelShape DEF Grows
      <3>3. ~(Edge(more, j) - 3 + (Space + 1) <= c + 1)
        <4> DEFINE e == more[j + 1].first
        <4>1. c < e /\ e \in Nat
          BY <3>2
        <4> HIDE DEF e
        <4>2. ~((e + Half) - 3 + (Space + 1) <= c + 1)
          BY <4>1, Sizes
        <4> QED BY <4>2 DEF Edge, e
      <3> QED BY <1>1, <2>2, <3>3
    <2> QED BY <1>1, <2>1, <2>2
  <1>5. Len(rows) < Len(more)
    BY <1>1
  <1> QED BY <1>1, <1>3, <1>4, <1>5, Zenon DEF Stored

\* the scans of the positions down to the j-th
Scans(fn, m, base, s, rc) ==
  fn = [j \in 0 .. m |-> IF j = 0 THEN base
                         ELSE Scan(fn[j - 1], s, WindowSize + 1 - j, rc)]

LEMMA ScansExist ==
  ASSUME NEW m \in Nat, NEW base, NEW s, NEW rc
  PROVE  \E fn : Scans(fn, m, base, s, rc)
  <1> DEFINE bad == {k \in Nat : ~\E fn : Scans(fn, k, base, s, rc)}
  <1>1. SUFFICES ASSUME bad # {} PROVE FALSE
    OBVIOUS
  <1>2. PICK k \in bad : \A o \in bad : k <= o
    <2>1. bad \subseteq Nat
      OBVIOUS
    <2> HIDE DEF bad
    <2> QED BY <1>1, <2>1, LeastNat
  <1>3. k \in Nat /\ ~\E fn : Scans(fn, k, base, s, rc)
    BY <1>2
  <1>4. CASE k = 0
    <2> DEFINE fn == [j \in 0 .. 0 |-> base]
    <2>1. fn = [j \in 0 .. 0 |-> IF j = 0 THEN base
                                 ELSE Scan(fn[j - 1], s, WindowSize + 1 - j, rc)]
      OBVIOUS
    <2>2. Scans(fn, 0, base, s, rc)
      BY <2>1 DEF Scans
    <2> QED BY <1>3, <1>4, <2>2
  <1>5. CASE k > 0
    <2>1. k - 1 \in Nat /\ k - 1 \notin bad
      <3> HIDE DEF bad
      <3> QED BY <1>2, <1>3, <1>5
    <2>2. PICK f : Scans(f, k - 1, base, s, rc)
      BY <2>1
    <2> DEFINE g == [j \in 0 .. k |-> IF j < k THEN f[j]
                                      ELSE Scan(f[k - 1], s, WindowSize + 1 - k, rc)]
    <2>3. ASSUME NEW j \in 0 .. k
          PROVE  g[j] = IF j = 0 THEN base ELSE Scan(g[j - 1], s, WindowSize + 1 - j, rc)
      <3>1. CASE j = k
        <4>1. j - 1 \in 0 .. k /\ j - 1 < k /\ j # 0
          BY <1>3, <1>5, <3>1
        <4>2. g[j - 1] = f[j - 1]
          BY <4>1
        <4>3. g[j] = Scan(f[k - 1], s, WindowSize + 1 - k, rc)
          BY <3>1
        <4> HIDE DEF g
        <4> QED BY <3>1, <4>1, <4>2, <4>3
      <3>2. CASE j # k
        <4>1. j \in 0 .. k - 1 /\ j < k /\ (j # 0 => j - 1 \in 0 .. k /\ j - 1 < k)
          BY <1>3, <3>2
        <4>2. g[j] = f[j] /\ (j # 0 => g[j - 1] = f[j - 1])
          BY <4>1
        <4>3. f[j] = IF j = 0 THEN base ELSE Scan(f[j - 1], s, WindowSize + 1 - j, rc)
          BY <2>2, <4>1 DEF Scans
        <4> HIDE DEF g
        <4> QED BY <4>2, <4>3
      <3> QED BY <3>1, <3>2
    <2>4. g = [j \in 0 .. k |-> g[j]]
      OBVIOUS
    <2>5. Scans(g, k, base, s, rc)
      <3> HIDE DEF g
      <3> QED BY <2>3, <2>4 DEF Scans
    <2> QED BY <1>3, <2>5
  <1> QED BY <1>3, <1>4, <1>5

LEMMA DetectScans ==
  ASSUME NEW r, NEW s, NEW rc
  PROVE  \E fn : /\ Scans(fn, WindowSize - Space + 1, [ring |-> r, rows |-> nialm], s, rc)
                 /\ Detect(r, s, rc) = fn[WindowSize - Space + 1]
  <1> DEFINE m == WindowSize - Space + 1
             base == [ring |-> r, rows |-> nialm]
             fn == CHOOSE fn : fn = [j \in 0 .. m |->
                                       IF j = 0 THEN base
                                       ELSE Scan(fn[j - 1], s, WindowSize + 1 - j, rc)]
  <1>1. Detect(r, s, rc) = fn[m]
    BY DEF Detect
  <1>2. m \in Nat
    BY Sizes
  <1>3. \E g : Scans(g, m, base, s, rc)
    <2> HIDE DEF m, base
    <2> QED BY <1>2, ScansExist
  <1>4. Scans(fn, m, base, s, rc)
    <2> HIDE DEF m, base
    <2> QED BY <1>3 DEF Scans
  <1> QED BY <1>1, <1>4

\* What is due when a sample has come is what its detection writes.
LEMMA DetectHolds ==
  ASSUME NEW lv, Dwelling(lv), NEW r, NEW c \in Int, Smooth(r, lv, c, Len(nialm)),
         Stored(nialm, lv, c, Space + 1), NEW rc \in {"ok", "error"}
  PROVE  Holds(Detect(r, Place(c), rc), lv, c, Space)
  <1> DEFINE base == [ring |-> r, rows |-> nialm]
             m == WindowSize - Space
             f == Len(nialm)
  <1>1. PICK fn : /\ Scans(fn, m + 1, base, Place(c), rc)
                  /\ Detect(r, Place(c), rc) = fn[m + 1]
    BY DetectScans
  <1>2. /\ m \in Nat /\ WindowSize \in Nat /\ Space \in Nat
        /\ Space <= WindowSize /\ Len(lv) \in Nat /\ f \in Nat
    BY Sizes DEF Dwelling, Stored
  <1>3. /\ Holds(base, lv, c, Space + 1)
        /\ base.rows = nialm /\ base.ring = r
    BY DEF Holds
  <1>4. \A j \in 1 .. Len(lv) - 1 :
          /\ Edge(lv, j) \in Nat
          /\ j <= f <=> Edge(lv, j) - 3 + (Space + 1) <= c
    <2> SUFFICES ASSUME NEW j \in 1 .. Len(lv) - 1
                 PROVE  /\ Edge(lv, j) \in Nat
                        /\ j <= f <=> Edge(lv, j) - 3 + (Space + 1) <= c
      OBVIOUS
    <2>1. j \in 0 .. Len(lv) - 1
      BY <1>2
    <2> QED BY <2>1, EdgeNat DEF Stored
  <1> HIDE DEF base, m, f
  <1>5. \A j \in 0 .. m + 1 :
          fn[j] = IF j = 0 THEN base ELSE Scan(fn[j - 1], Place(c), WindowSize + 1 - j, rc)
    BY <1>1 DEF Scans
  <1>6. \A j \in 0 .. m : fn[j] = base
    <2> DEFINE bad == {j \in 0 .. m : fn[j] # base}
    <2>1. SUFFICES ASSUME bad # {} PROVE FALSE
      OBVIOUS
    <2>2. PICK k \in bad : \A o \in bad : k <= o
      <3>1. bad \subseteq Nat
        OBVIOUS
      <3> HIDE DEF bad
      <3> QED BY <2>1, <3>1, LeastNat
    <2>3. k \in 0 .. m /\ k \in 0 .. m + 1 /\ fn[k] # base
      BY <1>2, <2>2
    <2>4. k # 0
      <3>1. 0 \in 0 .. m + 1
        BY <1>2
      <3> QED BY <1>5, <2>3, <3>1
    <2>5. k - 1 \in 0 .. m /\ k - 1 \notin bad
      <3>1. k - 1 \in 0 .. m
        BY <1>2, <2>3, <2>4
      <3>2. ~(k <= k - 1)
        BY <2>3
      <3> HIDE DEF bad
      <3> QED BY <2>2, <3>1, <3>2
    <2>6. fn[k - 1] = base
      BY <2>5
    <2> DEFINE t == WindowSize + 1 - k
    <2>7. t \in Space .. WindowSize /\ Space + 1 <= t /\ t \in Int
      BY <1>2, <2>3, <2>4 DEF m
    <2>8. fn[k] = Scan(base, Place(c), t, rc)
      BY <1>5, <2>3, <2>4, <2>6
    <2> HIDE DEF t, bad
    <2>9. \A j \in 1 .. Len(lv) - 1 : j > f => Edge(lv, j) - 3 # c - t
      <3> SUFFICES ASSUME NEW j \in 1 .. Len(lv) - 1, j > f, Edge(lv, j) - 3 = c - t
                   PROVE  FALSE
        OBVIOUS
      <3>1. Edge(lv, j) \in Nat /\ ~(Edge(lv, j) - 3 + (Space + 1) <= c)
        BY <1>2, <1>4
      <3> QED BY <1>2, <2>7, <3>1
    <2>10. Scan(base, Place(c), t, rc) = base
      BY <1>3, <2>7, <2>9, ScanQuiet DEF f
    <2> QED BY <2>3, <2>8, <2>10
  <1>7. Detect(r, Place(c), rc) = Scan(base, Place(c), Space, rc)
    <2>1. m \in 0 .. m /\ m + 1 \in 0 .. m + 1 /\ m + 1 # 0 /\ (m + 1) - 1 = m
          /\ WindowSize + 1 - (m + 1) = Space
      BY <1>2 DEF m
    <2> QED BY <1>1, <1>5, <1>6, <2>1
  <1>8. CASE \E j \in 1 .. Len(lv) - 1 : j > f /\ Edge(lv, j) - 3 = c - Space
    <2>1. PICK j \in 1 .. Len(lv) - 1 : j > f /\ Edge(lv, j) - 3 = c - Space
      BY <1>8
    <2>2. j > Len(base.rows)
      BY <1>3, <2>1 DEF f
    <2> QED BY <1>3, <1>7, <2>1, <2>2, ScanFinds
  <1>9. CASE \A j \in 1 .. Len(lv) - 1 : j > f => Edge(lv, j) - 3 # c - Space
    <2>1. Space \in Space .. WindowSize
      BY <1>2
    <2>2. Scan(base, Place(c), Space, rc) = base
      BY <1>3, <1>9, <2>1, ScanQuiet DEF f
    <2>3. \A j \in 1 .. Len(lv) - 1 : j <= f <=> Edge(lv, j) - 3 + Space <= c
      <3> SUFFICES ASSUME NEW j \in 1 .. Len(lv) - 1
                   PROVE  j <= f <=> Edge(lv, j) - 3 + Space <= c
        OBVIOUS
      <3>1. /\ Edge(lv, j) \in Nat
            /\ j <= f <=> Edge(lv, j) - 3 + (Space + 1) <= c
            /\ j > f => Edge(lv, j) - 3 # c - Space
        BY <1>4, <1>9
      <3> QED BY <1>2, <3>1
    <2>4. Stored(nialm, lv, c, Space)
      BY <2>3 DEF Stored, f
    <2> QED BY <1>3, <1>7, <2>2, <2>4 DEF Holds
  <1> QED BY <1>8, <1>9

-----------------------------------------------------------------------------
(* The theorems                                                            *)

LEMMA EdgeInit == EdInit => EdgeInv
  <1> SUFFICES ASSUME EdInit PROVE EdgeInv
    OBVIOUS
  <1>1. PICK v \in Loads : levels = <<[value |-> v, first |-> 1]>>
    BY DEF EdInit
  <1>2. v \in Nat /\ v > 0
    BY LoadAssumption, StepAssumption
  <1>3. /\ Len(levels) = 1 /\ levels[1] = [value |-> v, first |-> 1]
        /\ levels \in Seq([value : Loads, first : Nat])
    BY <1>1
  <1>4. levels[1].first = 1 /\ levels[1].value = v
    BY <1>3
  <1>5. Dwelling(levels)
    BY <1>3, <1>4 DEF Dwelling
  <1>6. count = 0 /\ n = 0 /\ n = Place(count)
    <2>1. 0 % BufferLength = 0
      BY Sizes
    <2> QED BY <2>1 DEF EdInit, Place
  <1>7. Held(count) \subseteq Int /\ \A k \in Held(count) : k <= 0
    BY <1>6, Sizes DEF Held
  <1>8. \A k \in Held(count) : Place(k) \in EdgeSlot
    BY <1>7, PlaceIn
  <1>9. ASSUME NEW k \in Held(count), NEW j \in 0 .. Len(levels), NEW d \in Nat,
               InLevel(levels, j, k - d)
        PROVE  LoadOf(levels, j) = 0
    <2>1. ASSUME j # 0 PROVE FALSE
      <3>1. j = 1 /\ j > 0
        BY <1>3, <2>1
      <3>2. 1 <= k - d
        BY <1>4, <1>9, <3>1 DEF InLevel
      <3> QED BY <1>7, <3>2
    <2> QED BY <2>1 DEF LoadOf
  <1>10. Curve(x, levels, count)
    <2>1. x = [s \in EdgeSlot |-> 0]
      BY DEF EdInit
    <2>2. ASSUME NEW k \in Held(count), NEW j \in 0 .. Len(levels), InLevel(levels, j, k)
          PROVE  x[Place(k)] = LoadOf(levels, j)
      <3>1. k - 0 = k /\ 0 \in Nat
        BY <1>7
      <3>2. LoadOf(levels, j) = 0
        BY <1>9, <2>2, <3>1
      <3> QED BY <1>8, <2>1, <3>2
    <2> QED BY <2>1, <2>2 DEF Curve
  <1>11. nialm = <<>> /\ Len(nialm) = 0
    BY DEF EdInit
  <1>12. Smooth(y, levels, count, Len(nialm))
    <2> DEFINE P == [epoch : Nat, value : Nat, check : BOOLEAN]
               e == [epoch |-> 0, value |-> 0, check |-> TRUE]
    <2>1. y = [s \in EdgeSlot |-> e]
      BY DEF EdInit
    <2>2. e \in P /\ e.epoch = 0 /\ e.value = 0 /\ e.check
      OBVIOUS
    <2> HIDE DEF e
    <2>3. y \in [EdgeSlot -> P]
      BY <2>1, <2>2
    <2>4. \A k \in Held(count) : y[Place(k)] = e
      BY <1>8, <2>1
    <2>5. ASSUME NEW k \in Held(count)
          PROVE  y[Place(k)].check <=> k <= Half \/ Marked(levels, Len(nialm), k)
      <3>1. k <= Half
        BY <1>7, Sizes
      <3> QED BY <2>2, <2>4, <3>1
    <2>6. \A k \in Held(count) : k >= 0 => y[Place(k)].epoch = k
      BY <1>7, <2>2, <2>4
    <2>7. \A k \in Held(count), j \in 0 .. Len(levels) :
            InLevel(levels, j, k - Half) => y[Place(k)].value = LoadOf(levels, j)
      BY <1>9, <2>2, <2>4, Sizes
    <2> QED BY <2>3, <2>5, <2>6, <2>7 DEF Smooth
  <1>13. Stored(nialm, levels, count, Space)
    BY <1>3, <1>11 DEF Stored
  <1>14. count \in Nat /\ levels[Len(levels)].first <= count + 1
    BY <1>3, <1>4, <1>6
  <1> QED BY <1>5, <1>6, <1>10, <1>12, <1>13, <1>14 DEF EdgeInv

\* A live value keeps the rings, the marks and the rows true to the loads.
LEMMA LiveWriteKeeps ==
  ASSUME EdgeInv, Dwelling(levels'), Grows(levels, levels', count),
         LiveWrite(levels'[Len(levels')].value)
  PROVE  EdgeInv'
  <1> DEFINE more == levels'
             v == more[Len(more)].value
             c == count + 1
             s == NextSlot(n)
             xs == [x EXCEPT ![s] = v]
             ys == [y EXCEPT ![s] = Filtered(@, count + 1, Median(xs, s))]
  <1>1. /\ count \in Nat /\ n = Place(count) /\ Dwelling(levels)
        /\ Curve(x, levels, count) /\ Smooth(y, levels, count, Len(nialm))
        /\ Stored(nialm, levels, count, Space)
    BY DEF EdgeInv
  <1>0. PICK rc \in {"ok", "error"} :
          y' = Detect(ys, s, rc).ring /\ nialm' = Detect(ys, s, rc).rows
    BY DEF LiveWrite
  <1> DEFINE found == Detect(ys, s, rc)
  <1>2. /\ n' = s /\ count' = c /\ x' = xs /\ y' = found.ring /\ nialm' = found.rows
    BY <1>0 DEF LiveWrite
  <1>3. s = Place(c) /\ c \in Nat /\ c \in Int /\ c - Half \in Int
    BY <1>1, PlaceNext, Sizes
  <1> HIDE DEF more, s
  <1>4. Dwelling(more) /\ Grows(levels, more, count)
    BY DEF more
  <1>5. Curve(xs, more, c)
    <2>1. count \in Int
      BY <1>1
    <2> QED BY <1>1, <1>3, <1>4, <2>1, CurveNext
  <1>6. PICK l \in 0 .. Len(more) : InLevel(more, l, c - Half)
    BY <1>3, <1>4, LevelIs
  <1>7. Median(xs, s) = LoadOf(more, l)
    <2> HIDE DEF xs, c
    <2> QED BY <1>3, <1>4, <1>5, <1>6, MedianIs
  <1>8. Smooth(ys, more, c, Len(nialm))
    <2> DEFINE f == Len(nialm)
    <2>1. f \in Nat /\ f < Len(levels) /\ Len(levels) \in Nat
      BY <1>1 DEF Stored, Dwelling
    <2>2. \A j \in 1 .. f : Edge(levels, j) - 3 + Space <= count
      BY <1>1, <2>1 DEF Stored
    <2> HIDE DEF f, xs
    <2>3. Smooth([y EXCEPT ![Place(count + 1)] = Filtered(@, count + 1, LoadOf(more, l))],
                 more, count + 1, f)
      BY <1>1, <1>4, <1>6, <2>1, <2>2, SmoothNext DEF f
    <2> QED BY <1>3, <1>7, <2>3 DEF f
  <1>9. Stored(nialm, more, c, Space + 1)
    BY <1>1, <1>4, StoredNext
  <1>10. Holds(found, more, c, Space)
    <2> HIDE DEF c, ys
    <2> QED BY <1>3, <1>4, <1>8, <1>9, DetectHolds
  <1>11. more[Len(more)].first <= c + 1
    <2>1. Len(more) \in 1 .. Len(more)
      BY <1>4 DEF Dwelling
    <2>2. more[Len(more)].first \in Nat /\ more[Len(more)].first <= count + 1
      BY <1>4, <2>1, LevelShape DEF Grows
    <2> QED BY <1>1, <2>2
  <1> HIDE DEF found, xs, c
  <1>12. Curve(x', more, count') /\ Smooth(y', more, count', Len(nialm'))
         /\ Stored(nialm', more, count', Space)
    BY <1>2, <1>5, <1>10 DEF Holds
  <1> QED BY <1>2, <1>3, <1>4, <1>11, <1>12 DEF EdgeInv, more

LEMMA EdgeStep == EdgeInv /\ [EdNext]_edVars => EdgeInv'
  <1> SUFFICES ASSUME EdgeInv, [EdNext]_edVars PROVE EdgeInv'
    OBVIOUS
  <1>1. /\ count \in Nat /\ Dwelling(levels) /\ levels[Len(levels)].first <= count + 1
        /\ Len(levels) \in Nat /\ Len(levels) >= 1
        /\ levels \in Seq([value : Loads, first : Nat])
    BY DEF EdgeInv, Dwelling
  <1>2. CASE Stay
    <2>1. levels' = levels /\ LiveWrite(levels[Len(levels)].value)
      BY <1>2 DEF Stay, Level
    <2>2. Grows(levels, levels', count)
      BY <1>1, <2>1 DEF Grows
    <2>3. Dwelling(levels')
      BY <1>1, <2>1
    <2>4. LiveWrite(levels'[Len(levels')].value)
      BY <2>1
    <2> QED BY <2>2, <2>3, <2>4, LiveWriteKeeps
  <1>3. CASE Step
    <2> DEFINE size == Len(levels)
               last == levels[size]
    <2>1. PICK v \in Loads \ {last.value} :
            LiveWrite(v) /\ levels' = Append(levels, [value |-> v, first |-> count + 1])
      BY <1>3 DEF Step, Level
    <2>2. count + 1 - last.first >= MinDwell
      BY <1>3 DEF Step, Level
    <2> DEFINE more == Append(levels, [value |-> v, first |-> count + 1])
               new == [value |-> v, first |-> count + 1]
    <2>3. new \in [value : Loads, first : Nat] /\ new.first = count + 1 /\ new.value = v
      BY <1>1, <2>1
    <2>4. /\ more \in Seq([value : Loads, first : Nat]) /\ Len(more) = size + 1
          /\ more[size + 1] = new /\ \A j \in 1 .. size : more[j] = levels[j]
      <3> HIDE DEF new
      <3> QED BY <1>1, <2>3 DEF new
    <2> HIDE DEF more, new
    <2>5. last.first \in Nat /\ last.first + MinDwell <= count + 1
      <3>1. size \in 1 .. Len(levels)
        BY <1>1
      <3>2. last.first \in Nat
        BY <1>1, <3>1, LevelShape
      <3> QED BY <1>1, <2>2, <3>2, Sizes
    <2>6. ASSUME NEW h \in 1 .. size
          PROVE  levels[h].first \in Nat /\ levels[h].first + MinDwell <= count + 1
      <3>1. levels[h].first \in Nat
        BY <1>1, LevelShape
      <3>2. CASE h = size
        BY <2>5, <3>2
      <3>3. CASE h < size
        <4>1. levels[h].first + MinDwell <= last.first
          <5>1. size \in 1 .. Len(levels)
            BY <1>1
          <5> QED BY <1>1, <3>3, <5>1 DEF Dwelling
        <4> QED BY <1>1, <2>5, <3>1, <4>1, Sizes
      <3> QED BY <1>1, <3>1, <3>2, <3>3
    <2>7. Dwelling(more)
      <3>1. more[1].first = 1
        <4>1. 1 \in 1 .. size
          BY <1>1
        <4> QED BY <1>1, <2>4, <4>1 DEF Dwelling
      <3>2. ASSUME NEW h \in 1 .. Len(more), NEW j \in 1 .. Len(more), h < j
            PROVE  more[h].first + MinDwell <= more[j].first
        <4>1. h \in 1 .. size
          BY <1>1, <2>4, <3>2
        <4>2. CASE j = size + 1
          BY <2>3, <2>4, <2>6, <4>1, <4>2
        <4>3. CASE j \in 1 .. size
          <5>1. levels[h].first + MinDwell <= levels[j].first
            BY <1>1, <3>2, <4>1, <4>3 DEF Dwelling
          <5> QED BY <2>4, <4>1, <4>3, <5>1
        <4> QED BY <1>1, <2>4, <4>2, <4>3
      <3>3. ASSUME NEW j \in 1 .. Len(more) - 1
            PROVE  more[j].value # more[j + 1].value
        <4>1. j \in 1 .. size
          BY <1>1, <2>4
        <4>2. CASE j = size
          BY <2>1, <2>3, <2>4, <4>1, <4>2
        <4>3. CASE j # size
          <5>1. j \in 1 .. Len(levels) - 1 /\ j + 1 \in 1 .. size
            BY <1>1, <4>1, <4>3
          <5> QED BY <1>1, <2>4, <4>1, <5>1 DEF Dwelling
        <4> QED BY <4>2, <4>3
      <3>4. Len(more) >= 1
        BY <1>1, <2>4
      <3> QED BY <2>4, <3>1, <3>2, <3>3, <3>4 DEF Dwelling
    <2>8. Grows(levels, more, count)
      <3>1. \A j \in size + 1 .. Len(more) : more[j] = new
        BY <1>1, <2>4
      <3>2. count < new.first /\ new.first <= count + 1
        BY <1>1, <2>3
      <3>3. Len(levels) <= Len(more)
        BY <1>1, <2>4
      <3> QED BY <2>4, <3>1, <3>2, <3>3 DEF Grows
    <2>9. levels' = more /\ LiveWrite(levels'[Len(levels')].value)
      <3>1. levels' = more
        BY <2>1 DEF more
      <3>2. levels'[Len(levels')].value = v
        BY <2>3, <2>4, <3>1
      <3> QED BY <2>1, <3>1, <3>2
    <2>10. Dwelling(levels') /\ Grows(levels, levels', count)
      BY <2>7, <2>8, <2>9
    <2> QED BY <2>9, <2>10, LiveWriteKeeps
  <1>4. CASE Done \/ UNCHANGED edVars
    <2>1. /\ x' = x /\ y' = y /\ n' = n /\ count' = count /\ nialm' = nialm
          /\ levels' = levels
      BY <1>4 DEF Done, edVars
    <2> QED BY <2>1 DEF EdgeInv
  <1> QED BY <1>2, <1>3, <1>4 DEF EdNext

THEOREM EdgeInvariant == EdSpec => []EdgeInv
  <1>1. EdInit => EdgeInv
    BY EdgeInit
  <1>2. EdgeInv /\ [EdNext]_edVars => EdgeInv'
    BY EdgeStep
  <1> QED BY <1>1, <1>2, PTL DEF EdSpec

\* Every step of the load is handed to nialm_db_write, once and in its order, as
\* soon as the window's near end has passed it, whatever INSERTs fail: for any
\* loads that last and differ.
THEOREM StepsFound == EdSpec => []StepsOnce
  <1>1. EdgeInv => StepsOnce
    <2> SUFFICES ASSUME EdgeInv PROVE StepsOnce
      OBVIOUS
    <2> DEFINE f == Len(nialm)
               ripe == {j \in 2 .. Len(levels) : levels[j].first + Delay <= count}
    <2>1. /\ Dwelling(levels) /\ Stored(nialm, levels, count, Space)
          /\ Len(levels) \in Nat /\ f \in Nat /\ f < Len(levels) /\ count \in Nat
      <3>1. Dwelling(levels) /\ Stored(nialm, levels, count, Space) /\ count \in Nat
        BY DEF EdgeInv
      <3> QED BY <3>1 DEF Dwelling, Stored
    <2>2. Delay = Half + Space - 3 /\ Half \in Nat /\ Space \in Nat
      BY Sizes DEF Delay, Half
    <2>3. ASSUME NEW j \in 2 .. Len(levels)
          PROVE  levels[j].first + Delay <= count <=> j <= f + 1
      <3>1. j - 1 \in 1 .. Len(levels) - 1 /\ j \in 1 .. Len(levels) /\ (j - 1) + 1 = j
        BY <2>1
      <3>2. levels[j].first \in Nat
        BY <2>1, <3>1, LevelShape
      <3>3. j - 1 <= f <=> Edge(levels, j - 1) - 3 + Space <= count
        BY <2>1, <3>1 DEF Stored
      <3>4. Edge(levels, j - 1) = levels[j].first + Half
        BY <3>1 DEF Edge
      <3> DEFINE e == levels[j].first
      <3>5. e \in Nat /\ (j - 1 <= f <=> (e + Half) - 3 + Space <= count)
        BY <3>2, <3>3, <3>4
      <3> HIDE DEF e, f
      <3>6. e + Delay <= count <=> j <= f + 1
        BY <2>1, <2>2, <3>5
      <3> QED BY <3>6 DEF e
    <2>4. ripe = 2 .. f + 1
      <3> HIDE DEF f
      <3> QED BY <2>1, <2>3
    <2>5. Cardinality(ripe) = f
      <3>1. Cardinality(2 .. f + 1) = IF 2 > f + 1 THEN 0 ELSE (f + 1) - 2 + 1
        <4>1. f + 1 \in Int
          BY <2>1
        <4> HIDE DEF f, ripe
        <4> QED BY <4>1, FS_Interval
      <3> HIDE DEF f, ripe
      <3> QED BY <2>1, <2>4, <3>1
    <2>6. ASSUME NEW j \in 1 .. f
          PROVE  /\ nialm[j].row.power = levels[j].value
                 /\ nialm[j].row.dP = levels[j + 1].value - levels[j].value
      <3>1. nialm[j].row = [epoch |-> Edge(levels, j) - 3, power |-> levels[j].value,
                            dP |-> levels[j + 1].value - levels[j].value]
        BY <2>1 DEF Stored
      <3> QED BY <3>1
    <2> QED BY <2>5, <2>6 DEF StepsOnce
  <1>2. EdSpec => []EdgeInv
    BY EdgeInvariant
  <1> QED BY <1>1, <1>2, PTL

\* The epoch of a row is that of a sample within half a filter of the step.
THEOREM EpochsNear == EdSpec => []EpochNear
  <1>1. EdgeInv => EpochNear
    <2> SUFFICES ASSUME EdgeInv, NEW j \in 1 .. Len(nialm)
                 PROVE  nialm[j].row.epoch - levels[j + 1].first \in 0 .. FilterLength \div 2
      BY DEF EpochNear
    <2>1. /\ Dwelling(levels) /\ Stored(nialm, levels, count, Space)
          /\ Len(levels) \in Nat /\ Len(nialm) \in Nat /\ Len(nialm) < Len(levels)
      <3>1. Dwelling(levels) /\ Stored(nialm, levels, count, Space)
        BY DEF EdgeInv
      <3>2. Len(levels) \in Nat
        BY <3>1 DEF Dwelling
      <3>3. nialm \in Seq(Calls) /\ Len(nialm) < Len(levels)
        BY <3>1 DEF Stored
      <3> QED BY <3>1, <3>2, <3>3
    <2>2. j + 1 \in 1 .. Len(levels)
      BY <2>1
    <2> DEFINE e == levels[j + 1].first
    <2>3. e \in Nat
      BY <2>1, <2>2, LevelShape
    <2>4. nialm[j].row.epoch = Edge(levels, j) - 3
      <3>1. nialm[j].row = [epoch |-> Edge(levels, j) - 3, power |-> levels[j].value,
                            dP |-> levels[j + 1].value - levels[j].value]
        BY <2>1 DEF Stored
      <3> QED BY <3>1
    <2>5. Edge(levels, j) = e + Half
      BY DEF Edge
    <2> HIDE DEF e
    <2>6. nialm[j].row.epoch - e = Half - 3 /\ Half - 3 \in 0 .. Half
      BY <2>3, <2>4, <2>5, Sizes
    <2>7. FilterLength \div 2 = Half
      BY Sizes
    <2> QED BY <2>6, <2>7 DEF e
  <1>2. EdSpec => []EdgeInv
    BY EdgeInvariant
  <1> QED BY <1>1, <1>2, PTL

-----------------------------------------------------------------------------
(* Energy: the invariants                                                  *)


Loop ==
  /\ step \in Nat
  /\ en \in {"devices", "clusters", "series", "pair"}
  /\ en # "pair" => pairs = {}
  /\ pairs \subseteq Steps \X Steps

\* a pair's ends and what is between them is used up for its device
Filled ==
  \A p \in pairs :
    /\ p[1] \in used /\ p[2] \in used
    /\ \A j \in Steps : p[1] < j /\ j < p[2] /\ Device(j) = Device(p[1]) => j \in used

PairInv == Loop /\ Filled /\ NestedPairs /\ CountedOnce

\* the devices that the mapping names are there, the one being deleted too
Tables ==
  /\ deviceRows \in Nat /\ cut \in Int
  /\ cut = Unmapped => mapping \in [Clusters -> Ids(deviceRows)]
  /\ cut # Unmapped => cut = deviceRows /\ mapping \in [Clusters -> Ids(deviceRows + 1)]

Copies ==
  /\ torn \in BOOLEAN /\ devicesRead \in Nat
  /\ en = "clusters" /\ ~torn => cut = Unmapped /\ devicesRead = deviceRows
  /\ en \in {"series", "pair"} /\ ~torn => deviceId \in [Clusters -> Ids(devicesRead)]
  /\ en = "pair" => series \in [Steps -> Clusters]

TableInv == Loop /\ Tables /\ Copies

-----------------------------------------------------------------------------
(* The pairs                                                               *)

LEMMA PairsInit == EnInit => PairInv
  BY DEF EnInit, PairInv, Loop, Filled, NestedPairs, CountedOnce

\* a new pair lies clear of the old ones
LEMMA NewPair ==
  ASSUME PairInv, NEW b \in Steps, Pair(b)
  PROVE  PairInv'
  <1>1. /\ step \in Steps /\ step \in Nat /\ step < b
        /\ rising[step] /\ Unused(step) /\ Stops(step, b)
        /\ \A j \in step + 1 .. b - 1 : ~Stops(step, j)
        /\ pairs' = pairs \union {<<step, b>>} /\ used' = used \union {step, b}
        /\ en = "pair" /\ en' = en
        /\ series' = series /\ deviceId' = deviceId
    BY StepsAssumption DEF Pair, Pairs, First, Stops, InTime, PairInv, Loop, Steps, data, read
  <1>2. /\ step \notin used /\ b \notin used /\ Device(b) = Device(step)
    BY <1>1 DEF Unused, Stops
  <1>3. \A j \in Steps : Device(j)' = Device(j)
    BY <1>1 DEF Device
  <1>4. ASSUME NEW j \in Steps, step < j, j < b, Device(j) = Device(step)
        PROVE  j \in used
    <2>1. j \in step + 1 .. b - 1
      BY <1>1, <1>4 DEF Steps
    <2>2. InTime(step, j)
      <3>1. \A k \in step + 1 .. b : epoch[k] - epoch[step] < 2 * Period[series[step]]
        BY <1>1 DEF Stops, InTime
      <3>2. \A k \in step + 1 .. j : k \in step + 1 .. b
        BY <1>1, <2>1
      <3> QED BY <1>4, <3>1, <3>2 DEF InTime
    <2> QED BY <1>1, <1>4, <2>1, <2>2 DEF Stops, Unused
  <1>5. \A p \in pairs : p[1] \in Steps /\ p[2] \in Steps
    BY DEF PairInv, Loop
  <1>6. Loop'
    BY <1>1 DEF PairInv, Loop, Steps, Pair, Advance
  <1>7. Filled'
    <2> SUFFICES ASSUME NEW p \in pairs'
                 PROVE  /\ p[1] \in used' /\ p[2] \in used'
                        /\ \A j \in Steps : p[1] < j /\ j < p[2] /\ Device(j)' = Device(p[1])' => j \in used'
      BY DEF Filled
    <2>1. CASE p \in pairs
      BY <2>1, <1>1, <1>3, <1>5 DEF PairInv, Filled
    <2>2. CASE p = <<step, b>>
      BY <2>2, <1>1, <1>3, <1>4
    <2> QED BY <2>1, <2>2, <1>1
  <1>8. ASSUME NEW p \in pairs, Device(p[1]) = Device(step)
        PROVE  /\ ~(p[1] < step /\ step < p[2] /\ p[2] < b)
               /\ ~(step < p[1] /\ p[1] < b /\ b < p[2])
    <2>1. ~(p[1] < step /\ step < p[2])
      BY <1>1, <1>2, <1>8 DEF PairInv, Filled
    <2>2. ~(p[1] < b /\ b < p[2])
      BY <1>1, <1>2, <1>8 DEF PairInv, Filled
    <2> QED BY <2>1, <2>2
  <1>9. NestedPairs'
    <2> SUFFICES ASSUME NEW p \in pairs', NEW q \in pairs', Device(p[1])' = Device(q[1])'
                 PROVE  ~(p[1] < q[1] /\ q[1] < p[2] /\ p[2] < q[2])
      BY DEF NestedPairs
    <2>1. p[1] \in Steps /\ q[1] \in Steps /\ Device(p[1]) = Device(q[1])
      <3>1. \A r \in pairs' : r \in pairs \/ r = <<step, b>>
        BY <1>1
      <3>2. \A r \in pairs' : r[1] \in Steps
        BY <3>1, <1>1, <1>5
      <3> QED BY <3>2, <1>3
    <2>2. CASE p \in pairs /\ q \in pairs
      BY <2>1, <2>2 DEF PairInv, NestedPairs
    <2>3. CASE p = <<step, b>> /\ q \in pairs
      BY <2>1, <2>3, <1>8
    <2>4. CASE p \in pairs /\ q = <<step, b>>
      BY <2>1, <2>4, <1>8
    <2>5. CASE p = <<step, b>> /\ q = <<step, b>>
      BY <2>5, <1>1
    <2> QED BY <2>2, <2>3, <2>4, <2>5, <1>1
  <1>10. CountedOnce'
    <2> SUFFICES ASSUME NEW p \in pairs', NEW q \in pairs',
                        {p[1], p[2]} \intersect {q[1], q[2]} # {}
                 PROVE  p = q
      BY DEF CountedOnce
    <2>1. CASE p \in pairs /\ q \in pairs
      BY <2>1 DEF PairInv, CountedOnce
    <2>2. CASE p = <<step, b>> /\ q \in pairs
      BY <2>2, <1>2 DEF PairInv, Filled
    <2>3. CASE p \in pairs /\ q = <<step, b>>
      BY <2>3, <1>2 DEF PairInv, Filled
    <2> QED BY <2>1, <2>2, <2>3, <1>1
  <1> QED BY <1>6, <1>7, <1>9, <1>10 DEF PairInv

LEMMA PairsNext == PairInv /\ [EnNext]_enVars => PairInv'
  <1> SUFFICES ASSUME PairInv, [EnNext]_enVars PROVE PairInv'
    OBVIOUS
  <1>1. ASSUME UNCHANGED matching, UNCHANGED <<series, deviceId>>, en' = en
        PROVE  PairInv'
    BY <1>1 DEF PairInv, Loop, Filled, NestedPairs, CountedOnce, Device, matching
  <1>2. ASSUME pairs = {}, UNCHANGED <<pairs, step>>,
               en' \in {"devices", "clusters", "series", "pair"}
        PROVE  PairInv'
    BY <1>2 DEF PairInv, Loop, Filled, NestedPairs, CountedOnce
  <1>3. CASE UNCHANGED enVars
    BY <1>1, <1>3 DEF enVars, data, read
  <1>4. CASE AddDevice \/ DeleteDevice \/ Unmap \/ \E k \in Clusters, d \in Ids(deviceRows) : Assign(k, d)
    BY <1>1, <1>4 DEF AddDevice, DeleteDevice, Unmap, Assign, Edit, data, read
  <1>5. CASE ReadDevices \/ ReadClusters \/ Classify
    BY <1>2, <1>5 DEF ReadDevices, ReadClusters, Classify, PairInv, Loop, matching
  <1>6. ASSUME NEW b \in Steps, Pair(b) PROVE PairInv'
    BY <1>6, NewPair
  <1>7. CASE NoPair
    <2>1. /\ UNCHANGED <<pairs, used, series, deviceId, en>> /\ step' \in Nat
      BY <1>7 DEF NoPair, Advance, PairInv, Loop, data, read
    <2> QED BY <2>1 DEF PairInv, Loop, Filled, NestedPairs, CountedOnce, Device
  <1> QED BY <1>3, <1>4, <1>5, <1>6, <1>7 DEF EnNext

LEMMA PairsInvariant == EnSpec => []PairInv
  <1> QED BY PairsInit, PairsNext, PTL DEF EnSpec

\* Three rounds over the steps never find a pair that crosses another one of
\* its device.
THEOREM PairsNested == EnSpec => []NestedPairs
  <1>1. PairInv => NestedPairs
    BY DEF PairInv
  <1> QED BY <1>1, PairsInvariant, PTL

\* No step is in two pairs.
THEOREM StepsCountedOnce == EnSpec => []CountedOnce
  <1>1. PairInv => CountedOnce
    BY DEF PairInv
  <1> QED BY <1>1, PairsInvariant, PTL

-----------------------------------------------------------------------------
(* The tables                                                              *)

LEMMA TablesInit == EnInit => TableInv
  <1> SUFFICES ASSUME EnInit PROVE TableInv
    OBVIOUS
  <1>1. Loop
    BY DEF EnInit, Loop
  <1>2. Tables
    BY ClustersAssumption DEF EnInit, Tables, Unmapped
  <1>3. torn = FALSE /\ en = "devices" /\ devicesRead = 0
    BY DEF EnInit
  <1>4. Copies
    BY <1>3 DEF Copies
  <1> QED BY <1>1, <1>2, <1>4 DEF TableInv

LEMMA IdsGrow ==
  ASSUME NEW k \in Nat, NEW d \in Ids(k)
  PROVE  d \in Ids(k + 1)
  BY DEF Ids, Unmapped

\* a device that is not the one deleted is still there
LEMMA IdsShrink ==
  ASSUME NEW k \in Nat, NEW d \in Ids(k + 1), d # k
  PROVE  d \in Ids(k)
  BY DEF Ids, Unmapped

LEMMA TablesNext == TableInv /\ [EnNext]_enVars => TableInv'
  <1> SUFFICES ASSUME TableInv, [EnNext]_enVars PROVE TableInv'
    OBVIOUS
  <1>0. deviceRows \in Nat /\ cut \in Int /\ devicesRead \in Nat /\ torn \in BOOLEAN
    BY DEF TableInv, Tables, Copies
  <1>1. CASE UNCHANGED enVars
    BY <1>1 DEF enVars, tables, data, read, matching, TableInv, Loop, Tables, Copies
  <1>2. CASE AddDevice
    <2>1. cut = Unmapped /\ cut' = Unmapped /\ deviceRows' = deviceRows + 1 /\ mapping' = mapping
      BY <1>2 DEF AddDevice, Edit
    <2>2. Tables'
      <3>1. mapping \in [Clusters -> Ids(deviceRows + 1)]
        BY <2>1, <1>0, IdsGrow DEF TableInv, Tables
      <3> QED BY <2>1, <3>1, <1>0 DEF Tables, TableInv
    <2> QED BY <1>2, <2>1, <2>2 DEF AddDevice, Edit, TableInv, Loop, Copies, data, matching
  <1>3. ASSUME NEW k \in Clusters, NEW d \in Ids(deviceRows), Assign(k, d) PROVE TableInv'
    <2>1. cut = Unmapped /\ cut' = cut /\ deviceRows' = deviceRows
          /\ mapping' = [mapping EXCEPT ![k] = d]
      BY <1>3 DEF Assign, Edit
    <2>2. Tables'
      BY <2>1, <1>0 DEF TableInv, Tables
    <2> QED BY <1>3, <2>1, <2>2 DEF Assign, Edit, TableInv, Loop, Copies, data, matching
  <1>4. CASE DeleteDevice
    <2>1. cut = Unmapped /\ deviceRows >= 3 /\ deviceRows' = deviceRows - 1
          /\ cut' = deviceRows - 1 /\ mapping' = mapping
      BY <1>4 DEF DeleteDevice, Edit
    <2>2. Tables'
      BY <2>1, <1>0 DEF TableInv, Tables, Unmapped
    <2> QED BY <1>4, <2>1, <2>2 DEF DeleteDevice, Edit, TableInv, Loop, Copies, data, matching
  <1>5. CASE Unmap
    <2>1. cut # Unmapped /\ cut' = Unmapped /\ deviceRows' = deviceRows
          /\ mapping' = [k \in Clusters |-> IF mapping[k] = cut THEN Unmapped ELSE mapping[k]]
      BY <1>5 DEF Unmap
    <2>2. cut = deviceRows /\ mapping \in [Clusters -> Ids(deviceRows + 1)]
      BY <2>1 DEF TableInv, Tables
    <2>3. \A k \in Clusters : mapping[k] # cut => mapping[k] \in Ids(deviceRows)
      BY <2>2, <1>0, IdsShrink
    <2>4. Unmapped \in Ids(deviceRows)
      BY <1>0 DEF Ids, Unmapped
    <2>5. mapping' \in [Clusters -> Ids(deviceRows)]
      BY <2>1, <2>3, <2>4
    <2>6. Tables'
      BY <2>1, <2>5, <1>0 DEF Tables, Unmapped
    <2> QED BY <1>5, <2>1, <2>6 DEF Unmap, TableInv, Loop, Copies, data, read, matching
  <1>6. CASE ReadDevices
    <2>1. Tables'
      BY <1>6 DEF ReadDevices, tables, TableInv, Tables
    <2> QED BY <1>6, <2>1, <1>0 DEF ReadDevices, tables, data, matching, TableInv, Loop, Copies
  <1>7. CASE ReadClusters
    <2>1. Tables'
      BY <1>7 DEF ReadClusters, tables, TableInv, Tables
    <2>2. ~torn => deviceId' \in [Clusters -> Ids(devicesRead)]
      BY <1>7 DEF ReadClusters, TableInv, Tables, Copies
    <2> QED BY <1>7, <2>1, <2>2, <1>0 DEF ReadClusters, tables, data, matching, TableInv, Loop, Copies
  <1>8. CASE Classify
    <2>1. Tables'
      BY <1>8 DEF Classify, tables, TableInv, Tables
    <2>2. series' \in [Steps -> Clusters]
      BY <1>8 DEF Classify
    <2> QED BY <1>8, <2>1, <2>2, <1>0 DEF Classify, tables, read, matching, TableInv, Loop, Copies
  <1>9. ASSUME NEW b \in Steps, Pair(b) PROVE TableInv'
    <2>1. Loop'
      BY <1>9, StepsAssumption DEF Pair, Pairs, Advance, TableInv, Loop, Steps
    <2> QED BY <1>9, <2>1 DEF Pair, tables, data, read, TableInv, Tables, Copies
  <1>10. CASE NoPair
    <2>1. Loop'
      BY <1>10 DEF NoPair, Advance, TableInv, Loop
    <2> QED BY <1>10, <2>1 DEF NoPair, tables, data, read, TableInv, Tables, Copies
  <1> QED BY <1>1, <1>2, <1>3, <1>4, <1>5, <1>6, <1>7, <1>8, <1>9, <1>10 DEF EnNext

LEMMA TablesInvariant == EnSpec => []TableInv
  <1> QED BY TablesInit, TablesNext, PTL DEF EnSpec

\* Without a request between its two reads calcEnergy indexes devices[] with
\* the number of a device, or with -1.
THEOREM EnergyInRange == EnSpec => []InRange
  <1>1. TableInv => InRange
    <2> SUFFICES ASSUME TableInv, ~torn, NEW p \in pairs
                 PROVE  Device(p[1]) \in Ids(devicesRead)
      BY DEF InRange
    <2>1. en = "pair" /\ p[1] \in Steps
      BY DEF TableInv, Loop
    <2> QED BY <2>1 DEF TableInv, Copies, Device
  <1> QED BY <1>1, TablesInvariant, PTL

=============================================================================
