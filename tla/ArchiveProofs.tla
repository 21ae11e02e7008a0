---------------------------- MODULE ArchiveProofs ----------------------------
(***************************************************************************)
(* Proofs about Archive, for all dates, tables and resolutions.            *)
(*                                                                         *)
(* The first part is about FlattenSeq: what appending a piece to the       *)
(* pieces adds, that cutting a sequence in pieces loses nothing, and what  *)
(* follows what in the pieces joined. Its inductions take the least        *)
(* counterexample.                                                         *)
(***************************************************************************)
EXTENDS Archive, SequenceTheorems, WellFoundedInduction, TLAPS

LEMMA LeastNat ==
  ASSUME NEW S, S \subseteq Nat, S # {}
  PROVE  \E m \in S : \A o \in S : m <= o
  <1>1. PICK m \in S : \A o \in S : ~(<<o, m>> \in OpToRel(<, Nat))
    BY NatLessThanWellFounded, WFMin
  <1>2. \A o \in S : m <= o
    <2> SUFFICES ASSUME NEW o \in S, o < m PROVE FALSE
      OBVIOUS
    <2>1. <<o, m>> \in Nat \X Nat /\ <<o, m>>[1] < <<o, m>>[2]
      OBVIOUS
    <2>2. <<o, m>> \in OpToRel(<, Nat)
      BY <2>1, Zenon DEF OpToRel
    <2> QED BY <1>1, <2>2
  <1> QED BY <1>2

-----------------------------------------------------------------------------
(* FlattenSeq                                                              *)

\* f joins the first n pieces of s.
Joins(f, s, n) ==
  /\ DOMAIN f = 1 .. n
  /\ \A k \in 1 .. n : f[k] = IF k = 1 THEN s[k] ELSE f[k - 1] \o s[k]

LEMMA FlattenExists ==
  ASSUME NEW s, NEW n \in Nat
  PROVE  \E f : f = [k \in 1 .. n |-> IF k = 1 THEN s[k] ELSE f[k - 1] \o s[k]]
  <1> DEFINE Is(f, m) == f = [k \in 1 .. m |-> IF k = 1 THEN s[k] ELSE f[k - 1] \o s[k]]
             bad == {m \in Nat : ~\E f : Is(f, m)}
  <1>1. SUFFICES ASSUME bad # {} PROVE FALSE
    OBVIOUS
  <1>2. PICK m \in bad : \A o \in bad : m <= o
    BY <1>1, LeastNat
  <1>3. CASE m = 0
    <2> DEFINE f == [k \in 1 .. 0 |-> s[1]]
    <2>1. Is(f, 0)
      OBVIOUS
    <2> QED BY <1>2, <1>3, <2>1
  <1>4. CASE m > 0
    <2>1. m - 1 \in Nat /\ m - 1 \notin bad
      <3>1. m \in Nat /\ \A o \in bad : m <= o
        BY <1>2
      <3> HIDE DEF bad
      <3> QED BY <1>4, <3>1
    <2>2. PICK f : Is(f, m - 1)
      BY <2>1
    <2> DEFINE g == [k \in 1 .. m |-> IF k < m THEN f[k] ELSE IF m = 1 THEN s[m] ELSE f[m - 1] \o s[m]]
    <2>3. \A k \in 1 .. m : g[k] = IF k = 1 THEN s[k] ELSE g[k - 1] \o s[k]
      <3> SUFFICES ASSUME NEW k \in 1 .. m
                   PROVE  g[k] = IF k = 1 THEN s[k] ELSE g[k - 1] \o s[k]
        OBVIOUS
      <3>1. CASE k = m
        <4>1. k # 1 => g[k - 1] = f[k - 1]
          BY <3>1
        <4>2. g[k] = IF m = 1 THEN s[m] ELSE f[m - 1] \o s[m]
          BY <3>1
        <4> HIDE DEF g
        <4> QED BY <3>1, <4>1, <4>2
      <3>2. CASE k # m
        <4>1. k \in 1 .. m - 1 /\ g[k] = f[k]
          BY <3>2
        <4>2. k # 1 => g[k - 1] = f[k - 1]
          BY <3>2
        <4>3. f[k] = IF k = 1 THEN s[k] ELSE f[k - 1] \o s[k]
          BY <2>2, <4>1
        <4> HIDE DEF g
        <4> QED BY <4>1, <4>2, <4>3
      <3> QED BY <3>1, <3>2
    <2>4. Is(g, m)
      BY <2>3
    <2> QED BY <1>2, <2>4
  <1> QED BY <1>2, <1>3, <1>4

LEMMA FlattenJoins ==
  ASSUME NEW s, Len(s) \in Nat \ {0}
  PROVE  \E f : Joins(f, s, Len(s)) /\ FlattenSeq(s) = f[Len(s)]
  <1> DEFINE f == CHOOSE f : f = [k \in 1 .. Len(s) |-> IF k = 1 THEN s[k] ELSE f[k - 1] \o s[k]]
  <1>1. FlattenSeq(s) = f[Len(s)]
    BY DEF FlattenSeq
  <1>2. f = [k \in 1 .. Len(s) |-> IF k = 1 THEN s[k] ELSE f[k - 1] \o s[k]]
    BY FlattenExists
  <1>3. Joins(f, s, Len(s))
    BY <1>2 DEF Joins
  <1> QED BY <1>1, <1>3

\* Sequences that agree have the same joins.
LEMMA JoinsAgree ==
  ASSUME NEW f, NEW g, NEW s, NEW t, NEW n \in Nat, NEW p \in Nat, p >= n,
         Joins(f, s, n), Joins(g, t, p), \A k \in 1 .. n : s[k] = t[k]
  PROVE  \A k \in 1 .. n : f[k] = g[k]
  <1> DEFINE bad == {k \in 1 .. n : f[k] # g[k]}
  <1>1. SUFFICES ASSUME bad # {} PROVE FALSE
    OBVIOUS
  <1>2. PICK k \in bad : \A o \in bad : k <= o
    <2>1. bad \subseteq Nat
      OBVIOUS
    <2> HIDE DEF bad
    <2> QED BY <1>1, <2>1, LeastNat
  <1>3. k \in 1 .. n /\ k \in 1 .. p
    BY <1>2
  <1>4. k # 1 => f[k - 1] = g[k - 1]
    <2>1. k # 1 => k - 1 \in 1 .. n /\ k - 1 \notin bad
      <3> HIDE DEF bad
      <3> QED BY <1>2, <1>3
    <2> QED BY <2>1
  <1>5. /\ f[k] = IF k = 1 THEN s[k] ELSE f[k - 1] \o s[k]
        /\ g[k] = IF k = 1 THEN t[k] ELSE g[k - 1] \o t[k]
        /\ s[k] = t[k]
    BY <1>3 DEF Joins
  <1>6. f[k] = g[k]
    BY <1>4, <1>5
  <1> QED BY <1>2, <1>6

LEMMA JoinsType ==
  ASSUME NEW E, NEW s \in Seq(Seq(E)), NEW f, Joins(f, s, Len(s))
  PROVE  \A k \in 1 .. Len(s) : f[k] \in Seq(E)
  <1> DEFINE bad == {k \in 1 .. Len(s) : f[k] \notin Seq(E)}
  <1>1. SUFFICES ASSUME bad # {} PROVE FALSE
    OBVIOUS
  <1>2. PICK k \in bad : \A o \in bad : k <= o
    <2>1. bad \subseteq Nat
      OBVIOUS
    <2> HIDE DEF bad
    <2> QED BY <1>1, <2>1, LeastNat
  <1>3. k \in 1 .. Len(s) /\ s[k] \in Seq(E)
    BY <1>2, ElementOfSeq
  <1>4. k # 1 => f[k - 1] \in Seq(E)
    <2>1. k # 1 => k - 1 \in 1 .. Len(s) /\ k - 1 \notin bad
      <3> HIDE DEF bad
      <3> QED BY <1>2, <1>3
    <2> QED BY <2>1
  <1>5. f[k] = IF k = 1 THEN s[k] ELSE f[k - 1] \o s[k]
    BY <1>3 DEF Joins
  <1>6. f[k] \in Seq(E)
    BY <1>3, <1>4, <1>5, ConcatProperties
  <1> QED BY <1>2, <1>6

\* One more piece goes to the end.
LEMMA FlattenAppend ==
  ASSUME NEW E, NEW s \in Seq(Seq(E)), NEW p \in Seq(E)
  PROVE  /\ FlattenSeq(s) \in Seq(E)
         /\ FlattenSeq(Append(s, p)) = FlattenSeq(s) \o p
  <1> DEFINE t == Append(s, p)
  <1>1. /\ t \in Seq(Seq(E)) /\ Len(t) = Len(s) + 1 /\ Len(s) \in Nat
        /\ \A k \in 1 .. Len(s) : t[k] = s[k]
        /\ t[Len(s) + 1] = p
    BY AppendProperties, LenProperties
  <1> HIDE DEF t
  <1>2. PICK g : Joins(g, t, Len(t)) /\ FlattenSeq(t) = g[Len(t)]
    BY <1>1, FlattenJoins
  <1>3. CASE Len(s) = 0
    <2>1. s = <<>> /\ FlattenSeq(s) = <<>>
      BY <1>3, EmptySeq DEF FlattenSeq
    <2>2. FlattenSeq(t) = p
      BY <1>1, <1>2, <1>3 DEF Joins
    <2> QED BY <2>1, <2>2, ConcatEmptySeq, EmptySeq DEF t
  <1>4. CASE Len(s) # 0
    <2>1. PICK f : Joins(f, s, Len(s)) /\ FlattenSeq(s) = f[Len(s)]
      BY <1>1, <1>4, FlattenJoins
    <2>2. FlattenSeq(s) \in Seq(E)
      BY <1>1, <1>4, <2>1, JoinsType
    <2>3. f[Len(s)] = g[Len(s)]
      <3>1. Len(t) >= Len(s) /\ Len(t) \in Nat /\ Len(s) \in 1 .. Len(s)
        BY <1>1, <1>4
      <3>2. \A k \in 1 .. Len(s) : f[k] = g[k]
        BY <1>1, <1>2, <2>1, <3>1, JoinsAgree
      <3> QED BY <3>1, <3>2
    <2>4. g[Len(t)] = g[Len(s)] \o p
      <3>1. Len(t) \in 1 .. Len(t) /\ Len(t) # 1 /\ Len(t) - 1 = Len(s) /\ t[Len(t)] = p
        BY <1>1, <1>4
      <3>2. g[Len(t)] = g[Len(t) - 1] \o t[Len(t)]
        BY <1>2, <3>1 DEF Joins
      <3> QED BY <3>1, <3>2
    <2> QED BY <1>2, <2>1, <2>2, <2>3, <2>4 DEF t
  <1> QED BY <1>1, <1>3, <1>4

LEMMA AppendInduction ==
  ASSUME NEW X, NEW S, S \subseteq Seq(X), <<>> \in S,
         \A s \in S, e \in X : Append(s, e) \in S
  PROVE  Seq(X) \subseteq S
  <1> DEFINE bad == {Len(s) : s \in Seq(X) \ S}
  <1>1. SUFFICES ASSUME bad # {} PROVE FALSE
    OBVIOUS
  <1>2. PICK n \in bad : \A o \in bad : n <= o
    <2>1. bad \subseteq Nat
      BY LenProperties
    <2> HIDE DEF bad
    <2> QED BY <1>1, <2>1, LeastNat
  <1>3. PICK s \in Seq(X) \ S : Len(s) = n
    BY <1>2
  <1>4. PICK t \in Seq(X), e \in X : s = Append(t, e)
    BY <1>3, SequenceEmptyOrAppend
  <1>5. Len(t) \in Nat /\ n = Len(t) + 1
    BY <1>3, <1>4, AppendProperties, LenProperties
  <1>6. t \in S
    <2>1. Len(t) \notin bad
      <3> HIDE DEF bad
      <3> QED BY <1>2, <1>5
    <2> QED BY <2>1
  <1> QED BY <1>3, <1>4, <1>6

LEMMA FlattenConcat ==
  ASSUME NEW E, NEW s \in Seq(Seq(E)), NEW t \in Seq(Seq(E))
  PROVE  FlattenSeq(s \o t) = FlattenSeq(s) \o FlattenSeq(t)
  <1> DEFINE S == {u \in Seq(Seq(E)) : FlattenSeq(s \o u) = FlattenSeq(s) \o FlattenSeq(u)}
  <1>1. <<>> \in S
    <2>1. FlattenSeq(<<>>) = <<>>
      BY EmptySeq DEF FlattenSeq
    <2>2. FlattenSeq(s) \in Seq(E)
      BY FlattenAppend, EmptySeq
    <2> QED BY <2>1, <2>2, ConcatEmptySeq, EmptySeq
  <1>2. ASSUME NEW u \in S, NEW p \in Seq(E) PROVE Append(u, p) \in S
    <2>1. u \in Seq(Seq(E)) /\ FlattenSeq(s \o u) = FlattenSeq(s) \o FlattenSeq(u)
      OBVIOUS
    <2>2. Append(u, p) \in Seq(Seq(E)) /\ s \o u \in Seq(Seq(E)) /\ <<p>> \in Seq(Seq(E))
      BY <2>1, AppendProperties, ConcatProperties
    <2>3. s \o Append(u, p) = Append(s \o u, p)
      <3> DEFINE X == Seq(E)
      <3>1. s \in Seq(X) /\ u \in Seq(X) /\ s \o u \in Seq(X) /\ <<p>> \in Seq(X) /\ p \in X
        BY <2>1, <2>2
      <3> HIDE DEF X
      <3>2. Append(u, p) = u \o <<p>>
        BY <3>1, AppendIsConcat
      <3>3. Append(s \o u, p) = (s \o u) \o <<p>>
        BY <3>1, AppendIsConcat
      <3>4. (s \o u) \o <<p>> = s \o (u \o <<p>>)
        BY <3>1, ConcatAssociative, SMTT(30)
      <3> QED BY <3>2, <3>3, <3>4
    <2>4. /\ FlattenSeq(Append(s \o u, p)) = FlattenSeq(s \o u) \o p
          /\ FlattenSeq(Append(u, p)) = FlattenSeq(u) \o p
          /\ FlattenSeq(s) \in Seq(E) /\ FlattenSeq(u) \in Seq(E)
      BY <2>1, <2>2, FlattenAppend
    <2>5. (FlattenSeq(s) \o FlattenSeq(u)) \o p = FlattenSeq(s) \o (FlattenSeq(u) \o p)
      <3> DEFINE x == FlattenSeq(s)
                 y == FlattenSeq(u)
      <3>1. x \in Seq(E) /\ y \in Seq(E) /\ p \in Seq(E)
        BY <2>4
      <3> HIDE DEF x, y
      <3>2. (x \o y) \o p = x \o (y \o p)
        BY <3>1, ConcatAssociative, SMTT(30)
      <3> QED BY <3>2 DEF x, y
    <2> QED BY <2>1, <2>2, <2>3, <2>4, <2>5
  <1> HIDE DEF S
  <1>3. Seq(Seq(E)) \subseteq S
    <2>1. S \subseteq Seq(Seq(E))
      BY DEF S
    <2> QED BY <1>1, <1>2, <2>1, AppendInduction
  <1> QED BY <1>3 DEF S

-----------------------------------------------------------------------------
(* The points of a vector                                                  *)

\* vectorPrint: no row of the vector is left out or printed twice.
LEMMA PointsAll ==
  ASSUME NEW E, NEW v \in Seq(E), reso \in Nat \ {0}
  PROVE  /\ Points(v) \in Seq(Seq(E))
         /\ FlattenSeq(Points(v)) = v
         /\ \A k \in DOMAIN Points(v) :
              /\ Points(v)[k] # <<>>
              /\ \A j \in DOMAIN Points(v)[k] : \E i \in DOMAIN v : Points(v)[k][j] = v[i]
  <1> DEFINE size == IF reso < Day THEN reso ELSE Len(v)
             n == (Len(v) + size - 1) \div size
             cut(k) == IF k = n THEN Len(v) ELSE k * size
  <1>1. CASE v = <<>>
    <2>1. Points(v) = <<>>
      BY <1>1 DEF Points
    <2>2. FlattenSeq(<<>>) = <<>>
      BY EmptySeq DEF FlattenSeq
    <2>3. <<>> \in Seq(Seq(E)) /\ DOMAIN <<>> = {}
      BY EmptySeq
    <2> QED BY <1>1, <2>1, <2>2, <2>3
  <1>2. CASE v # <<>>
    <2>1. Len(v) \in Nat \ {0} /\ size \in Nat \ {0}
      BY <1>2, EmptySeq, LenProperties
    <2>2. n \in Nat \ {0} /\ (n - 1) * size < Len(v) /\ Len(v) <= n * size
      <3> HIDE DEF size
      <3> QED BY <2>1
    <2>3. Points(v) = [k \in 1 .. n |-> SubSeq(v, (k - 1) * size + 1, cut(k))]
      BY <1>2 DEF Points
    <2>4. ASSUME NEW k \in 1 .. n
          PROVE  /\ (k - 1) * size \in Nat /\ cut(k) \in Nat
                 /\ (k - 1) * size < cut(k) /\ cut(k) <= Len(v)
                 /\ k > 1 => cut(k - 1) = (k - 1) * size
      <3> HIDE DEF size, n
      <3>1. k * size = (k - 1) * size + size /\ (k - 1) * size \in Nat /\ k * size \in Nat
        BY <2>1, <2>2
      <3>2. CASE k = n
        BY <2>1, <2>2, <3>1, <3>2
      <3>3. CASE k # n
        <4>1. k <= n - 1
          BY <2>2, <3>3
        <4>2. k * size <= (n - 1) * size
          BY <2>1, <2>2, <4>1
        <4>3. (n - 1) * size \in Nat
          BY <2>1, <2>2
        <4> QED BY <2>1, <2>2, <3>1, <3>3, <4>1, <4>2, <4>3
      <3> QED BY <3>2, <3>3
    <2> HIDE DEF size, n, cut
    <2>5. ASSUME NEW k \in 1 .. n
          PROVE  /\ Points(v)[k] = SubSeq(v, (k - 1) * size + 1, cut(k))
                 /\ Points(v)[k] \in Seq(E) /\ Points(v)[k] # <<>>
                 /\ \A j \in DOMAIN Points(v)[k] : \E i \in DOMAIN v : Points(v)[k][j] = v[i]
      <3>1. \A j \in (k - 1) * size + 1 .. cut(k) : v[j] \in E
        BY <2>1, <2>4, LenProperties, ElementOfSeq
      <3>2. Len(SubSeq(v, (k - 1) * size + 1, cut(k))) > 0
        BY <2>4, <3>1, SubSeqProperties
      <3>3. SubSeq(v, (k - 1) * size + 1, cut(k)) \in Seq(E)
        BY <2>4, <3>1, SubSeqProperties
      <3>4. Points(v)[k] = SubSeq(v, (k - 1) * size + 1, cut(k))
        BY <2>3
      <3>5. Len(<<>>) = 0
        BY EmptySeq
      <3>6. SubSeq(v, (k - 1) * size + 1, cut(k)) # <<>>
        <4> DEFINE P == SubSeq(v, (k - 1) * size + 1, cut(k))
        <4> HIDE DEF P
        <4>1. Len(P) # Len(<<>>)
          <5>1. Len(P) > 0
            BY <3>2 DEF P
          <5> QED BY <3>5, <5>1
        <4>2. P # <<>>
          BY <4>1, Zenon
        <4> QED BY <4>2 DEF P
      <3>7. ASSUME NEW j \in DOMAIN Points(v)[k] PROVE \E i \in DOMAIN v : Points(v)[k][j] = v[i]
        <4> DEFINE P == SubSeq(v, (k - 1) * size + 1, cut(k))
                   a == (k - 1) * size + 1
        <4>1. /\ P \in Seq(E) /\ Len(P) = cut(k) - a + 1
              /\ \A o \in 1 .. cut(k) - a + 1 : P[o] = v[a + o - 1]
          BY <2>4, <3>1, SubSeqProperties, SMTT(30)
        <4>2. a \in Nat /\ a >= 1 /\ cut(k) \in Nat /\ cut(k) <= Len(v) /\ DOMAIN v = 1 .. Len(v)
          BY <2>1, <2>4, LenProperties
        <4>3. Points(v)[k] = P
          BY <3>4
        <4> HIDE DEF P, a
        <4>4. j \in 1 .. cut(k) - a + 1
          BY <4>1, <4>3, LenProperties
        <4>5. a + j - 1 \in DOMAIN v
          BY <2>1, <4>2, <4>4
        <4> QED BY <4>1, <4>3, <4>4, <4>5
      <3> QED BY <3>3, <3>4, <3>6, <3>7, Zenon
    <2>6. Points(v) \in Seq(Seq(E)) /\ Len(Points(v)) = n
      <3>1. Points(v) \in [1 .. n -> Seq(E)]
        BY <2>3, <2>5
      <3> QED BY <2>2, <3>1, SeqDef, LenProperties
    <2>7. PICK f : Joins(f, Points(v), n) /\ FlattenSeq(Points(v)) = f[n]
      BY <2>2, <2>6, FlattenJoins
    <2> DEFINE bad == {k \in 1 .. n : f[k] # SubSeq(v, 1, cut(k))}
    <2>8. bad = {}
      <3>1. SUFFICES ASSUME bad # {} PROVE FALSE
        OBVIOUS
      <3>2. PICK k \in bad : \A o \in bad : k <= o
        <4>1. bad \subseteq Nat
          BY <2>2
        <4> HIDE DEF bad
        <4> QED BY <3>1, <4>1, LeastNat
      <3>3. k \in 1 .. n /\ f[k] # SubSeq(v, 1, cut(k))
        BY <3>2
      <3>4. k # 1 => k - 1 \in 1 .. n /\ f[k - 1] = SubSeq(v, 1, cut(k - 1))
        <4>1. k # 1 => k - 1 \in 1 .. n /\ k - 1 \notin bad
          <5> HIDE DEF bad
          <5> QED BY <2>2, <3>2, <3>3
        <4> QED BY <4>1
      <3>5. f[k] = IF k = 1 THEN Points(v)[k] ELSE f[k - 1] \o Points(v)[k]
        BY <2>7, <3>3 DEF Joins
      <3>6. CASE k = 1
        BY <2>1, <2>4, <2>5, <3>3, <3>5, <3>6
      <3>7. CASE k # 1
        <4>1. /\ cut(k - 1) = (k - 1) * size /\ cut(k - 1) \in Nat /\ cut(k) \in Nat
              /\ cut(k - 1) > 0 /\ cut(k - 1) < cut(k) /\ cut(k) <= Len(v)
          BY <2>2, <2>4, <3>3, <3>4, <3>7, SMTT(30)
        <4>2. f[k] = SubSeq(v, 1, cut(k - 1)) \o SubSeq(v, cut(k - 1) + 1, cut(k))
          BY <2>5, <3>3, <3>4, <3>5, <3>7, <4>1
        <4>3. /\ 1 \in 1 .. Len(v) + 1 /\ cut(k - 1) \in 1 - 1 .. Len(v)
              /\ cut(k) \in cut(k - 1) .. Len(v)
          BY <2>1, <4>1
        <4>4. f[k] = SubSeq(v, 1, cut(k))
          BY <4>2, <4>3, ConcatAdjacentSubSeq
        <4> QED BY <3>3, <4>4
      <3> QED BY <3>6, <3>7
    <2>9. f[n] = v
      <3>1. n \in 1 .. n /\ cut(n) = Len(v)
        BY <2>2 DEF cut
      <3> QED BY <2>8, <3>1, SubSeqFull
    <2> QED BY <2>3, <2>5, <2>6, <2>7, <2>9
  <1> QED BY <1>1, <1>2

-----------------------------------------------------------------------------
(* What follows what in joined pieces, and what is in them                 *)

Chain(s, R) == \A k \in 2 .. Len(s) : <<s[k - 1], s[k]>> \in R

LEMMA ChainConcat ==
  ASSUME NEW E, NEW R, NEW s \in Seq(E), NEW t \in Seq(E), Len(s) > 0, Len(t) > 0,
         Chain(s, R), Chain(t, R), <<s[Len(s)], t[1]>> \in R
  PROVE  /\ Chain(s \o t, R) /\ Len(s \o t) > 0
         /\ (s \o t)[1] = s[1]
         /\ (s \o t)[Len(s \o t)] = t[Len(t)]
  <1> DEFINE u == s \o t
  <1>1. /\ Len(u) = Len(s) + Len(t) /\ Len(s) \in Nat /\ Len(t) \in Nat
        /\ \A k \in 1 .. Len(u) : u[k] = IF k <= Len(s) THEN s[k] ELSE t[k - Len(s)]
    BY ConcatProperties, LenProperties
  <1> HIDE DEF u
  <1>2. ASSUME NEW k \in 2 .. Len(u) PROVE <<u[k - 1], u[k]>> \in R
    <2>1. k \in 1 .. Len(u) /\ k - 1 \in 1 .. Len(u) /\ k \in Nat
      BY <1>1
    <2>2. CASE k <= Len(s)
      <3>1. u[k] = s[k] /\ u[k - 1] = s[k - 1] /\ k \in 2 .. Len(s)
        BY <1>1, <2>1, <2>2
      <3> QED BY <3>1 DEF Chain
    <2>3. CASE k = Len(s) + 1
      <3>1. u[k] = t[1] /\ u[k - 1] = s[Len(s)]
        BY <1>1, <2>1, <2>3
      <3> QED BY <3>1
    <2>4. CASE k > Len(s) + 1
      <3>1. k - Len(s) \in 2 .. Len(t) /\ (k - 1) - Len(s) = (k - Len(s)) - 1
        BY <1>1, <2>1, <2>4
      <3>2. u[k] = t[k - Len(s)] /\ u[k - 1] = t[(k - Len(s)) - 1]
        BY <1>1, <2>1, <2>4, <3>1, SMTT(30)
      <3> QED BY <3>1, <3>2 DEF Chain
    <2> QED BY <1>1, <2>1, <2>2, <2>3, <2>4
  <1>3. Len(u) > 0 /\ u[1] = s[1] /\ u[Len(u)] = t[Len(t)]
    <2>1. Len(u) \in 1 .. Len(u) /\ 1 \in 1 .. Len(u) /\ Len(u) - Len(s) = Len(t)
      BY <1>1
    <2> QED BY <1>1, <2>1
  <1>4. Chain(u, R)
    BY <1>2 DEF Chain
  <1> QED BY <1>3, <1>4 DEF u

\* Pieces that are chains, each of which goes on from the one before, join to
\* a chain from the first one's start to the last one's end.
LEMMA FlattenChain ==
  ASSUME NEW E, NEW R, NEW s \in Seq(Seq(E)), Len(s) > 0,
         \A k \in 1 .. Len(s) : Len(s[k]) > 0 /\ Chain(s[k], R),
         \A k \in 2 .. Len(s) : <<s[k - 1][Len(s[k - 1])], s[k][1]>> \in R
  PROVE  /\ Len(FlattenSeq(s)) > 0 /\ Chain(FlattenSeq(s), R)
         /\ FlattenSeq(s)[1] = s[1][1]
         /\ FlattenSeq(s)[Len(FlattenSeq(s))] = s[Len(s)][Len(s[Len(s)])]
  <1> DEFINE Good(g, k) ==
               /\ Len(g) > 0 /\ Chain(g, R) /\ g[1] = s[1][1]
               /\ g[Len(g)] = s[k][Len(s[k])]
  <1>1. Len(s) \in Nat \ {0}
    BY LenProperties
  <1>2. PICK f : Joins(f, s, Len(s)) /\ FlattenSeq(s) = f[Len(s)]
    BY <1>1, FlattenJoins
  <1>3. \A k \in 1 .. Len(s) : f[k] \in Seq(E)
    BY <1>2, JoinsType
  <1> DEFINE bad == {k \in 1 .. Len(s) : ~Good(f[k], k)}
  <1>4. bad = {}
    <2>1. SUFFICES ASSUME bad # {} PROVE FALSE
      OBVIOUS
    <2>2. PICK k \in bad : \A o \in bad : k <= o
      <3>1. bad \subseteq Nat
        BY <1>1
      <3> HIDE DEF bad
      <3> QED BY <2>1, <3>1, LeastNat
    <2>3. k \in 1 .. Len(s) /\ ~Good(f[k], k)
      BY <2>2
    <2>4. k # 1 => k - 1 \in 1 .. Len(s) /\ Good(f[k - 1], k - 1)
      <3>1. k # 1 => k - 1 \in 1 .. Len(s) /\ k - 1 \notin bad
        <4> HIDE DEF bad
        <4> QED BY <1>1, <2>2, <2>3
      <3> QED BY <3>1
    <2>5. f[k] = IF k = 1 THEN s[k] ELSE f[k - 1] \o s[k]
      BY <1>2, <2>3 DEF Joins
    <2>6. s[k] \in Seq(E) /\ Len(s[k]) > 0 /\ Chain(s[k], R)
      BY <2>3, ElementOfSeq
    <2>7. CASE k = 1
      BY <2>3, <2>5, <2>6, <2>7
    <2>8. CASE k # 1
      <3>1. k \in 2 .. Len(s)
        BY <1>1, <2>3, <2>8
      <3>2. <<s[k - 1][Len(s[k - 1])], s[k][1]>> \in R
        BY <3>1
      <3> DEFINE p == f[k - 1]
                 q == s[k]
      <3>3. /\ p \in Seq(E) /\ Len(p) > 0 /\ Chain(p, R) /\ p[1] = s[1][1]
            /\ p[Len(p)] = s[k - 1][Len(s[k - 1])] /\ f[k] = p \o q
            /\ q \in Seq(E) /\ Len(q) > 0 /\ Chain(q, R) /\ q = s[k]
            /\ <<p[Len(p)], q[1]>> \in R
        BY <1>3, <2>4, <2>5, <2>6, <2>8, <3>2
      <3> HIDE DEF p, q
      <3>4. /\ Chain(p \o q, R) /\ Len(p \o q) > 0 /\ (p \o q)[1] = p[1]
            /\ (p \o q)[Len(p \o q)] = q[Len(q)]
        <4>1. /\ p \in Seq(E) /\ q \in Seq(E) /\ Len(p) > 0 /\ Len(q) > 0
              /\ Chain(p, R) /\ Chain(q, R) /\ <<p[Len(p)], q[1]>> \in R
          BY <3>3
        <4> QED BY <4>1, ChainConcat
      <3>5. Good(f[k], k)
        BY <3>3, <3>4
      <3> QED BY <2>3, <3>5
    <2> QED BY <2>7, <2>8
  <1>5. Good(f[Len(s)], Len(s))
    <2>1. Len(s) \in 1 .. Len(s)
      BY <1>1
    <2> QED BY <1>4, <2>1
  <1> QED BY <1>2, <1>5

LEMMA UnionMore == \A A, x : UNION (A \cup {x}) = (UNION A) \cup x
  OBVIOUS

LEMMA FlattenRange ==
  ASSUME NEW E, NEW s \in Seq(Seq(E))
  PROVE  Range(FlattenSeq(s)) = UNION {Range(s[k]) : k \in 1 .. Len(s)}
  <1> DEFINE S == {u \in Seq(Seq(E)) :
                     Range(FlattenSeq(u)) = UNION {Range(u[k]) : k \in 1 .. Len(u)}}
  <1>1. <<>> \in S
    <2>1. FlattenSeq(<<>>) = <<>> /\ Len(<<>>) = 0 /\ <<>> \in Seq(Seq(E))
      BY EmptySeq DEF FlattenSeq
    <2>2. Range(<<>>) = {}
      BY DEF Range
    <2> QED BY <2>1, <2>2
  <1>2. ASSUME NEW u \in S, NEW p \in Seq(E) PROVE Append(u, p) \in S
    <2>1. u \in Seq(Seq(E)) /\ Range(FlattenSeq(u)) = UNION {Range(u[k]) : k \in 1 .. Len(u)}
      OBVIOUS
    <2> DEFINE w == Append(u, p)
    <2>2. /\ w \in Seq(Seq(E)) /\ Len(w) = Len(u) + 1 /\ Len(u) \in Nat
          /\ \A k \in 1 .. Len(u) : w[k] = u[k]
          /\ w[Len(u) + 1] = p
      BY <2>1, AppendProperties, LenProperties
    <2>3. FlattenSeq(w) = FlattenSeq(u) \o p /\ FlattenSeq(u) \in Seq(E)
      BY <2>1, FlattenAppend
    <2> HIDE DEF w
    <2>4. Range(FlattenSeq(w)) = Range(FlattenSeq(u)) \cup Range(p)
      <3> DEFINE x == FlattenSeq(u)
      <3> HIDE DEF x
      <3>1. Range(x \o p) = Range(x) \cup Range(p)
        BY <2>3, RangeConcatenation DEF x
      <3> QED BY <2>3, <3>1 DEF x
    <2>5. 1 .. Len(w) = (1 .. Len(u)) \cup {Len(u) + 1}
      BY <2>2
    <2>6. UNION {Range(w[k]) : k \in 1 .. Len(w)} = (UNION {Range(u[k]) : k \in 1 .. Len(u)}) \cup Range(p)
      <3>1. {Range(w[k]) : k \in 1 .. Len(w)} = {Range(u[k]) : k \in 1 .. Len(u)} \cup {Range(p)}
        BY <2>2, <2>5
      <3> QED BY <3>1, UnionMore
    <2>7. Range(FlattenSeq(w)) = UNION {Range(w[k]) : k \in 1 .. Len(w)}
      BY <2>1, <2>4, <2>6, Zenon
    <2>8. w \in S
      BY <2>2, <2>7, Zenon
    <2> QED BY <2>8 DEF w
  <1> HIDE DEF S
  <1>3. Seq(Seq(E)) \subseteq S
    <2>1. S \subseteq Seq(Seq(E))
      BY DEF S
    <2> QED BY <1>1, <1>2, <2>1, AppendInduction
  <1> QED BY <1>3 DEF S

-----------------------------------------------------------------------------
(* The days between two dates                                              *)

Date == [d : Nat, m : Nat, y : Nat]

\* A day goes on in its month, in the next one or in the next year.
Follows == {p \in Date \X Date :
  \/ p[2].y = p[1].y /\ p[2].m = p[1].m /\ p[2].d = p[1].d + 1
  \/ p[2].y = p[1].y /\ p[2].m = p[1].m + 1
  \/ p[2].y = p[1].y + 1 /\ p[2].m = 1 /\ p[1].m = Len(Length)}

Asked == start \in Dates /\ end \in Dates /\ ~Before(end, start)

FirstDay(i, h) == IF i = start.m /\ h = start.y THEN start.d ELSE 1
LastDay(i, h)  == IF i = end.m /\ h = end.y THEN end.d ELSE Days(i, h)

DaysOf(i, h) == [d : FirstDay(i, h) .. LastDay(i, h), m : {i}, y : {h}]

LEMMA LengthType ==
  /\ Len(Length) \in Nat /\ Len(Length) >= 2 /\ DOMAIN Length = 1 .. Len(Length)
  /\ \A i \in DOMAIN Length : Length[i] \in Nat \ {0}
  /\ LeapLength = Length[2] + 1 /\ LeapLength \in Nat
  /\ \A i \in DOMAIN Length : \A h : DateLength(i, h) \in Nat \ {0}
  <1>1. Length \in Seq(Nat \ {0}) /\ Len(Length) >= 2 /\ LeapLength = Length[2] + 1
    BY ArchiveAssumption
  <1>2. /\ Len(Length) \in Nat /\ DOMAIN Length = 1 .. Len(Length)
        /\ \A i \in DOMAIN Length : Length[i] \in Nat \ {0}
    BY <1>1, LenProperties, ElementOfSeq
  <1>3. LeapLength \in Nat \ {0}
    BY <1>1, <1>2
  <1> QED BY <1>1, <1>2, <1>3 DEF DateLength

LEMMA DateType ==
  ASSUME NEW t \in Dates
  PROVE  /\ t \in Date /\ t.y \in Years /\ t.m \in DOMAIN Length
         /\ t.d \in 1 .. DateLength(t.m, t.y)
  <1>1. PICK i \in DOMAIN Length, h \in Years :
          t \in [d : 1 .. DateLength(i, h), m : {i}, y : {h}]
    <2>1. PICK h \in Years : t \in DatesOfYear(h)
      BY DEF Dates
    <2>2. PICK i \in DOMAIN Length : t \in [d : 1 .. DateLength(i, h), m : {i}, y : {h}]
      BY <2>1 DEF DatesOfYear
    <2> QED BY <2>1, <2>2
  <1>2. i \in Nat /\ h \in Nat
    BY LengthType, ArchiveAssumption
  <1> QED BY <1>1, <1>2 DEF Date

LEMMA DatesHold ==
  ASSUME NEW t \in Date, t.y \in Years, t.m \in DOMAIN Length,
         t.d \in 1 .. DateLength(t.m, t.y)
  PROVE  t \in Dates
  <1>1. t \in [d : 1 .. DateLength(t.m, t.y), m : {t.m}, y : {t.y}]
    BY DEF Date
  <1>2. t \in DatesOfYear(t.y)
    BY <1>1 DEF DatesOfYear
  <1> QED BY <1>2 DEF Dates

LEMMA AskedOrder ==
  ASSUME Asked
  PROVE  /\ start.y <= end.y
         /\ start.y = end.y => start.m <= end.m
         /\ start.y = end.y /\ start.m = end.m => start.d <= end.d
  <1>1. start \in Date /\ end \in Date /\ ~Before(end, start)
    BY DateType DEF Asked
  <1> QED BY <1>1 DEF Date, Before

LEMMA DaysLong ==
  ASSUME Asked, NEW i \in DOMAIN Length, NEW h \in Nat, h >= start.y
  PROVE  /\ Days(i, h) \in Nat /\ Days(i, h) >= DateLength(i, h)
         /\ Days(i, h) = DateLength(i, h) \/ (i = 2 /\ Days(i, h) = LeapLength /\ DateLength(i, h) = Length[2])
  <1>1. start.y \in Nat
    BY DateType DEF Asked, Date
  <1>2. Leap(h) => \E y \in start.y .. h : Leap(y)
    BY <1>1
  <1>3. 2 \in DOMAIN Length
    BY LengthType
  <1> QED BY <1>2, <1>3, LengthType DEF Days, DateLength

LEMMA MonthBounds ==
  ASSUME Asked, NEW h \in start.y .. end.y
  PROVE  /\ h \in Nat /\ FirstMonth(h) \in Nat /\ LastMonth(h) \in Nat
         /\ 1 <= FirstMonth(h) /\ FirstMonth(h) <= LastMonth(h) /\ LastMonth(h) <= Len(Length)
         /\ FirstMonth(h) .. LastMonth(h) \subseteq DOMAIN Length
  <1>1. /\ start.y \in Nat /\ end.y \in Nat /\ start.m \in 1 .. Len(Length) /\ end.m \in 1 .. Len(Length)
        /\ Len(Length) \in Nat /\ Len(Length) >= 2 /\ DOMAIN Length = 1 .. Len(Length)
    BY DateType, LengthType DEF Asked, Date
  <1>2. start.y = end.y => start.m <= end.m
    BY AskedOrder
  <1>3. h \in Nat /\ FirstMonth(h) \in 1 .. Len(Length) /\ LastMonth(h) \in 1 .. Len(Length)
    BY <1>1 DEF FirstMonth, LastMonth
  <1>4. FirstMonth(h) <= LastMonth(h)
    BY <1>1, <1>2 DEF FirstMonth, LastMonth
  <1> QED BY <1>1, <1>3, <1>4

\* The days of a month within the range, from the first to the last.
LEMMA MonthDays ==
  ASSUME Asked, NEW h \in start.y .. end.y, NEW i \in FirstMonth(h) .. LastMonth(h)
  PROVE  /\ DaysOfMonth(i, h) \in Seq(Date) /\ Len(DaysOfMonth(i, h)) > 0
         /\ Chain(DaysOfMonth(i, h), Follows)
         /\ Range(DaysOfMonth(i, h)) = DaysOf(i, h)
  <1> DEFINE first == FirstDay(i, h)
             last == LastDay(i, h)
             M == DaysOfMonth(i, h)
  <1>1. h \in Nat /\ i \in DOMAIN Length /\ i \in Nat /\ h >= start.y /\ start.y \in Nat
    BY MonthBounds, DateType DEF Asked, Date
  <1>2. /\ start.d \in Nat \ {0} /\ start.d <= DateLength(start.m, start.y)
        /\ end.d \in Nat \ {0} /\ DateLength(i, h) \in Nat \ {0}
    BY <1>1, DateType, LengthType, SMTT(30) DEF Asked, Date
  <1>3. Days(i, h) \in Nat /\ Days(i, h) >= DateLength(i, h)
    BY <1>1, DaysLong
  <1>4. first \in Nat \ {0} /\ last \in Nat /\ first <= last
    <2>1. start.y = end.y /\ start.m = end.m => start.d <= end.d
      BY AskedOrder
    <2> QED BY <1>2, <1>3, <2>1 DEF FirstDay, LastDay
  <1>5. M = [j \in 1 .. last - first + 1 |-> [d |-> first + j - 1, m |-> i, y |-> h]]
    BY DEF DaysOfMonth, FirstDay, LastDay
  <1>6. DaysOf(i, h) = [d : first .. last, m : {i}, y : {h}]
    BY DEF DaysOf
  <1> HIDE DEF first, last, M
  <1>7. M \in Seq(Date) /\ Len(M) = last - first + 1
    <2>1. M \in [1 .. last - first + 1 -> Date]
      BY <1>1, <1>4, <1>5 DEF Date
    <2>2. last - first + 1 \in Nat
      BY <1>4
    <2> QED BY <2>1, <2>2, SeqDef, LenProperties
  <1>8. Chain(M, Follows)
    <2> SUFFICES ASSUME NEW j \in 2 .. Len(M) PROVE <<M[j - 1], M[j]>> \in Follows
      BY DEF Chain
    <2>1. j \in 1 .. last - first + 1 /\ j - 1 \in 1 .. last - first + 1 /\ j \in Nat
      BY <1>4, <1>7
    <2>2. /\ M[j] = [d |-> first + j - 1, m |-> i, y |-> h]
          /\ M[j - 1] = [d |-> first + (j - 1) - 1, m |-> i, y |-> h]
      BY <1>5, <2>1
    <2>3. /\ M[j].d = M[j - 1].d + 1 /\ M[j].m = M[j - 1].m /\ M[j].y = M[j - 1].y
          /\ M[j] \in Date /\ M[j - 1] \in Date
      BY <1>1, <1>4, <2>1, <2>2 DEF Date
    <2> QED BY <2>3 DEF Follows
  <1>9. Range(M) = DaysOf(i, h)
    <2>1. DOMAIN M = 1 .. last - first + 1
      BY <1>5
    <2>2. ASSUME NEW t \in Range(M) PROVE t \in DaysOf(i, h)
      <3>1. PICK j \in 1 .. last - first + 1 : t = M[j]
        BY <2>1 DEF Range
      <3>2. t = [d |-> first + j - 1, m |-> i, y |-> h]
        BY <1>5, <3>1
      <3> QED BY <1>4, <1>6, <3>2
    <2>3. ASSUME NEW t \in DaysOf(i, h) PROVE t \in Range(M)
      <3>1. t = [d |-> t.d, m |-> i, y |-> h] /\ t.d \in first .. last
        BY <1>6
      <3>2. t.d - first + 1 \in 1 .. last - first + 1 /\ first + (t.d - first + 1) - 1 = t.d
        BY <1>4, <3>1
      <3>3. M[t.d - first + 1] = t
        BY <1>5, <3>1, <3>2
      <3> QED BY <2>1, <3>2, <3>3 DEF Range
    <2> QED BY <2>2, <2>3
  <1> QED BY <1>4, <1>7, <1>8, <1>9 DEF M

LEMMA EndsInRange ==
  ASSUME NEW E, NEW s \in Seq(E), Len(s) > 0
  PROVE  s[1] \in Range(s) /\ s[Len(s)] \in Range(s)
  <1>1. Len(s) \in Nat /\ DOMAIN s = 1 .. Len(s)
    BY LenProperties
  <1>2. 1 \in DOMAIN s /\ Len(s) \in DOMAIN s
    BY <1>1
  <1> QED BY <1>2 DEF Range

LEMMA DaysOfType ==
  ASSUME Asked, NEW h \in start.y .. end.y, NEW i \in FirstMonth(h) .. LastMonth(h), NEW t \in DaysOf(i, h)
  PROVE  t \in Date /\ t.m = i /\ t.y = h
  <1>1. t \in Range(DaysOfMonth(i, h)) /\ DaysOfMonth(i, h) \in Seq(Date)
    BY MonthDays
  <1>2. t \in Date
    BY <1>1, RangeOfSeq
  <1> QED BY <1>2 DEF DaysOf

DaysIn(h) == UNION {DaysOf(i, h) : i \in FirstMonth(h) .. LastMonth(h)}

LEMMA YearDays ==
  ASSUME Asked, NEW h \in start.y .. end.y
  PROVE  LET Y == DaysOfYear(h)
         IN  /\ Y \in Seq(Date) /\ Len(Y) > 0 /\ Chain(Y, Follows)
             /\ Y[1] \in DaysOf(FirstMonth(h), h) /\ Y[Len(Y)] \in DaysOf(LastMonth(h), h)
             /\ Range(Y) = DaysIn(h)
  <1> DEFINE f == FirstMonth(h)
             g == LastMonth(h)
             n == g - f + 1
             s == [k \in 1 .. n |-> DaysOfMonth(f + k - 1, h)]
  <1>1. h \in Nat /\ f \in Nat /\ g \in Nat /\ f <= g /\ 1 <= f
    BY MonthBounds
  <1>2. DaysOfYear(h) = FlattenSeq(s)
    BY DEF DaysOfYear
  <1>3. n \in Nat \ {0} /\ \A k \in 1 .. n : s[k] = DaysOfMonth(f + k - 1, h) /\ f + k - 1 \in f .. g
    BY <1>1
  <1>4. ASSUME NEW k \in 1 .. n
        PROVE  /\ s[k] \in Seq(Date) /\ Len(s[k]) > 0 /\ Chain(s[k], Follows)
               /\ Range(s[k]) = DaysOf(f + k - 1, h)
               /\ s[k][1] \in DaysOf(f + k - 1, h) /\ s[k][Len(s[k])] \in DaysOf(f + k - 1, h)
    <2> DEFINE M == DaysOfMonth(f + k - 1, h)
    <2>1. s[k] = M /\ f + k - 1 \in FirstMonth(h) .. LastMonth(h)
      BY <1>3
    <2>2. M \in Seq(Date) /\ Len(M) > 0 /\ Chain(M, Follows) /\ Range(M) = DaysOf(f + k - 1, h)
      BY <2>1, MonthDays
    <2> HIDE DEF M, s, f
    <2>3. M[1] \in Range(M) /\ M[Len(M)] \in Range(M)
      BY <2>2, EndsInRange
    <2> QED BY <2>1, <2>2, <2>3
  <1>5. s \in Seq(Seq(Date)) /\ Len(s) = n
    <2>1. s \in [1 .. n -> Seq(Date)]
      BY <1>4
    <2> HIDE DEF s, n
    <2> QED BY <1>3, <2>1, SeqDef, LenProperties
  <1>6. \A k \in 1 .. n : \A t : t \in DaysOf(f + k - 1, h) => t \in Date /\ t.m = f + k - 1 /\ t.y = h
    BY <1>3, DaysOfType
  <1>7. ASSUME NEW k \in 2 .. n PROVE <<s[k - 1][Len(s[k - 1])], s[k][1]>> \in Follows
    <2>1. k \in 1 .. n /\ k - 1 \in 1 .. n /\ f + (k - 1) - 1 + 1 = f + k - 1
      BY <1>1, <1>3
    <2> DEFINE p == s[k - 1][Len(s[k - 1])]
               q == s[k][1]
    <2>2. p \in DaysOf(f + (k - 1) - 1, h) /\ q \in DaysOf(f + k - 1, h)
      BY <1>4, <2>1
    <2> HIDE DEF p, q, s, n, f
    <2>3. /\ p \in Date /\ p.m = f + (k - 1) - 1 /\ p.y = h
          /\ q \in Date /\ q.m = f + k - 1 /\ q.y = h
      BY <1>6, <2>1, <2>2
    <2>4. <<p, q>> \in Follows
      BY <2>1, <2>3 DEF Follows
    <2> QED BY <2>4 DEF p, q
  <1> HIDE DEF s, n
  <1>8. /\ Len(FlattenSeq(s)) > 0 /\ Chain(FlattenSeq(s), Follows)
        /\ FlattenSeq(s)[1] = s[1][1]
        /\ FlattenSeq(s)[Len(FlattenSeq(s))] = s[Len(s)][Len(s[Len(s)])]
    <2>1. /\ Len(s) > 0
          /\ \A k \in 1 .. Len(s) : Len(s[k]) > 0 /\ Chain(s[k], Follows)
          /\ \A k \in 2 .. Len(s) : <<s[k - 1][Len(s[k - 1])], s[k][1]>> \in Follows
      <3>1. \A k \in 1 .. n : Len(s[k]) > 0 /\ Chain(s[k], Follows)
        BY <1>4
      <3>2. \A k \in 2 .. n : <<s[k - 1][Len(s[k - 1])], s[k][1]>> \in Follows
        BY <1>7
      <3>3. Len(s) = n /\ n > 0
        BY <1>3, <1>5
      <3> QED BY <3>1, <3>2, <3>3, Zenon
    <2> QED BY <1>5, <2>1, FlattenChain
  <1>9. FlattenSeq(s) \in Seq(Date)
    BY <1>5, FlattenAppend, EmptySeq
  <1>10. s[1][1] \in DaysOf(f, h) /\ s[n][Len(s[n])] \in DaysOf(g, h)
    <2>1. 1 \in 1 .. n /\ n \in 1 .. n /\ f + 1 - 1 = f /\ f + n - 1 = g
      BY <1>1, <1>3 DEF n
    <2> HIDE DEF f, g
    <2>2. s[1][1] \in DaysOf(f + 1 - 1, h) /\ s[n][Len(s[n])] \in DaysOf(f + n - 1, h)
      BY <1>4, <2>1
    <2> QED BY <2>1, <2>2
  <1>11. Range(FlattenSeq(s)) = DaysIn(h)
    <2>1. Range(FlattenSeq(s)) = UNION {Range(s[k]) : k \in 1 .. n}
      BY <1>5, FlattenRange
    <2>2. \A i \in f .. g : i - f + 1 \in 1 .. n /\ f + (i - f + 1) - 1 = i
      BY <1>1 DEF n
    <2> HIDE DEF f, g
    <2>3. {Range(s[k]) : k \in 1 .. n} = {DaysOf(i, h) : i \in f .. g}
      <3>1. ASSUME NEW k \in 1 .. n PROVE \E i \in f .. g : Range(s[k]) = DaysOf(i, h)
        BY <1>3, <1>4
      <3>2. ASSUME NEW i \in f .. g PROVE \E k \in 1 .. n : DaysOf(i, h) = Range(s[k])
        <4>1. Range(s[i - f + 1]) = DaysOf(f + (i - f + 1) - 1, h)
          BY <1>4, <2>2
        <4> QED BY <2>2, <4>1
      <3> QED BY <3>1, <3>2
    <2> QED BY <2>1, <2>3 DEF DaysIn, f, g
  <1> QED BY <1>2, <1>5, <1>8, <1>9, <1>10, <1>11

LEMMA AllDays ==
  ASSUME Asked
  PROVE  /\ DateArr \in Seq(Date) /\ Len(DateArr) > 0 /\ Chain(DateArr, Follows)
         /\ Range(DateArr) = UNION {DaysIn(h) : h \in start.y .. end.y}
  <1> DEFINE f == start.y
             g == end.y
             n == g - f + 1
             s == [k \in 1 .. n |-> DaysOfYear(f + k - 1)]
  <1>1. f \in Nat /\ g \in Nat /\ f <= g
    BY AskedOrder, DateType DEF Asked, Date
  <1>2. DateArr = FlattenSeq(s)
    BY DEF DateArr
  <1>3. n \in Nat \ {0} /\ \A k \in 1 .. n : s[k] = DaysOfYear(f + k - 1) /\ f + k - 1 \in f .. g
    BY <1>1
  <1>4. ASSUME NEW k \in 1 .. n
        PROVE  /\ s[k] \in Seq(Date) /\ Len(s[k]) > 0 /\ Chain(s[k], Follows)
               /\ Range(s[k]) = DaysIn(f + k - 1)
               /\ s[k][1] \in DaysOf(FirstMonth(f + k - 1), f + k - 1)
               /\ s[k][Len(s[k])] \in DaysOf(LastMonth(f + k - 1), f + k - 1)
    <2>1. s[k] = DaysOfYear(f + k - 1) /\ f + k - 1 \in start.y .. end.y
      BY <1>3
    <2> HIDE DEF s, f, g
    <2> QED BY <2>1, YearDays
  <1>5. s \in Seq(Seq(Date)) /\ Len(s) = n
    <2>1. s \in [1 .. n -> Seq(Date)]
      BY <1>4
    <2> HIDE DEF s, n
    <2> QED BY <1>3, <2>1, SeqDef, LenProperties
  <1>6. ASSUME NEW h \in f .. g
        PROVE  /\ FirstMonth(h) \in FirstMonth(h) .. LastMonth(h)
               /\ LastMonth(h) \in FirstMonth(h) .. LastMonth(h)
               /\ h < g => LastMonth(h) = Len(Length)
               /\ h > f => FirstMonth(h) = 1
    BY <1>1, MonthBounds DEF FirstMonth, LastMonth
  <1>7. ASSUME NEW k \in 2 .. n PROVE <<s[k - 1][Len(s[k - 1])], s[k][1]>> \in Follows
    <2>1. /\ k \in 1 .. n /\ k - 1 \in 1 .. n
          /\ f + (k - 1) - 1 \in f .. g /\ f + (k - 1) - 1 < g
          /\ f + k - 1 \in f .. g /\ f + k - 1 > f
          /\ (f + (k - 1) - 1) + 1 = f + k - 1
      BY <1>1, <1>3
    <2> DEFINE p == s[k - 1][Len(s[k - 1])]
               q == s[k][1]
               h == f + (k - 1) - 1
               i == f + k - 1
    <2>2. p \in DaysOf(LastMonth(h), h) /\ q \in DaysOf(FirstMonth(i), i)
      BY <1>4, <2>1
    <2>3. h \in f .. g /\ i \in f .. g /\ h < g /\ i > f /\ i = h + 1
      BY <2>1
    <2> HIDE DEF p, q, s, n, h, i
    <2>4. /\ LastMonth(h) \in FirstMonth(h) .. LastMonth(h) /\ LastMonth(h) = Len(Length)
          /\ FirstMonth(i) \in FirstMonth(i) .. LastMonth(i) /\ FirstMonth(i) = 1
      BY <1>6, <2>3
    <2>5. p \in Date /\ p.m = Len(Length) /\ p.y = h
      BY <2>2, <2>3, <2>4, DaysOfType
    <2>6. q \in Date /\ q.m = 1 /\ q.y = i
      BY <2>2, <2>3, <2>4, DaysOfType
    <2>7. <<p, q>> \in Follows
      BY <2>3, <2>5, <2>6 DEF Follows
    <2> QED BY <2>7 DEF p, q
  <1> HIDE DEF s, n
  <1>8. Len(FlattenSeq(s)) > 0 /\ Chain(FlattenSeq(s), Follows)
    <2>1. /\ Len(s) > 0
          /\ \A k \in 1 .. Len(s) : Len(s[k]) > 0 /\ Chain(s[k], Follows)
          /\ \A k \in 2 .. Len(s) : <<s[k - 1][Len(s[k - 1])], s[k][1]>> \in Follows
      <3>1. \A k \in 1 .. n : Len(s[k]) > 0 /\ Chain(s[k], Follows)
        BY <1>4
      <3>2. \A k \in 2 .. n : <<s[k - 1][Len(s[k - 1])], s[k][1]>> \in Follows
        BY <1>7
      <3>3. Len(s) = n /\ n > 0
        BY <1>3, <1>5
      <3> QED BY <3>1, <3>2, <3>3, Zenon
    <2> QED BY <1>5, <2>1, FlattenChain
  <1>9. FlattenSeq(s) \in Seq(Date)
    BY <1>5, FlattenAppend, EmptySeq
  <1>10. Range(FlattenSeq(s)) = UNION {DaysIn(h) : h \in f .. g}
    <2>1. Range(FlattenSeq(s)) = UNION {Range(s[k]) : k \in 1 .. n}
      BY <1>5, FlattenRange
    <2>2. \A h \in f .. g : h - f + 1 \in 1 .. n /\ f + (h - f + 1) - 1 = h
      BY <1>1 DEF n
    <2> HIDE DEF f, g
    <2>3. {Range(s[k]) : k \in 1 .. n} = {DaysIn(h) : h \in f .. g}
      <3>1. ASSUME NEW k \in 1 .. n PROVE \E h \in f .. g : Range(s[k]) = DaysIn(h)
        BY <1>3, <1>4
      <3>2. ASSUME NEW h \in f .. g PROVE \E k \in 1 .. n : DaysIn(h) = Range(s[k])
        <4>1. Range(s[h - f + 1]) = DaysIn(f + (h - f + 1) - 1)
          BY <1>4, <2>2
        <4> QED BY <2>2, <4>1
      <3> QED BY <3>1, <3>2
    <2> QED BY <2>1, <2>3
  <1> QED BY <1>2, <1>8, <1>9, <1>10

\* What follows comes later, if the months it passes over are not empty.
LEMMA FollowsBefore ==
  ASSUME NEW p, NEW q, <<p, q>> \in Follows
  PROVE  p \in Date /\ q \in Date /\ Before(p, q)
  BY DEF Follows, Date, Before

LEMMA InDateArr ==
  ASSUME Asked, NEW t
  PROVE  t \in Range(DateArr) <=>
           \E h \in start.y .. end.y : \E i \in FirstMonth(h) .. LastMonth(h) : t \in DaysOf(i, h)
  <1>1. t \in Range(DateArr) <=> \E h \in start.y .. end.y : t \in DaysIn(h)
    BY AllDays
  <1>2. ASSUME NEW h
        PROVE  t \in DaysIn(h) <=> \E i \in FirstMonth(h) .. LastMonth(h) : t \in DaysOf(i, h)
    BY DEF DaysIn
  <1> QED BY <1>1, <1>2

LEMMA OrderedDays ==
  ASSUME Asked, dateArr = DateArr
  PROVE  DaysInOrder
  <1>1. /\ dateArr \in Seq(Date) /\ Len(dateArr) \in Nat /\ DOMAIN dateArr = 1 .. Len(dateArr)
        /\ Chain(dateArr, Follows)
    BY AllDays, LenProperties
  <1>2. /\ start \in Date /\ start.y \in Years /\ start.m \in DOMAIN Length
        /\ start.d \in 1 .. DateLength(start.m, start.y)
        /\ end \in Date /\ end.y \in Years /\ end.m \in DOMAIN Length
        /\ end.d \in 1 .. DateLength(end.m, end.y)
    BY DateType DEF Asked
  <1>3. \A k \in 2 .. Len(dateArr) : Before(dateArr[k - 1], dateArr[k])
    BY <1>1, FollowsBefore DEF Chain
  <1>4. ASSUME NEW t \in Dates, ~Before(t, start), ~Before(end, t)
        PROVE  \E k \in DOMAIN dateArr : dateArr[k] = t
    <2>1. /\ t \in Date /\ t.m \in DOMAIN Length /\ t.d \in 1 .. DateLength(t.m, t.y)
      BY DateType
    <2>2. /\ t.y \in start.y .. end.y /\ t.y \in Nat /\ t.y >= start.y
          /\ t.y = start.y => t.m >= start.m /\ (t.m = start.m => t.d >= start.d)
          /\ t.y = end.y => t.m <= end.m /\ (t.m = end.m => t.d <= end.d)
      BY <1>2, <1>4, <2>1 DEF Before, Date
    <2>3. t.m \in FirstMonth(t.y) .. LastMonth(t.y)
      <3>1. t.m \in Nat /\ t.m \in 1 .. Len(Length) /\ Len(Length) \in Nat
        BY <2>1, LengthType DEF Date
      <3>2. start.m \in Nat /\ end.m \in Nat /\ start.y \in Nat /\ end.y \in Nat
        BY <1>2 DEF Date
      <3>3. FirstMonth(t.y) <= t.m /\ FirstMonth(t.y) \in Nat
        BY <2>2, <3>1, <3>2 DEF FirstMonth
      <3>4. t.m <= LastMonth(t.y) /\ LastMonth(t.y) \in Nat
        BY <2>2, <3>1, <3>2 DEF LastMonth
      <3> QED BY <3>1, <3>3, <3>4
    <2>4. Days(t.m, t.y) \in Nat /\ Days(t.m, t.y) >= DateLength(t.m, t.y)
      BY <2>1, <2>2, DaysLong
    <2>5. DateLength(t.m, t.y) \in Nat
      BY <2>1, LengthType
    <2>6. t.d \in FirstDay(t.m, t.y) .. LastDay(t.m, t.y)
      BY <1>2, <2>1, <2>2, <2>4, <2>5 DEF FirstDay, LastDay, Date
    <2>7. t \in DaysOf(t.m, t.y)
      BY <2>1, <2>6 DEF DaysOf, Date
    <2>8. t \in Range(DateArr)
      BY <2>2, <2>3, <2>7, InDateArr
    <2> QED BY <2>8 DEF Range
  <1>5. ASSUME NEW k \in DOMAIN dateArr
        PROVE  dateArr[k] \in Dates \/ (dateArr[k].m = 2 /\ dateArr[k].d = LeapLength)
    <2> DEFINE t == dateArr[k]
    <2>1. t \in Date /\ t \in Range(DateArr)
      BY <1>1, ElementOfSeq DEF Range
    <2> HIDE DEF t
    <2>2. PICK h \in start.y .. end.y : \E i \in FirstMonth(h) .. LastMonth(h) : t \in DaysOf(i, h)
      BY <2>1, InDateArr
    <2>3. PICK i \in FirstMonth(h) .. LastMonth(h) : t \in DaysOf(i, h)
      BY <2>2
    <2>4. h \in Nat /\ h >= start.y /\ i \in DOMAIN Length /\ h \in Years
      <3>1. start.y .. end.y \subseteq Years
        BY <1>2, ArchiveAssumption
      <3> QED BY <1>2, <3>1, MonthBounds DEF Date
    <2>5. t.m = i /\ t.y = h /\ t.d \in FirstDay(i, h) .. LastDay(i, h) /\ t.d \in Nat
      BY <2>1, <2>3 DEF DaysOf, Date
    <2>6. /\ Days(i, h) \in Nat
          /\ Days(i, h) = DateLength(i, h) \/ (i = 2 /\ Days(i, h) = LeapLength /\ DateLength(i, h) = Length[2])
      BY <2>4, DaysLong
    <2>7. DateLength(i, h) \in Nat \ {0} /\ LeapLength = Length[2] + 1 /\ Length[2] \in Nat
      BY <2>4, LengthType
    <2>8. t.d >= 1
      BY <1>2, <2>5 DEF FirstDay, Date
    <2>9. t.d <= DateLength(i, h) \/ (i = 2 /\ t.d = LeapLength)
      <3>1. CASE i = end.m /\ h = end.y
        <4>1. t.d <= end.d /\ end.d \in Nat /\ end.d <= DateLength(i, h)
          BY <1>2, <2>5, <3>1 DEF LastDay, Date
        <4> QED BY <2>5, <2>7, <4>1
      <3>2. CASE ~(i = end.m /\ h = end.y)
        <4>1. t.d <= Days(i, h)
          BY <2>5, <2>6, <3>2 DEF LastDay
        <4> QED BY <2>5, <2>6, <2>7, <4>1
      <3> QED BY <3>1, <3>2
    <2>10. CASE t.d <= DateLength(i, h)
      <3>1. t.d \in 1 .. DateLength(t.m, t.y) /\ t.m \in DOMAIN Length /\ t.y \in Years
        BY <2>4, <2>5, <2>7, <2>8, <2>10
      <3> QED BY <2>1, <3>1, DatesHold DEF t
    <2> QED BY <2>5, <2>9, <2>10 DEF t
  <1> QED BY <1>3, <1>4, <1>5 DEF DaysInOrder

\* genDateArr lists every day of the range, in order and once, for all dates and
\* calendars; what else it lists is the 29 February of a year after a leap year.
THEOREM EveryDayOnce == ArSpec => []DaysInOrder
  <1>1. ArInit => DaysInOrder
    <2> SUFFICES ASSUME ArInit PROVE DaysInOrder
      OBVIOUS
    <2>1. start \in Dates /\ end \in {t \in Dates : ~Before(t, start)} /\ dateArr = DateArr
      BY DEF ArInit
    <2>2. Asked
      BY <2>1 DEF Asked
    <2> QED BY <2>1, <2>2, OrderedDays
  <1>2. DaysInOrder /\ [ReadPrintData]_arVars => DaysInOrder'
    <2> SUFFICES ASSUME DaysInOrder, [ReadPrintData]_arVars PROVE DaysInOrder'
      OBVIOUS
    <2>1. UNCHANGED <<start, end, dateArr>>
      BY DEF ReadPrintData, arVars
    <2> QED BY <2>1 DEF DaysInOrder
  <1> QED BY <1>1, <1>2, PTL DEF ArSpec

-----------------------------------------------------------------------------
(* The rows that are printed                                               *)

Rows == Nat \X Nat

\* Between two days a vector of rows waits only for months.
ReadInv ==
  /\ dateArr \in Seq(Date) /\ rows \in [DOMAIN dateArr -> Nat] /\ reso \in Nat \ {0}
  /\ day \in Nat \ {0}
  /\ out \in Seq(Seq(Rows)) /\ month \in Seq(Rows)
  /\ reso <= Day => month = <<>>

\* names that keep what is known of all sequences out of the provers' sight
Cat(x, y)  == x \o y
Over(x, E) == x \in Seq(E)

LEMMA CatOver ==
  ASSUME NEW E, NEW x \in Seq(E), NEW y \in Seq(E), NEW z \in Seq(E)
  PROVE  Over(Cat(x, y), E) /\ Cat(Cat(x, y), z) = Cat(x, Cat(y, z))
  BY ConcatProperties, ConcatAssociative DEF Over, Cat

LEMMA Regroup ==
  ASSUME NEW E, NEW f, NEW p, NEW k, NEW r, Over(f, E), Over(p, E), Over(k, E), Over(r, E)
  PROVE  Cat(Cat(f, p), Cat(k, r)) = Cat(Cat(f, Cat(p, k)), r)
  <1>1. \A x, y, z : Over(x, E) /\ Over(y, E) /\ Over(z, E) =>
          Over(Cat(x, y), E) /\ Cat(Cat(x, y), z) = Cat(x, Cat(y, z))
    BY CatOver DEF Over
  <1> QED BY <1>1

LEMMA RowsJoin ==
  ASSUME NEW o, NEW p, NEW k, NEW r,
         Over(o, Seq(Rows)), Over(p, Seq(Rows)), Over(k, Rows), Over(r, Rows)
  PROVE  Cat(FlattenSeq(o \o p), Cat(k, r)) = Cat(Cat(FlattenSeq(o), Cat(FlattenSeq(p), k)), r)
  <1>1. FlattenSeq(o \o p) = Cat(FlattenSeq(o), FlattenSeq(p))
    BY FlattenConcat DEF Over, Cat
  <1>2. Over(FlattenSeq(o), Rows) /\ Over(FlattenSeq(p), Rows)
    BY FlattenAppend, EmptySeq DEF Over
  <1> QED BY <1>1, <1>2, Regroup

LEMMA ReadInit == ArInit => ReadInv /\ RowsKept
  <1> SUFFICES ASSUME ArInit PROVE ReadInv /\ RowsKept
    OBVIOUS
  <1>1. rows \in [DOMAIN dateArr -> Nat] /\ reso \in Nat \ {0}
    BY ArchiveAssumption DEF ArInit
  <1>2. out = <<>> /\ month = <<>> /\ day = 1 /\ dateArr = DateArr /\ Asked
    BY DEF ArInit, Asked
  <1>3. <<>> \in Seq(Seq(Rows)) /\ <<>> \in Seq(Rows) /\ dateArr \in Seq(Date)
    BY <1>2, EmptySeq, AllDays
  <1>4. [x \in 1 .. day - 1 |-> Read(x)] = <<>>
    BY <1>2
  <1>5. FlattenSeq(<<>>) = <<>> /\ <<>> \o <<>> = <<>>
    BY EmptySeq, ConcatEmptySeq DEF FlattenSeq
  <1>6. RowsKept
    BY <1>2, <1>4, <1>5 DEF RowsKept
  <1> QED BY <1>1, <1>2, <1>3, <1>6 DEF ReadInv

\* What a day adds to the points and to the vector, as the code does it.
Printed == IF Flush(day) THEN Points(month) ELSE <<>>
Kept    == IF Flush(day) THEN <<>> ELSE month

LEMMA ReadStep ==
  ASSUME ReadInv, ReadPrintData
  PROVE  /\ day \in 1 .. Len(dateArr) /\ day' = day + 1 /\ rows' = rows /\ reso' = reso
         /\ dateArr' = dateArr /\ lastMonth' = dateArr[day].m
         /\ reso <= Day => out' = (out \o Printed) \o Points(Read(day)) /\ month' = Kept
         /\ reso > Day => out' = out \o Printed /\ month' = Kept \o Read(day)
         /\ reso \in Nat \ {0} /\ Day \in Nat /\ rows[day] \in Nat
         /\ \A x \in 1 .. day : Read(x) \in Seq(Rows)
         /\ Printed \in Seq(Seq(Rows)) /\ Kept \in Seq(Rows)
         /\ FlattenSeq(Printed) \o Kept = month
         /\ reso <= Day => Printed = <<>> /\ Kept = <<>>
  <1>1. DOMAIN dateArr = 1 .. Len(dateArr) /\ Len(dateArr) \in Nat
    BY LenProperties DEF ReadInv
  <1>2. /\ day \in 1 .. Len(dateArr) /\ day' = day + 1 /\ rows' = rows /\ reso' = reso
        /\ dateArr' = dateArr /\ lastMonth' = dateArr[day].m
        /\ reso <= Day => out' = (out \o Printed) \o Points(Read(day)) /\ month' = Kept
        /\ reso > Day => out' = out \o Printed /\ month' = Kept \o Read(day)
    <2>1. reso \in Nat /\ Day \in Nat /\ (reso > Day => ~(reso <= Day))
      BY ArchiveAssumption DEF ReadInv
    <2>2. /\ day \in DOMAIN dateArr /\ day' = day + 1 /\ rows' = rows /\ reso' = reso
          /\ dateArr' = dateArr /\ lastMonth' = dateArr[day].m
      BY DEF ReadPrintData
    <2>3. IF reso <= Day
          THEN out' = out \o Printed \o Points(Read(day)) /\ month' = Kept
          ELSE out' = out \o Printed /\ month' = Kept \o Read(day)
      BY Zenon DEF ReadPrintData, Printed, Kept
    <2> QED BY <1>1, <2>1, <2>2, <2>3
  <1>3. reso \in Nat \ {0} /\ Day \in Nat /\ rows[day] \in Nat
    BY <1>1, <1>2, ArchiveAssumption DEF ReadInv
  <1>4. ASSUME NEW x \in 1 .. day PROVE Read(x) \in Seq(Rows)
    <2>1. x \in Nat /\ rows[x] \in Nat
      BY <1>1, <1>2 DEF ReadInv
    <2>2. Read(x) \in [1 .. rows[x] -> Rows]
      BY <2>1 DEF Read, Rows
    <2> QED BY <2>1, <2>2, SeqDef
  <1>5. /\ month \in Seq(Rows) /\ Points(month) \in Seq(Seq(Rows)) /\ FlattenSeq(Points(month)) = month
        /\ <<>> \in Seq(Seq(Rows)) /\ <<>> \in Seq(Rows) /\ FlattenSeq(<<>>) = <<>>
    BY <1>3, PointsAll, EmptySeq DEF ReadInv, FlattenSeq
  <1>6. Printed \in Seq(Seq(Rows)) /\ Kept \in Seq(Rows) /\ FlattenSeq(Printed) \o Kept = month
    BY <1>5, ConcatEmptySeq DEF Printed, Kept
  <1>7. reso <= Day => Printed = <<>> /\ Kept = <<>>
    <2>1. reso <= Day => month = <<>> /\ Points(month) = <<>>
      BY DEF ReadInv, Points
    <2> QED BY <2>1 DEF Printed, Kept
  <1> QED BY <1>2, <1>3, <1>4, <1>6, <1>7

LEMMA ReadNext ==
  ASSUME ReadInv, RowsKept, [ReadPrintData]_arVars
  PROVE  ReadInv' /\ RowsKept'
  <1>1. CASE UNCHANGED arVars
    BY <1>1 DEF ReadInv, RowsKept, Read, arVars
  <1>2. CASE ReadPrintData
    <2> DEFINE read == Read(day)
               before == [x \in 1 .. day - 1 |-> Read(x)]
               after == [x \in 1 .. day |-> Read(x)]
    <2>1. /\ day \in 1 .. Len(dateArr) /\ day' = day + 1 /\ rows' = rows /\ reso' = reso
          /\ dateArr' = dateArr /\ lastMonth' = dateArr[day].m
          /\ reso <= Day => out' = (out \o Printed) \o Points(read) /\ month' = Kept
          /\ reso > Day => out' = out \o Printed /\ month' = Kept \o read
          /\ reso \in Nat \ {0} /\ Day \in Nat /\ rows[day] \in Nat
          /\ \A x \in 1 .. day : Read(x) \in Seq(Rows)
          /\ Printed \in Seq(Seq(Rows)) /\ Kept \in Seq(Rows)
          /\ FlattenSeq(Printed) \o Kept = month
          /\ reso <= Day => Printed = <<>> /\ Kept = <<>>
      BY <1>2, ReadStep
    <2>2. day \in Nat \ {0} /\ out \in Seq(Seq(Rows)) /\ month \in Seq(Rows)
      BY DEF ReadInv
    <2>3. read \in Seq(Rows) /\ Points(read) \in Seq(Seq(Rows)) /\ FlattenSeq(Points(read)) = read
      <3>1. read \in Seq(Rows)
        BY <2>1, <2>2
      <3> QED BY <2>1, <3>1, PointsAll
    <2>4. before \in Seq(Seq(Rows)) /\ after = Append(before, read)
      <3>1. before \in [1 .. day - 1 -> Seq(Rows)] /\ day - 1 \in Nat
        BY <2>1, <2>2
      <3>2. before \in Seq(Seq(Rows)) /\ Len(before) = day - 1
        BY <3>1, SeqDef, LenProperties
      <3>3. after \in [1 .. day -> Seq(Rows)] /\ \A x \in 1 .. day : after[x] = Read(x)
        BY <2>1
      <3>4. after \in Seq(Seq(Rows)) /\ Len(after) = day
        BY <2>2, <3>3, SeqDef, LenProperties
      <3>5. /\ Append(before, read) \in Seq(Seq(Rows)) /\ Len(Append(before, read)) = day
            /\ \A x \in 1 .. day - 1 : Append(before, read)[x] = before[x]
            /\ Append(before, read)[day] = read
        BY <2>2, <2>3, <3>2, AppendProperties
      <3>6. \A x \in 1 .. day - 1 : before[x] = Read(x)
        OBVIOUS
      <3> DEFINE a == Append(before, read)
      <3> HIDE DEF a, before, after
      <3>7. \A x \in 1 .. Len(after) : after[x] = a[x]
        BY <2>2, <3>3, <3>4, <3>5, <3>6 DEF a
      <3>8. after = a
        BY <3>4, <3>5, <3>7, SeqEqual DEF a
      <3> QED BY <3>2, <3>8 DEF a
    <2>5. [x \in 1 .. day - 1 |-> Read(x)]' = after
      BY <2>1, <2>2 DEF Read
    <2>6. FlattenSeq(after) = FlattenSeq(before) \o read
      BY <2>3, <2>4, FlattenAppend
    <2>7. FlattenSeq(out) \o month = FlattenSeq(before)
      BY DEF RowsKept
    <2> HIDE DEF read, before, after
    <2>8. out' \in Seq(Seq(Rows)) /\ month' \in Seq(Rows) /\ (reso <= Day => month' = <<>>)
      <3>1. /\ out \o Printed \in Seq(Seq(Rows))
            /\ (out \o Printed) \o Points(read) \in Seq(Seq(Rows))
        <4> DEFINE X == Seq(Rows)
        <4>1. out \in Seq(X) /\ Printed \in Seq(X) /\ Points(read) \in Seq(X)
          BY <2>1, <2>2, <2>3
        <4> HIDE DEF X
        <4>2. out \o Printed \in Seq(X)
          BY <4>1, ConcatProperties
        <4>3. (out \o Printed) \o Points(read) \in Seq(X)
          BY <4>1, <4>2, ConcatProperties
        <4> QED BY <4>2, <4>3 DEF X
      <3>2. Kept \o read \in Seq(Rows)
        BY <2>1, <2>3, ConcatProperties
      <3>3. reso > Day \/ reso <= Day
        BY <2>1
      <3> QED BY <2>1, <3>1, <3>2, <3>3
    <2>9. ReadInv'
      <3>1. /\ dateArr \in Seq(Date) /\ rows \in [DOMAIN dateArr -> Nat] /\ dateArr' = dateArr
            /\ rows' = rows /\ reso' = reso /\ day' \in Nat \ {0} /\ reso \in Nat \ {0}
        BY <2>1, <2>2 DEF ReadInv
      <3> QED BY <2>8, <3>1 DEF ReadInv
    <2>10. FlattenSeq(out') \o month' = FlattenSeq(before) \o read
      <3> DEFINE F == FlattenSeq(out)
                 P == FlattenSeq(Printed)
                 K == Kept
      <3>1. F \in Seq(Rows) /\ P \in Seq(Rows) /\ K \in Seq(Rows) /\ read \in Seq(Rows) /\ P \o K = month
        BY <2>1, <2>2, <2>3, FlattenAppend, EmptySeq
      <3>2. FlattenSeq(out \o Printed) = F \o P /\ out \o Printed \in Seq(Seq(Rows))
        BY <2>1, <2>2, FlattenConcat, ConcatProperties
      <3>3. CASE reso > Day
        <4>1. FlattenSeq(out') \o month' = FlattenSeq(out \o Printed) \o (Kept \o read)
          BY <2>1, <3>3
        <4>2. /\ Over(out, Seq(Rows)) /\ Over(Printed, Seq(Rows))
              /\ Over(Kept, Rows) /\ Over(read, Rows)
          BY <2>1, <2>2, <2>3 DEF Over
        <4>3. Cat(FlattenSeq(out \o Printed), Cat(Kept, read))
                = Cat(Cat(FlattenSeq(out), Cat(FlattenSeq(Printed), Kept)), read)
          BY <4>2, RowsJoin
        <4>4. FlattenSeq(out \o Printed) \o (Kept \o read)
                = (FlattenSeq(out) \o (FlattenSeq(Printed) \o Kept)) \o read
          BY <4>3 DEF Cat
        <4> QED BY <2>1, <2>7, <4>1, <4>4
      <3>4. CASE reso <= Day
        <4>1. out' = (out \o Printed) \o Points(read) /\ month' = <<>> /\ month = <<>> /\ Printed = <<>>
          BY <2>1, <3>4 DEF ReadInv
        <4>2. out \o Printed = out
          BY <2>2, <4>1, ConcatEmptySeq
        <4>3. FlattenSeq(out') = F \o read
          <5>1. FlattenSeq(out \o Points(read)) = FlattenSeq(out) \o FlattenSeq(Points(read))
            BY <2>2, <2>3, FlattenConcat
          <5> QED BY <2>3, <4>1, <4>2, <5>1
        <4>4. F = FlattenSeq(before)
          BY <2>7, <3>1, <4>1, ConcatEmptySeq
        <4> HIDE DEF F
        <4>5. (F \o read) \o <<>> = F \o read
          BY <3>1, ConcatProperties, ConcatEmptySeq
        <4> QED BY <4>1, <4>3, <4>4, <4>5
      <3>5. reso > Day \/ reso <= Day
        BY <2>1
      <3> QED BY <3>3, <3>4, <3>5
    <2>11. RowsKept'
      BY <2>5, <2>6, <2>10 DEF RowsKept
    <2> QED BY <2>9, <2>11
  <1> QED BY <1>1, <1>2

\* No row that was read is lost, printed twice or out of order, for all ranges,
\* tables and resolutions: what vectorPrint leaves for the next point and what
\* waits for the month's end is all there is between the rows and the page.
THEOREM AllRowsKept == ArSpec => []RowsKept
  <1>1. ReadInv /\ RowsKept /\ [ReadPrintData]_arVars => ReadInv' /\ RowsKept'
    BY ReadNext
  <1> QED BY <1>1, ReadInit, PTL DEF ArSpec

-----------------------------------------------------------------------------
(* The periods of the points                                               *)

MonthOf(x) == <<dateArr[x].m, dateArr[x].y>>

Earlier(x, z) ==
  dateArr[x].y < dateArr[z].y \/ (dateArr[x].y = dateArr[z].y /\ dateArr[x].m < dateArr[z].m)

\* a point of the first n days that is of one period
One(p, n) ==
  /\ p # <<>>
  /\ \A j \in DOMAIN p :
       /\ p[j][1] \in 1 .. n /\ MonthOf(p[j][1]) = MonthOf(p[1][1])
       /\ reso <= Day => p[j][1] = p[1][1]

\* The vector is of the month of the day read last, and what is printed of months
\* is of earlier ones until the last day is read.
PeriodInv ==
  /\ Chain(dateArr, Follows)
  /\ day - 1 <= Len(dateArr) /\ (day > 1 => lastMonth = dateArr[day - 1].m)
  /\ \A k \in DOMAIN out : One(out[k], day - 1)
  /\ \A j \in DOMAIN month : month[j][1] \in 1 .. day - 1 /\ MonthOf(month[j][1]) = MonthOf(day - 1)
  /\ reso > Day =>
       /\ \A k \in 2 .. Len(out) : MonthOf(out[k - 1][1][1]) # MonthOf(out[k][1][1])
       /\ out # <<>> /\ day <= Len(dateArr) => Earlier(out[Len(out)][1][1], day - 1)

LEMMA PeriodInit == ArInit => PeriodInv
  <1> SUFFICES ASSUME ArInit PROVE PeriodInv
    OBVIOUS
  <1>1. out = <<>> /\ month = <<>> /\ day = 1 /\ dateArr = DateArr /\ Asked
    BY DEF ArInit, Asked
  <1>2. Chain(dateArr, Follows) /\ Len(dateArr) > 0 /\ Len(dateArr) \in Nat
    BY <1>1, AllDays, LenProperties
  <1>3. DOMAIN <<>> = {} /\ Len(<<>>) = 0
    BY EmptySeq
  <1> QED BY <1>1, <1>2, <1>3 DEF PeriodInv

\* Above a day's resolution all the rows of the vector are one point.
LEMMA PointsMonth ==
  ASSUME NEW E, NEW v \in Seq(E), reso \in Nat, Day \in Nat, reso > Day, v # <<>>
  PROVE  Points(v) = <<v>>
  <1>1. Len(v) \in Nat \ {0} /\ ~(reso < Day)
    BY EmptySeq, LenProperties
  <1>2. (Len(v) + Len(v) - 1) \div Len(v) = 1
    BY <1>1
  <1>3. Points(v) = [k \in 1 .. 1 |->
           SubSeq(v, (k - 1) * Len(v) + 1, IF k = 1 THEN Len(v) ELSE k * Len(v))]
    BY <1>1, <1>2 DEF Points
  <1>4. SubSeq(v, (1 - 1) * Len(v) + 1, Len(v)) = v
    <2>1. (1 - 1) * Len(v) + 1 = 1
      BY <1>1
    <2> QED BY <2>1, SubSeqFull
  <1> QED BY <1>3, <1>4

\* The month goes on in its year, or a later month begins.
LEMMA NextMonth ==
  ASSUME ReadInv, Chain(dateArr, Follows), NEW x \in 2 .. Len(dateArr)
  PROVE  /\ dateArr[x].m = dateArr[x - 1].m => MonthOf(x) = MonthOf(x - 1)
         /\ dateArr[x].m # dateArr[x - 1].m => Earlier(x - 1, x)
         /\ dateArr[x].m \in Nat /\ dateArr[x].y \in Nat
         /\ dateArr[x - 1].m \in Nat /\ dateArr[x - 1].y \in Nat
  <1>1. <<dateArr[x - 1], dateArr[x]>> \in Follows
    BY DEF Chain
  <1>2. dateArr[x] \in Date /\ dateArr[x - 1] \in Date
    BY <1>1 DEF Follows
  <1>3. \/ dateArr[x].y = dateArr[x - 1].y /\ dateArr[x].m = dateArr[x - 1].m
        \/ dateArr[x].y = dateArr[x - 1].y /\ dateArr[x].m = dateArr[x - 1].m + 1
        \/ dateArr[x].y = dateArr[x - 1].y + 1 /\ dateArr[x].m = 1 /\ dateArr[x - 1].m = Len(Length)
    BY <1>1 DEF Follows
  <1>4. Len(Length) \in Nat /\ Len(Length) >= 2
    BY LengthType
  <1> QED BY <1>2, <1>3, <1>4, SMTT(30) DEF MonthOf, Earlier, Date

LEMMA PeriodNext ==
  ASSUME ReadInv, PeriodInv, ReadPrintData, ReadInv'
  PROVE  PeriodInv'
  <1>1. /\ day \in 1 .. Len(dateArr) /\ day' = day + 1 /\ rows' = rows /\ reso' = reso
        /\ dateArr' = dateArr /\ lastMonth' = dateArr[day].m
        /\ reso <= Day => out' = (out \o Printed) \o Points(Read(day)) /\ month' = Kept
        /\ reso > Day => out' = out \o Printed /\ month' = Kept \o Read(day)
        /\ reso \in Nat \ {0} /\ Day \in Nat /\ rows[day] \in Nat
        /\ reso <= Day => Printed = <<>> /\ Kept = <<>>
    BY ReadStep
  <1>2. Read(day) \in Seq(Rows) /\ Printed \in Seq(Seq(Rows)) /\ Kept \in Seq(Rows)
    <2>1. day \in 1 .. day
      BY <1>1
    <2> QED BY <2>1, ReadStep
  <1>3. /\ out \in Seq(Seq(Rows)) /\ month \in Seq(Rows) /\ day \in Nat \ {0}
        /\ Len(dateArr) \in Nat /\ DOMAIN out = 1 .. Len(out) /\ Len(out) \in Nat
        /\ DOMAIN month = 1 .. Len(month) /\ Len(month) \in Nat
    BY LenProperties DEF ReadInv
  <1>4. ASSUME NEW k \in DOMAIN out PROVE One(out[k], day)
    <2>1. One(out[k], day - 1)
      BY DEF PeriodInv
    <2> QED BY <1>3, <2>1 DEF One
  <1>5. /\ Len(Read(day)) = rows[day] /\ DOMAIN Read(day) = 1 .. rows[day]
        /\ \A k \in 1 .. rows[day] : Read(day)[k][1] = day
    BY <1>1, <1>2, LenProperties DEF Read
  <1>6. day > 1 => /\ lastMonth = dateArr[day - 1].m
                   /\ dateArr[day].m = lastMonth => MonthOf(day) = MonthOf(day - 1)
                   /\ dateArr[day].m # lastMonth => Earlier(day - 1, day)
                   /\ dateArr[day].m \in Nat /\ dateArr[day].y \in Nat
                   /\ dateArr[day - 1].m \in Nat /\ dateArr[day - 1].y \in Nat
    <2>1. day > 1 => day \in 2 .. Len(dateArr)
      BY <1>1
    <2>2. Chain(dateArr, Follows) /\ (day > 1 => lastMonth = dateArr[day - 1].m)
      BY DEF PeriodInv
    <2> QED BY <2>1, <2>2, NextMonth
  <1>7. /\ Chain(dateArr, Follows)' /\ (day - 1 <= Len(dateArr))'
        /\ (day > 1 => lastMonth = dateArr[day - 1].m)'
    <2>1. Chain(dateArr, Follows)'
      BY <1>1 DEF Chain, Follows, PeriodInv
    <2> QED BY <1>1, <1>3, <2>1
  <1>8. CASE reso <= Day
    <2>1. out' = out \o Points(Read(day)) /\ month' = <<>> /\ Points(Read(day)) \in Seq(Seq(Rows))
      <3>1. out \o <<>> = out
        BY <1>3, ConcatEmptySeq
      <3> QED BY <1>1, <1>2, <1>8, <3>1, PointsAll
    <2>2. ASSUME NEW k \in DOMAIN Points(Read(day)) PROVE One(Points(Read(day))[k], day)
      <3> DEFINE p == Points(Read(day))[k]
      <3>1. p # <<>> /\ \A j \in DOMAIN p : \E i \in DOMAIN Read(day) : p[j] = Read(day)[i]
        BY <1>1, <1>2, PointsAll
      <3>2. p \in Seq(Rows) /\ Len(p) \in Nat \ {0} /\ 1 \in DOMAIN p
        <4>1. DOMAIN Points(Read(day)) = 1 .. Len(Points(Read(day)))
          BY <2>1, LenProperties
        <4>2. p \in Seq(Rows)
          BY <2>1, <4>1, ElementOfSeq
        <4> HIDE DEF p
        <4>3. Len(p) \in Nat \ {0} /\ DOMAIN p = 1 .. Len(p)
          BY <3>1, <4>2, EmptySeq, LenProperties
        <4> QED BY <4>2, <4>3
      <3> HIDE DEF p
      <3>3. \A j \in DOMAIN p : p[j][1] = day
        BY <1>5, <3>1
      <3>4. One(p, day)
        BY <1>3, <3>1, <3>2, <3>3 DEF One
      <3> QED BY <3>4 DEF p
    <2>3. ASSUME NEW k \in DOMAIN out' PROVE One(out'[k], day)
      <3> DEFINE Q == Points(Read(day))
      <3>1. /\ Len(Q) \in Nat /\ DOMAIN Q = 1 .. Len(Q)
            /\ DOMAIN out' = 1 .. Len(out) + Len(Q)
            /\ \A i \in 1 .. Len(out) + Len(Q) : out'[i] = IF i <= Len(out) THEN out[i] ELSE Q[i - Len(out)]
        <4>1. Q \in Seq(Seq(Rows))
          BY <2>1
        <4> HIDE DEF Q
        <4> QED BY <1>3, <2>1, <4>1, ConcatProperties, LenProperties DEF Q
      <3> HIDE DEF Q
      <3>2. CASE k <= Len(out)
        <4>1. k \in DOMAIN out /\ out'[k] = out[k]
          BY <1>3, <3>1, <3>2
        <4> QED BY <1>4, <4>1
      <3>3. CASE ~(k <= Len(out))
        <4>1. k - Len(out) \in DOMAIN Q /\ out'[k] = Q[k - Len(out)]
          BY <1>3, <3>1, <3>3
        <4> QED BY <2>2, <4>1 DEF Q
      <3> QED BY <3>2, <3>3
    <2>4. (\A k \in DOMAIN out : One(out[k], day - 1))'
      BY <1>1, <1>3, <2>3 DEF One, MonthOf
    <2>5. ~(reso > Day) /\ DOMAIN month' = {}
      <3>1. DOMAIN <<>> = {}
        BY EmptySeq
      <3> QED BY <1>1, <1>8, <2>1, <3>1
    <2> QED BY <1>1, <1>7, <2>4, <2>5 DEF PeriodInv
  <1>9. CASE reso > Day
    <2>1. ASSUME NEW j \in DOMAIN month
          PROVE  day > 1 /\ month[j][1] \in 1 .. day - 1 /\ MonthOf(month[j][1]) = MonthOf(day - 1)
      <3>1. month[j][1] \in 1 .. day - 1 /\ MonthOf(month[j][1]) = MonthOf(day - 1)
        BY DEF PeriodInv
      <3> QED BY <1>3, <3>1
    <2>2. ASSUME NEW j \in DOMAIN month'
          PROVE  month'[j][1] \in 1 .. day /\ MonthOf(month'[j][1]) = MonthOf(day)
      <3> DEFINE R == Read(day)
      <3>1. /\ month' = Kept \o R /\ R \in Seq(Rows) /\ Kept \in Seq(Rows)
            /\ Len(R) = rows[day] /\ \A k \in 1 .. rows[day] : R[k][1] = day
        BY <1>1, <1>2, <1>5, <1>9
      <3> HIDE DEF R
      <3>2. /\ Len(Kept) \in Nat /\ Len(R) \in Nat /\ j \in 1 .. Len(Kept) + Len(R)
            /\ month'[j] = IF j <= Len(Kept) THEN Kept[j] ELSE R[j - Len(Kept)]
        <4>1. month' \in Seq(Rows) /\ Len(month') = Len(Kept) + Len(R)
          BY <3>1, ConcatProperties
        <4>2. Len(Kept) \in Nat /\ Len(R) \in Nat /\ j \in 1 .. Len(Kept) + Len(R)
          BY <3>1, <4>1, LenProperties
        <4> QED BY <3>1, <4>2, ConcatProperties
      <3>3. CASE j <= Len(Kept)
        <4>1. Kept # <<>>
          BY <3>2, <3>3, EmptySeq
        <4>2. Kept = month /\ ~Flush(day)
          BY <4>1 DEF Kept
        <4>3. j \in DOMAIN month /\ month'[j] = month[j]
          BY <1>3, <3>2, <3>3, <4>2
        <4>4. day > 1 /\ month[j][1] \in 1 .. day - 1 /\ MonthOf(month[j][1]) = MonthOf(day - 1)
          BY <2>1, <4>3
        <4>5. MonthOf(day) = MonthOf(day - 1)
          BY <1>6, <4>2, <4>4 DEF Flush
        <4> QED BY <1>3, <4>3, <4>4, <4>5
      <3>4. CASE ~(j <= Len(Kept))
        <4>1. j - Len(Kept) \in 1 .. rows[day] /\ month'[j] = R[j - Len(Kept)]
          BY <3>1, <3>2, <3>4
        <4>2. month'[j][1] = day
          BY <3>1, <4>1
        <4> QED BY <1>3, <4>2
      <3> QED BY <3>3, <3>4
    <2>3. (\A j \in DOMAIN month : month[j][1] \in 1 .. day - 1 /\ MonthOf(month[j][1]) = MonthOf(day - 1))'
      <3>1. day' - 1 = day
        BY <1>1, <1>3
      <3> QED BY <1>1, <2>2, <3>1 DEF MonthOf
    <2>4. ASSUME out # <<>>
          PROVE  /\ day > 1 /\ out[Len(out)][1][1] \in 1 .. day - 1
                 /\ Earlier(out[Len(out)][1][1], day - 1)
      <3>1. Len(out) \in DOMAIN out /\ Len(out) > 0
        BY <1>3, <2>4, EmptySeq
      <3> DEFINE p == out[Len(out)]
      <3>2. One(p, day - 1)
        BY <3>1 DEF PeriodInv
      <3>3. p \in Seq(Rows)
        BY <1>3, <3>1, ElementOfSeq
      <3> HIDE DEF p
      <3>4. 1 \in DOMAIN p
        BY <3>2, <3>3, EmptySeq, LenProperties DEF One
      <3>5. p[1][1] \in 1 .. day - 1
        BY <3>2, <3>4 DEF One
      <3>6. Earlier(p[1][1], day - 1)
        BY <1>1, <1>3, <1>9, <2>4 DEF PeriodInv, p
      <3> QED BY <1>3, <3>5, <3>6 DEF p
    <2>5. CASE out' = out
      <3>1. (\A k \in DOMAIN out : One(out[k], day - 1))'
        <4>1. \A k \in DOMAIN out' : One(out'[k], day)
          BY <1>4, <2>5
        <4>2. day' - 1 = day /\ reso' = reso /\ dateArr' = dateArr
          BY <1>1, <1>3
        <4> QED BY <4>1, <4>2 DEF One, MonthOf
      <3>2. (\A k \in 2 .. Len(out) : MonthOf(out[k - 1][1][1]) # MonthOf(out[k][1][1]))'
        BY <1>1, <1>9, <2>5 DEF PeriodInv, MonthOf
      <3>3. (out # <<>> /\ day <= Len(dateArr) => Earlier(out[Len(out)][1][1], day - 1))'
        <4>1. ASSUME out # <<>> PROVE Earlier(out[Len(out)][1][1], day)
          <5> DEFINE x == out[Len(out)][1][1]
          <5>1. day > 1 /\ x \in 1 .. day - 1 /\ Earlier(x, day - 1)
            BY <2>4, <4>1
          <5> HIDE DEF x
          <5>2. dateArr[x].m \in Nat /\ dateArr[x].y \in Nat
            <6>1. dateArr[x] \in Date
              BY <1>1, <1>3, <5>1, ElementOfSeq DEF ReadInv
            <6> QED BY <6>1 DEF Date
          <5>3. MonthOf(day) = MonthOf(day - 1) \/ Earlier(day - 1, day)
            BY <1>6, <5>1
          <5>4. Earlier(x, day)
            BY <1>6, <5>1, <5>2, <5>3 DEF Earlier, MonthOf
          <5> QED BY <5>4 DEF x
        <4>2. day' - 1 = day
          BY <1>1, <1>3
        <4> QED BY <1>1, <2>5, <4>1, <4>2 DEF Earlier
      <3> QED BY <1>7, <2>3, <3>1, <3>2, <3>3 DEF PeriodInv
    <2>6. ASSUME month # <<>>, Flush(day), out' = Append(out, month)
          PROVE  PeriodInv'
      <3>1. /\ Len(month) \in Nat \ {0} /\ 1 \in DOMAIN month
            /\ day > 1 /\ month[1][1] \in 1 .. day - 1 /\ MonthOf(month[1][1]) = MonthOf(day - 1)
        <4>1. Len(month) \in Nat \ {0} /\ 1 \in DOMAIN month
          BY <1>3, <2>6, EmptySeq
        <4> QED BY <2>1, <4>1
      <3>2. One(month, day)
        BY <1>1, <1>3, <1>9, <2>1, <2>6, <3>1 DEF One
      <3>3. /\ DOMAIN out' = 1 .. Len(out) + 1 /\ Len(out') = Len(out) + 1
            /\ \A k \in 1 .. Len(out) : out'[k] = out[k]
            /\ out'[Len(out) + 1] = month
        BY <1>3, <2>6, AppendProperties, LenProperties
      <3>4. ASSUME NEW k \in DOMAIN out' PROVE One(out'[k], day)
        <4>1. k \in DOMAIN out \/ k = Len(out) + 1
          BY <1>3, <3>3
        <4> QED BY <1>3, <1>4, <3>2, <3>3, <4>1
      <3>5. (\A k \in DOMAIN out : One(out[k], day - 1))'
        BY <1>1, <1>3, <3>4 DEF One, MonthOf
      <3>6. ASSUME NEW k \in 2 .. Len(out) + 1
            PROVE  MonthOf(out'[k - 1][1][1]) # MonthOf(out'[k][1][1])
        <4>1. CASE k <= Len(out)
          <5>1. k \in 2 .. Len(out) /\ out'[k] = out[k] /\ out'[k - 1] = out[k - 1]
            BY <1>3, <3>3, <4>1
          <5> QED BY <1>9, <5>1 DEF PeriodInv
        <4>2. CASE k = Len(out) + 1
          <5>1. out # <<>> /\ out'[k] = month /\ out'[k - 1] = out[Len(out)]
            BY <1>3, <3>3, <4>2, EmptySeq
          <5> DEFINE x == out[Len(out)][1][1]
          <5>2. Earlier(x, day - 1) /\ x \in 1 .. day - 1
            BY <2>4, <5>1
          <5> HIDE DEF x
          <5>3. dateArr[x].m \in Nat /\ dateArr[x].y \in Nat
            <6>1. dateArr[x] \in Date
              BY <1>1, <1>3, <5>2, ElementOfSeq DEF ReadInv
            <6> QED BY <6>1 DEF Date
          <5>4. MonthOf(x) # MonthOf(day - 1)
            BY <1>6, <3>1, <5>2, <5>3 DEF Earlier, MonthOf
          <5> QED BY <3>1, <5>1, <5>4 DEF x
        <4> QED BY <1>3, <4>1, <4>2
      <3>7. (\A k \in 2 .. Len(out) : MonthOf(out[k - 1][1][1]) # MonthOf(out[k][1][1]))'
        BY <1>1, <3>3, <3>6 DEF MonthOf
      <3>8. (out # <<>> /\ day <= Len(dateArr) => Earlier(out[Len(out)][1][1], day - 1))'
        <4>1. ASSUME day + 1 <= Len(dateArr) PROVE Earlier(month[1][1], day)
          <5>1. dateArr[day].m # lastMonth
            BY <1>3, <2>6, <4>1 DEF Flush
          <5>2. Earlier(day - 1, day)
            BY <1>6, <3>1, <5>1
          <5> QED BY <3>1, <5>2 DEF Earlier, MonthOf
        <4>2. day' - 1 = day /\ out'[Len(out')] = month
          BY <1>1, <1>3, <3>3
        <4> QED BY <1>1, <1>3, <4>1, <4>2 DEF Earlier
      <3> QED BY <1>7, <2>3, <3>5, <3>7, <3>8 DEF PeriodInv
    <2>7. out' = out \/ (month # <<>> /\ Flush(day) /\ out' = Append(out, month))
      <3>1. out' = out \o Printed /\ out \o <<>> = out
        BY <1>1, <1>3, <1>9, ConcatEmptySeq
      <3>2. CASE Flush(day) /\ month # <<>>
        <4>1. Printed = <<month>>
          BY <1>1, <1>3, <1>9, <3>2, PointsMonth DEF Printed
        <4>2. Append(out, month) = out \o <<month>>
          BY <1>3, AppendIsConcat
        <4> QED BY <3>1, <3>2, <4>1, <4>2
      <3>3. CASE ~(Flush(day) /\ month # <<>>)
        <4>1. Printed = <<>>
          BY <3>3 DEF Printed, Points
        <4> QED BY <3>1, <4>1
      <3> QED BY <3>2, <3>3
    <2> QED BY <2>5, <2>6, <2>7
  <1> QED BY <1>1, <1>8, <1>9

LEMMA PeriodsHold == ReadInv /\ PeriodInv => OnePeriod
  <1> SUFFICES ASSUME ReadInv, PeriodInv, NEW k \in DOMAIN out
               PROVE  /\ out[k] # <<>>
                      /\ \A j \in DOMAIN out[k] :
                           /\ MonthOf(out[k][j][1]) = MonthOf(out[k][1][1])
                           /\ reso <= Day => dateArr[out[k][j][1]] = dateArr[out[k][1][1]]
                      /\ reso > Day /\ k > 1 => MonthOf(out[k - 1][1][1]) # MonthOf(out[k][1][1])
    BY DEF OnePeriod, MonthOf
  <1>1. One(out[k], day - 1)
    BY DEF PeriodInv
  <1>2. k > 1 => k \in 2 .. Len(out)
    BY LenProperties DEF ReadInv
  <1>3. reso > Day /\ k > 1 => MonthOf(out[k - 1][1][1]) # MonthOf(out[k][1][1])
    BY <1>2 DEF PeriodInv
  <1> QED BY <1>1, <1>3 DEF One

\* For all ranges, tables and resolutions a point is of one day, or of one month
\* and the only one of it: vectors are flushed where the period ends.
THEOREM PointsOfOnePeriod == ArSpec => []OnePeriod
  <1>1. ArInit => ReadInv /\ RowsKept /\ PeriodInv
    BY ReadInit, PeriodInit
  <1>2. ReadInv /\ RowsKept /\ PeriodInv /\ [ReadPrintData]_arVars => (ReadInv /\ RowsKept /\ PeriodInv)'
    <2> SUFFICES ASSUME ReadInv, RowsKept, PeriodInv, [ReadPrintData]_arVars
                 PROVE  ReadInv' /\ RowsKept' /\ PeriodInv'
      OBVIOUS
    <2>1. ReadInv' /\ RowsKept'
      BY ReadNext
    <2>2. CASE ReadPrintData
      BY <2>1, <2>2, PeriodNext
    <2>3. CASE UNCHANGED arVars
      BY <2>1, <2>3 DEF PeriodInv, One, MonthOf, Earlier, Chain, Follows, arVars
    <2> QED BY <2>1, <2>2, <2>3
  <1> QED BY <1>1, <1>2, PeriodsHold, PTL DEF ArSpec

=============================================================================
