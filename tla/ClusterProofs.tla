---------------------------- MODULE ClusterProofs ----------------------------
(***************************************************************************)
(* The two halves of cluster.c. What c_means stores of a cluster is of the *)
(* steps it has given to it, and the period calcPeriods stores is the mean *)
(* of the gaps between them: for all data and any number of clusters. The  *)
(* genetic search loses no cluster and gives none twice, it can always     *)
(* draw two parents, it replaces the weakest rows, and what it saves is    *)
(* what it found: for any number of clusters, any qualities and any bound  *)
(* of devices.                                                             *)
(*                                                                         *)
(* CMeans and Genetic are full of functions that are recursive over data.  *)
(* What such a function computes is proved with the least argument it      *)
(* would be wrong for (LeastNat).                                          *)
(***************************************************************************)
EXTENDS CMeans, Genetic, FiniteSetTheorems, WellFoundedInduction, TLAPS

LEMMA LeastNat ==
  ASSUME NEW S, S \subseteq Nat, S # {}
  PROVE  \E m \in S : \A o \in S : m <= o
  <1>1. PICK m \in S : \A o \in S : ~(<<o, m>> \in OpToRel(<, Nat))
    BY NatLessThanWellFounded, WFMin
  <1>2. \A o \in S : m <= o
    <2> SUFFICES ASSUME NEW o \in S, o < m PROVE FALSE
      OBVIOUS
    <2>1. <<o, m>> \in Nat \X Nat /\ <<o, m>>[1] < <<o, m>>[2]
      OBVIOUS
    <2>2. <<o, m>> \in OpToRel(<, Nat)
      BY <2>1, Zenon DEF OpToRel
    <2> QED BY <1>1, <2>2
  <1> QED BY <1>2

-----------------------------------------------------------------------------
(* The clusters of c_means                                                 *)

\* the counts up to step i
Counts(f, k, g, m) == g = [i \in 0 .. m |-> IF i = 0 THEN 0 ELSE g[i - 1] + (IF f[i] = k THEN 1 ELSE 0)]

LEMMA CountsExist ==
  ASSUME NEW f, NEW k, NEW n \in Nat
  PROVE  \E g : Counts(f, k, g, n)
  <1> DEFINE bad == {m \in Nat : ~\E g : Counts(f, k, g, m)}
             more(i) == IF f[i] = k THEN 1 ELSE 0
  <1>1. SUFFICES ASSUME bad # {} PROVE FALSE
    OBVIOUS
  <1>2. PICK m \in bad : \A o \in bad : m <= o
    BY <1>1, LeastNat
  <1>3. CASE m = 0
    <2> DEFINE g == [i \in 0 .. 0 |-> 0]
    <2>1. Counts(f, k, g, 0)
      BY DEF Counts
    <2> QED BY <1>2, <1>3, <2>1
  <1>4. CASE m > 0
    <2>1. m - 1 \in Nat /\ m - 1 \notin bad
      <3>1. m \in Nat /\ \A o \in bad : m <= o
        BY <1>2
      <3> HIDE DEF bad
      <3> QED BY <1>4, <3>1
    <2>2. PICK h : Counts(f, k, h, m - 1)
      BY <2>1
    <2> DEFINE g == [i \in 0 .. m |-> IF i = m THEN h[m - 1] + more(m) ELSE h[i]]
    <2>3. \A i \in 0 .. m : g[i] = IF i = 0 THEN 0 ELSE g[i - 1] + more(i)
      <3> SUFFICES ASSUME NEW i \in 0 .. m PROVE g[i] = IF i = 0 THEN 0 ELSE g[i - 1] + more(i)
        OBVIOUS
      <3>1. CASE i = m
        <4>1. g[i] = h[m - 1] + more(m) /\ g[i - 1] = h[m - 1]
          BY <1>4, <3>1
        <4> HIDE DEF g, more
        <4> QED BY <1>4, <3>1, <4>1
      <3>2. CASE i # m
        <4>1. i \in 0 .. m - 1 /\ g[i] = h[i] /\ (i # 0 => g[i - 1] = h[i - 1])
          BY <3>2
        <4>2. h[i] = IF i = 0 THEN 0 ELSE h[i - 1] + more(i)
          BY <2>2, <4>1 DEF Counts
        <4> HIDE DEF g, more
        <4> QED BY <4>1, <4>2
      <3> QED BY <3>1, <3>2
    <2>4. Counts(f, k, g, m)
      BY <2>3 DEF Counts
    <2> QED BY <1>2, <2>4
  <1> QED BY <1>2, <1>3, <1>4

\* What SumOf, Size, Total and Mean compute, of the steps xs.
SizeIn(xs, f, k) ==
  LET sum[i \in 0 .. Len(xs)] == IF i = 0 THEN 0 ELSE sum[i - 1] + (IF f[i] = k THEN 1 ELSE 0)
  IN  sum[Len(xs)]
TotalIn(xs, f, k) ==
  LET sum[i \in 0 .. Len(xs)] == IF i = 0 THEN 0 ELSE sum[i - 1] + (IF f[i] = k THEN xs[i] ELSE 0)
  IN  sum[Len(xs)]
MeanIn(xs, f, k, old) ==
  IF {i \in DOMAIN xs : f[i] = k} = {} THEN old ELSE <<TotalIn(xs, f, k), SizeIn(xs, f, k)>>

\* How many steps a cluster has is a number.
LEMMA SizeNat ==
  ASSUME NEW xs, NEW f, NEW k, Len(xs) \in Nat
  PROVE  SizeIn(xs, f, k) \in Nat
  <1> DEFINE s == CHOOSE g : g = [i \in 0 .. Len(xs) |-> IF i = 0 THEN 0 ELSE g[i - 1] + (IF f[i] = k THEN 1 ELSE 0)]
  <1>1. SizeIn(xs, f, k) = s[Len(xs)]
    BY DEF SizeIn
  <1>2. Counts(f, k, s, Len(xs))
    BY CountsExist DEF Counts
  <1> HIDE DEF s
  <1>3. \A i \in 0 .. Len(xs) : s[i] = IF i = 0 THEN 0 ELSE s[i - 1] + (IF f[i] = k THEN 1 ELSE 0)
    BY <1>2 DEF Counts
  <1> DEFINE bad == {i \in 0 .. Len(xs) : s[i] \notin Nat}
  <1>4. bad = {}
    <2>1. SUFFICES ASSUME bad # {} PROVE FALSE
      OBVIOUS
    <2>2. PICK i \in bad : \A o \in bad : i <= o
      <3>1. bad \subseteq Nat
        OBVIOUS
      <3> HIDE DEF bad
      <3> QED BY <2>1, <3>1, LeastNat
    <2>3. i \in 0 .. Len(xs) /\ s[i] \notin Nat
      BY <2>2
    <2>4. i # 0 => i - 1 \in 0 .. Len(xs) /\ s[i - 1] \in Nat
      <3>1. i # 0 => i - 1 \in 0 .. Len(xs) /\ i - 1 \notin bad
        <4> HIDE DEF bad
        <4> QED BY <2>2, <2>3
      <3> QED BY <3>1
    <2> QED BY <1>3, <2>3, <2>4
  <1> QED BY <1>1, <1>4

LEMMA SizeIs == ASSUME NEW f, NEW k PROVE Size(f, k) = SizeIn(x, f, k)
  BY DEF Size, SumOf, SizeIn

LEMMA TotalIs == ASSUME NEW f, NEW k PROVE Total(f, k) = TotalIn(x, f, k)
  BY DEF Total, SumOf, TotalIn

LEMMA MeanIs == ASSUME NEW f, NEW k, NEW old PROVE Mean(f, k, old) = MeanIn(x, f, k, old)
  BY SizeIs, TotalIs DEF Mean, MeanIn, Members, Item

\* the clusters are the records of the code
Formed == c = [k \in 1 .. C |-> [mean |-> c[k].mean, N |-> c[k].N, std |-> c[k].std]]

MeansRight == \A k \in 1 .. C : c[k].mean = MeanIn(x, of, k, c[k].mean)

NoCounts == \A k \in 1 .. C : c[k].N = 0

\* The last pass starts from counts of 0, and each of its iterations leaves the
\* means of the members behind.
PassInv ==
  /\ Len(x) \in Nat /\ alfa \in 0 .. 4
  /\ alfa = 2 => Formed /\ left = 0 - 1
  /\ alfa = 3 => left \in 0 .. Iterations /\ Formed /\ NoCounts /\ (left < Iterations => MeansRight)
  /\ alfa = 4 => left \in {0 - 1, 0} /\ MeansRight /\ \A k \in 1 .. C : c[k].N = SizeIn(x, of, k)

LEMMA PassInit == CMInit => PassInv
  <1> SUFFICES ASSUME CMInit PROVE PassInv
    OBVIOUS
  <1>1. PICK m \in MinSteps .. MaxSteps : \E p \in [1 .. m -> Powers] : x = [i \in 1 .. m |-> type * p[i]]
    BY DEF CMInit
  <1>2. m \in Nat
    BY CMeansAssumption
  <1>3. Len(x) \in Nat
    BY <1>1, <1>2
  <1>4. alfa = 0
    BY DEF CMInit
  <1> QED BY <1>3, <1>4 DEF PassInv

LEMMA IterateRight ==
  ASSUME Formed, Iterate
  PROVE  Formed' /\ MeansRight' /\ \A k \in 1 .. C : c'[k].N = c[k].N
  <1> DEFINE f == Assigned([k \in Cluster |-> c[k].mean])
  <1>1. of' = f /\ c' = [k \in 1 .. C |-> [c[k] EXCEPT !.mean = Mean(f, k, c[k].mean)]] /\ x' = x
    BY DEF Iterate, Cluster
  <1> HIDE DEF f
  <1>2. \A k \in 1 .. C : c[k] = [mean |-> c[k].mean, N |-> c[k].N, std |-> c[k].std]
    BY DEF Formed
  <1>3. ASSUME NEW k \in 1 .. C
        PROVE  c'[k] = [mean |-> MeanIn(x, f, k, c[k].mean), N |-> c[k].N, std |-> c[k].std]
    <2>1. c'[k] = [c[k] EXCEPT !.mean = MeanIn(x, f, k, c[k].mean)]
      BY <1>1, MeanIs
    <2> QED BY <1>2, <2>1
  <1>4. Formed'
    BY <1>1, <1>3 DEF Formed
  <1>5. ASSUME NEW k \in 1 .. C PROVE c'[k].mean = MeanIn(x, f, k, c'[k].mean)
    <2>1. c'[k].mean = MeanIn(x, f, k, c[k].mean)
      <3> DEFINE v == MeanIn(x, f, k, c[k].mean)
      <3>1. c'[k] = [mean |-> v, N |-> c[k].N, std |-> c[k].std]
        BY <1>3
      <3> HIDE DEF v
      <3>2. c'[k].mean = v
        BY <3>1
      <3> QED BY <3>2 DEF v
    <2> QED BY <2>1 DEF MeanIn
  <1>6. MeansRight'
    BY <1>1, <1>5 DEF MeansRight
  <1>7. ASSUME NEW k \in 1 .. C PROVE c'[k].N = c[k].N
    <2> DEFINE v == MeanIn(x, f, k, c[k].mean)
    <2>1. c'[k] = [mean |-> v, N |-> c[k].N, std |-> c[k].std]
      BY <1>3
    <2> HIDE DEF v
    <2> QED BY <2>1
  <1> QED BY <1>4, <1>6, <1>7

LEMMA EigenCounts ==
  ASSUME NEW f, NEW cl, Len(x) \in Nat
  PROVE  /\ Eigen(f, cl) = [k \in 1 .. C |-> [mean |-> Eigen(f, cl)[k].mean, N |-> Eigen(f, cl)[k].N,
                                              std |-> Eigen(f, cl)[k].std]]
         /\ \A k \in 1 .. C :
              /\ Eigen(f, cl)[k].mean = cl[k].mean
              /\ cl[k].N = 0 => Eigen(f, cl)[k].N = SizeIn(x, f, k)
  <1> DEFINE deviation(k) == IF Members(f, k) = {} THEN cl[k].std
                             ELSE Std(Size(f, k), Total(f, k), SumOf(f, k, LAMBDA i : x[i] * x[i]))
             size(k) == Size(f, k)
  <1>1. Eigen(f, cl) = [k \in 1 .. C |-> [mean |-> cl[k].mean, N |-> cl[k].N + size(k), std |-> deviation(k)]]
    BY Zenon DEF Eigen, Cluster
  <1>2. \A k \in 1 .. C : size(k) \in Nat /\ size(k) = SizeIn(x, f, k)
    BY SizeIs, SizeNat
  <1> HIDE DEF deviation, size
  <1> QED BY <1>1, <1>2

LEMMA PassNext ==
  ASSUME PassInv, [CMNext]_cmVars
  PROVE  PassInv'
  <1> USE DEF Trials
  <1>1. Len(x) \in Nat /\ alfa \in 0 .. 4 /\ Iterations \in Nat \ {0}
    BY CMeansAssumption DEF PassInv
  <1>2. ASSUME UNCHANGED <<x, of, c, alfa>>, left' = left \/ (alfa = 4 /\ left' = 0)
        PROVE  PassInv'
    BY <1>1, <1>2 DEF PassInv, Formed, MeansRight, NoCounts
  <1>3. CASE UNCHANGED cmVars
    BY <1>2, <1>3 DEF cmVars
  <1>4. CASE CalcPeriods
    <2>1. alfa = Trials + 2 /\ left' = 0 /\ UNCHANGED <<type, x, of, c, alfa>>
      BY <1>4, Zenon DEF CalcPeriods
    <2> QED BY <1>2, <2>1
  <1>5. ASSUME NEW draw \in Draws, Draw(draw) PROVE PassInv'
    <2>1. alfa < 2 /\ alfa' = alfa /\ x' = x
      BY <1>5 DEF Draw
    <2> QED BY <1>1, <2>1 DEF PassInv
  <1>6. CASE LastPass
    <2>1. /\ alfa = 2 /\ alfa' = 3 /\ left' = Iterations /\ x' = x
          /\ c' = [k \in 1 .. C |-> [c[k] EXCEPT !.N = 0]]
      BY <1>6 DEF LastPass, Reset, Cluster
    <2>2. \A k \in 1 .. C : c[k] = [mean |-> c[k].mean, N |-> c[k].N, std |-> c[k].std]
      BY <2>1 DEF PassInv, Formed
    <2>3. ASSUME NEW k \in 1 .. C PROVE c'[k] = [mean |-> c[k].mean, N |-> 0, std |-> c[k].std]
      <3>1. c'[k] = [c[k] EXCEPT !.N = 0]
        BY <2>1
      <3> QED BY <2>2, <3>1
    <2>4. Formed' /\ NoCounts'
      BY <2>1, <2>3 DEF Formed, NoCounts
    <2> QED BY <1>1, <2>1, <2>4 DEF PassInv
  <1>7. CASE Iterate
    <2>1. alfa' = alfa /\ x' = x /\ left > 0 /\ left' = left - 1
      BY <1>7 DEF Iterate
    <2>2. CASE alfa < 2
      BY <1>1, <2>1, <2>2 DEF PassInv
    <2>3. CASE alfa = 3
      <3>1. left \in 0 .. Iterations /\ Formed /\ NoCounts
        BY <2>3 DEF PassInv
      <3>2. Formed' /\ MeansRight' /\ NoCounts'
        BY <1>7, <3>1, IterateRight DEF NoCounts
      <3> QED BY <1>1, <2>1, <2>3, <3>1, <3>2 DEF PassInv
    <2>4. CASE alfa = 2
      BY <1>1, <2>1, <2>4 DEF PassInv
    <2>5. CASE alfa = 4
      BY <1>1, <2>1, <2>5 DEF PassInv
    <2> QED BY <1>1, <2>2, <2>3, <2>4, <2>5
  <1>8. CASE Judge
    <2> DEFINE cl == Eigen(of, c)
    <2>1. /\ left = 0 /\ left' = 0 - 1 /\ x' = x /\ alfa \in 0 .. 3
          /\ alfa' = alfa + 1 \/ alfa' = alfa
          /\ alfa = 3 => alfa' = 4 /\ c' = cl /\ of' = of
          /\ alfa' = alfa + 1 => c' = cl
      BY <1>8 DEF Judge
    <2>2. alfa # 2
      BY <2>1 DEF PassInv
    <2>3. /\ cl = [k \in 1 .. C |-> [mean |-> cl[k].mean, N |-> cl[k].N, std |-> cl[k].std]]
          /\ \A k \in 1 .. C : cl[k].mean = c[k].mean /\ (c[k].N = 0 => cl[k].N = SizeIn(x, of, k))
      BY <1>1, EigenCounts
    <2> HIDE DEF cl
    <2>4. CASE alfa = 3
      <3>1. NoCounts /\ MeansRight
        BY <1>1, <2>1, <2>4 DEF PassInv
      <3>2. \A k \in 1 .. C : c'[k].mean = MeanIn(x, of, k, c'[k].mean) /\ c'[k].N = SizeIn(x, of, k)
        BY <2>1, <2>3, <2>4, <3>1 DEF NoCounts, MeansRight
      <3>3. MeansRight' /\ \A k \in 1 .. C : c'[k].N = SizeIn(x', of', k)
        BY <2>1, <2>4, <3>2 DEF MeansRight
      <3> QED BY <1>1, <2>1, <2>4, <3>3 DEF PassInv
    <2>5. CASE alfa < 2
      <3>1. alfa' \in 0 .. 2 /\ (alfa' = 2 => c' = cl)
        BY <2>1, <2>5
      <3>2. alfa' = 2 => Formed'
        BY <2>3, <3>1 DEF Formed
      <3> QED BY <1>1, <2>1, <3>1, <3>2 DEF PassInv
    <2> QED BY <2>1, <2>2, <2>4, <2>5
  <1> QED BY <1>3, <1>4, <1>5, <1>6, <1>7, <1>8 DEF CMNext

LEMMA PassCounts == PassInv => MembersCounted
  <1> SUFFICES ASSUME PassInv, Ended, NEW k \in Cluster
               PROVE  c[k].mean = Mean(of, k, c[k].mean) /\ c[k].N = Size(of, k)
    BY DEF MembersCounted
  <1>1. c[k].mean = MeanIn(x, of, k, c[k].mean) /\ c[k].N = SizeIn(x, of, k)
    BY DEF PassInv, MeansRight, Ended, Trials, Cluster
  <1> QED BY <1>1, MeanIs, SizeIs

\* What the program stores of a cluster, its mean and its N (from which prob is
\* made), is of the steps it has given to it, whatever the starts it tried have
\* left behind: for all data, numbers of clusters and of iterations.
THEOREM ClustersOfMembers == CMSpec => []MembersCounted
  <1>1. PassInv /\ [CMNext]_cmVars => PassInv'
    BY PassNext
  <1>2. PassInv => MembersCounted
    BY PassCounts
  <1> QED BY <1>1, <1>2, PassInit, PTL DEF CMSpec

-----------------------------------------------------------------------------
(* The periods. First, the least and the greatest of a set of steps.       *)

LEMMA MinIs ==
  ASSUME NEW S \in SUBSET Nat, NEW m \in S, \A o \in S : m <= o
  PROVE  Min(S) = m
  <1>1. \A y \in S : (\A o \in S : y <= o) => y = m
    OBVIOUS
  <1>2. Min(S) = CHOOSE y \in S : \A o \in S : y <= o
    BY Zenon DEF Min
  <1> QED BY <1>1, <1>2

LEMMA MinOf ==
  ASSUME NEW S \in SUBSET Nat, S # {}
  PROVE  Min(S) \in S /\ \A o \in S : Min(S) <= o
  BY LeastNat DEF Min

LEMMA MaxOf ==
  ASSUME NEW n \in Nat, NEW S \in SUBSET (1 .. n), S # {}
  PROVE  Max(S) \in S /\ \A o \in S : o <= Max(S)
  <1> DEFINE D == {n - o : o \in S}
  <1>1. D \subseteq Nat /\ D # {}
    <2>1. PICK o \in S : TRUE
      OBVIOUS
    <2>2. n - o \in D
      BY Zenon
    <2> QED BY <2>2
  <1>2. PICK d \in D : \A o \in D : d <= o
    BY <1>1, LeastNat
  <1>3. PICK m \in S : d = n - m
    BY <1>2
  <1>4. ASSUME NEW o \in S PROVE m >= o
    <2>1. n - o \in D
      <3>1. \E y \in S : n - o = n - y
        OBVIOUS
      <3> QED BY <3>1, Zenon
    <2>2. d <= n - o
      BY <1>2, <2>1
    <2> HIDE DEF D
    <2> QED BY <1>3, <2>2
  <1>5. \E y \in S : \A o \in S : y >= o
    BY <1>4
  <1>6. Max(S) \in S /\ \A o \in S : Max(S) >= o
    BY <1>5, Zenon DEF Max
  <1> QED BY <1>6

-----------------------------------------------------------------------------
(* The matches                                                             *)

\* j is the next step of i's cluster
Follows(f, i, j) == i < j /\ f[j] = f[i] /\ \A m \in i + 1 .. j - 1 : f[m] # f[i]

\* what calcPeriods has after step i
MatchedTo(f, n, i) ==
  [s     |-> {j \in 1 .. n : \E h \in 1 .. i : Follows(f, h, j)},
   pairs |-> {p \in (1 .. n) \X (1 .. n) : p[1] <= i /\ Follows(f, p[1], p[2])}]

MatchStep(f, n, i, p) ==
  LET next == {j \in (i + 1) .. n : f[j] = f[i] /\ j \notin p.s}
  IN  IF next = {} THEN p
      ELSE [s |-> p.s \cup {Min(next)}, pairs |-> p.pairs \cup {<<i, Min(next)>>}]

LEMMA FollowsOnce ==
  ASSUME NEW f, NEW i \in Nat, NEW j \in Nat, NEW l \in Nat,
         (Follows(f, i, j) /\ Follows(f, i, l)) \/ (Follows(f, j, i) /\ Follows(f, l, i))
  PROVE  j = l
  <1>1. CASE Follows(f, i, j) /\ Follows(f, i, l)
    BY <1>1 DEF Follows
  <1>2. CASE Follows(f, j, i) /\ Follows(f, l, i)
    <2>1. j < l => l \in j + 1 .. i - 1
      BY <1>2 DEF Follows
    <2>2. l < j => j \in l + 1 .. i - 1
      BY <1>2 DEF Follows
    <2>3. f[j] = f[i] /\ f[l] = f[i]
      BY <1>2 DEF Follows
    <2>4. (\A m \in j + 1 .. i - 1 : f[m] # f[j]) /\ (\A m \in l + 1 .. i - 1 : f[m] # f[l])
      BY <1>2 DEF Follows
    <2> QED BY <2>1, <2>2, <2>3, <2>4
  <1> QED BY <1>1, <1>2

\* The next unused step is the next one: no earlier step has taken it.
LEMMA MatchNext ==
  ASSUME NEW f, NEW n \in Nat, NEW i \in 1 .. n
  PROVE  MatchStep(f, n, i, MatchedTo(f, n, i - 1)) = MatchedTo(f, n, i)
  <1> DEFINE p == MatchedTo(f, n, i - 1)
             next == {j \in (i + 1) .. n : f[j] = f[i] /\ j \notin p.s}
             later == {j \in (i + 1) .. n : f[j] = f[i]}
  <1>1. MatchStep(f, n, i, p) =
          IF next = {} THEN p ELSE [s |-> p.s \cup {Min(next)}, pairs |-> p.pairs \cup {<<i, Min(next)>>}]
    BY DEF MatchStep
  <1>0. MatchedTo(f, n, i) =
          [s     |-> {j \in 1 .. n : \E h \in 1 .. i : Follows(f, h, j)},
           pairs |-> {q \in (1 .. n) \X (1 .. n) : q[1] <= i /\ Follows(f, q[1], q[2])}]
    BY DEF MatchedTo
  <1>2. CASE later = {}
    <2>1. next = {}
      BY <1>2
    <2>2. ~\E j \in 1 .. n : Follows(f, i, j)
      BY <1>2 DEF Follows
    <2>3. p.s = {j \in 1 .. n : \E h \in 1 .. i : Follows(f, h, j)}
      BY <2>2 DEF MatchedTo
    <2>4. p.pairs = {q \in (1 .. n) \X (1 .. n) : q[1] <= i /\ Follows(f, q[1], q[2])}
      BY <2>2 DEF MatchedTo
    <2>5. p = [s |-> p.s, pairs |-> p.pairs]
      BY DEF MatchedTo
    <2>6. MatchStep(f, n, i, p) = p
      BY <1>1, <2>1
    <2> HIDE DEF p
    <2>7. p = MatchedTo(f, n, i)
      BY <1>0, <2>3, <2>4, <2>5
    <2> QED BY <2>6, <2>7 DEF p
  <1>3. CASE later # {}
    <2>1. PICK j \in later : \A o \in later : j <= o
      <3>1. later \subseteq Nat
        OBVIOUS
      <3> HIDE DEF later
      <3> QED BY <1>3, <3>1, LeastNat
    <2>2. j \in 1 .. n /\ j > i /\ f[j] = f[i] /\ Follows(f, i, j)
      BY <2>1 DEF Follows
    <2>3. j \notin p.s
      <3> SUFFICES ASSUME NEW h \in 1 .. i - 1, Follows(f, h, j) PROVE FALSE
        BY DEF MatchedTo
      <3>1. i \in h + 1 .. j - 1
        BY <2>2
      <3> QED BY <2>2, <3>1 DEF Follows
    <2>4. next # {} /\ Min(next) = j
      <3>1. j \in next /\ next \in SUBSET Nat /\ \A o \in next : j <= o
        BY <2>1, <2>2, <2>3
      <3> HIDE DEF next
      <3> QED BY <3>1, MinIs
    <2>5. p.s \cup {j} = {l \in 1 .. n : \E h \in 1 .. i : Follows(f, h, l)}
      <3>1. ASSUME NEW l \in 1 .. n, Follows(f, i, l) PROVE l = j
        <4>1. i \in Nat /\ j \in Nat /\ l \in Nat
          BY <2>2
        <4>2. Follows(f, i, j)
          BY <2>2
        <4> QED BY <3>1, <4>1, <4>2, FollowsOnce, Zenon
      <3> QED BY <2>2, <3>1 DEF MatchedTo
    <2>6. p.pairs \cup {<<i, j>>} = {q \in (1 .. n) \X (1 .. n) : q[1] <= i /\ Follows(f, q[1], q[2])}
      <3>1. ASSUME NEW l \in 1 .. n, Follows(f, i, l) PROVE l = j
        <4>1. i \in Nat /\ j \in Nat /\ l \in Nat
          BY <2>2
        <4>2. Follows(f, i, j)
          BY <2>2
        <4> QED BY <3>1, <4>1, <4>2, FollowsOnce, Zenon
      <3> QED BY <2>2, <3>1 DEF MatchedTo
    <2>7. MatchStep(f, n, i, p) = [s |-> p.s \cup {j}, pairs |-> p.pairs \cup {<<i, j>>}]
      <3> HIDE DEF p, next
      <3> QED BY <1>1, <2>4
    <2>8. MatchStep(f, n, i, p) = MatchedTo(f, n, i)
      <3> HIDE DEF p
      <3> QED BY <1>0, <2>5, <2>6, <2>7
    <2> QED BY <2>8
  <1> QED BY <1>2, <1>3

LEMMA MatchNone ==
  ASSUME NEW f, NEW n \in Nat
  PROVE  MatchedTo(f, n, 0) = [s |-> {}, pairs |-> {}]
  BY DEF MatchedTo

\* Each step is matched with the next one of its cluster.
LEMMA MatchesAre ==
  ASSUME NEW n \in Nat \ {0}, Len(x) = n
  PROVE  Matches = {p \in (1 .. n) \X (1 .. n) : Follows(of, p[1], p[2])}
  <1> DEFINE Is(g) == g = [i \in 0 .. (n - 1) |-> IF i = 0 THEN [s |-> {}, pairs |-> {}]
                                                 ELSE MatchStep(of, n, i, g[i - 1])]
             upto == CHOOSE g : Is(g)
             exact == [i \in 0 .. (n - 1) |-> MatchedTo(of, n, i)]
  <1>1. Matches = upto[n - 1].pairs
    BY DEF Matches, MatchStep
  <1>2. Is(exact)
    <2>1. ASSUME NEW i \in 0 .. (n - 1)
          PROVE  exact[i] = IF i = 0 THEN [s |-> {}, pairs |-> {}] ELSE MatchStep(of, n, i, exact[i - 1])
      <3>1. i = 0 => exact[i] = [s |-> {}, pairs |-> {}]
        BY MatchNone
      <3>2. i # 0 => i \in 1 .. n /\ exact[i - 1] = MatchedTo(of, n, i - 1)
        OBVIOUS
      <3> QED BY <3>1, <3>2, MatchNext
    <2>2. exact = [i \in 0 .. (n - 1) |-> exact[i]]
      OBVIOUS
    <2> HIDE DEF exact
    <2> QED BY <2>1, <2>2
  <1>3. Is(upto)
    <2> HIDE DEF Is, exact
    <2> QED BY <1>2
  <1>4. \A i \in 0 .. (n - 1) : upto[i] = IF i = 0 THEN [s |-> {}, pairs |-> {}] ELSE MatchStep(of, n, i, upto[i - 1])
    BY <1>3
  <1> HIDE DEF upto, exact
  <1> DEFINE bad == {i \in 0 .. (n - 1) : upto[i] # MatchedTo(of, n, i)}
  <1>5. bad = {}
    <2>1. SUFFICES ASSUME bad # {} PROVE FALSE
      OBVIOUS
    <2>2. bad \subseteq Nat
      OBVIOUS
    <2>3. PICK i \in bad : \A o \in bad : i <= o
      BY <2>1, <2>2, LeastNat
    <2>4. i \in 0 .. (n - 1) /\ upto[i] # MatchedTo(of, n, i)
      OBVIOUS
    <2>5. i # 0
      BY <1>4, <2>4, MatchNone
    <2>6. i - 1 \in 0 .. (n - 1) /\ i - 1 \notin bad
      BY <2>3, <2>4, <2>5
    <2>7. upto[i - 1] = MatchedTo(of, n, i - 1) /\ i \in 1 .. n
      BY <2>4, <2>5, <2>6
    <2> QED BY <1>4, <2>4, <2>5, <2>7, MatchNext
  <1>6. Matches = MatchedTo(of, n, n - 1).pairs
    BY <1>1, <1>5
  <1>7. \A p \in (1 .. n) \X (1 .. n) : Follows(of, p[1], p[2]) => p[1] <= n - 1
    BY DEF Follows
  <1> QED BY <1>6, <1>7 DEF MatchedTo

-----------------------------------------------------------------------------
(* Sums over finite sets: MapThenSumSet takes the elements in some order,  *)
(* and the sum does not depend on it.                                      *)

Chosen(s) == CHOOSE y \in s : TRUE

\* g gives the sums of the subsets of P that D holds
Sums(d, D, g) == g = [s \in D |-> IF s = {} THEN 0 ELSE d[Chosen(s)] + g[s \ {Chosen(s)}]]

UpTo(P, m) == {s \in SUBSET P : Cardinality(s) <= m}

LEMMA ChosenOne ==
  ASSUME NEW P, IsFiniteSet(P), NEW s \in SUBSET P, s # {}
  PROVE  /\ Chosen(s) \in s /\ s \ {Chosen(s)} \in SUBSET P
         /\ Cardinality(s) \in Nat \ {0} /\ Cardinality(s \ {Chosen(s)}) = Cardinality(s) - 1
  <1>1. Chosen(s) \in s
    BY DEF Chosen
  <1>2. IsFiniteSet(s) /\ Cardinality(s) \in Nat /\ Cardinality(s) # 0
    BY FS_Subset, FS_CardinalityType, FS_EmptySet
  <1> QED BY <1>1, <1>2, FS_RemoveElement

LEMMA SumsExist ==
  ASSUME NEW d, NEW P, IsFiniteSet(P)
  PROVE  \E g : Sums(d, SUBSET P, g)
  <1> DEFINE bad == {m \in Nat : ~\E g : Sums(d, UpTo(P, m), g)}
             More(s, g) == IF s = {} THEN 0 ELSE d[Chosen(s)] + g[s \ {Chosen(s)}]
  <1>1. bad = {}
    <2>1. SUFFICES ASSUME bad # {} PROVE FALSE
      OBVIOUS
    <2>2. PICK m \in bad : \A o \in bad : m <= o
      BY <2>1, LeastNat
    <2>3. m \in Nat /\ ~\E g : Sums(d, UpTo(P, m), g)
      BY <2>2
    <2>4. ASSUME NEW h, NEW g, g = [s \in UpTo(P, m) |-> IF Cardinality(s) < m THEN h[s] ELSE More(s, h)],
                 m = 0 \/ Sums(d, UpTo(P, m - 1), h)
          PROVE  Sums(d, UpTo(P, m), g)
      <3>1. ASSUME NEW s \in UpTo(P, m) PROVE g[s] = More(s, g)
        <4>1. s \in SUBSET P /\ Cardinality(s) <= m
          BY DEF UpTo
        <4>2. CASE s = {}
          <5>1. Cardinality(s) = 0
            BY <4>2, FS_EmptySet
          <5>2. m = 0 => g[s] = More(s, h)
            BY <2>4, <5>1
          <5>3. m # 0 => g[s] = h[s] /\ s \in UpTo(P, m - 1)
            BY <2>3, <2>4, <4>1, <5>1 DEF UpTo
          <5>4. m # 0 => h[s] = 0
            BY <2>4, <4>2, <5>3 DEF Sums
          <5> QED BY <4>2, <5>2, <5>3, <5>4
        <4>3. CASE s # {}
          <5> DEFINE t == s \ {Chosen(s)}
          <5>1. t \in SUBSET P /\ Cardinality(s) \in Nat \ {0} /\ Cardinality(t) = Cardinality(s) - 1
            BY <4>1, <4>3, ChosenOne
          <5>2. t \in UpTo(P, m) /\ Cardinality(t) < m /\ m # 0
            BY <2>3, <4>1, <5>1 DEF UpTo
          <5> HIDE DEF t
          <5>3. g[t] = h[t]
            BY <2>4, <5>2
          <5>4. CASE Cardinality(s) < m
            <6>1. s \in UpTo(P, m - 1) /\ g[s] = h[s]
              BY <2>3, <2>4, <4>1, <5>1, <5>4 DEF UpTo
            <6>2. h[s] = d[Chosen(s)] + h[t]
              BY <2>4, <4>3, <5>2, <6>1 DEF Sums, t
            <6> QED BY <4>3, <5>3, <6>1, <6>2 DEF t
          <5>5. CASE ~(Cardinality(s) < m)
            <6>1. g[s] = d[Chosen(s)] + h[t]
              BY <2>4, <4>3, <5>5 DEF t
            <6> QED BY <4>3, <5>3, <6>1 DEF t
          <5> QED BY <5>4, <5>5
        <4> QED BY <4>2, <4>3
      <3>2. g = [s \in UpTo(P, m) |-> g[s]]
        BY <2>4
      <3> HIDE DEF More
      <3>3. g = [s \in UpTo(P, m) |-> More(s, g)]
        BY <3>1, <3>2
      <3> QED BY <3>3 DEF Sums, More
    <2>5. m = 0 \/ \E h : Sums(d, UpTo(P, m - 1), h)
      <3>1. m # 0 => m - 1 \in Nat /\ ~(m <= m - 1)
        BY <2>3
      <3>2. m # 0 => m - 1 \notin bad
        BY <2>2, <3>1
      <3> QED BY <3>1, <3>2
    <2>6. PICK h : m = 0 \/ Sums(d, UpTo(P, m - 1), h)
      BY <2>5
    <2>7. Sums(d, UpTo(P, m), [s \in UpTo(P, m) |-> IF Cardinality(s) < m THEN h[s] ELSE More(s, h)])
      BY <2>4, <2>6
    <2> QED BY <2>3, <2>7
  <1>2. Cardinality(P) \in Nat /\ UpTo(P, Cardinality(P)) = SUBSET P
    BY FS_CardinalityType, FS_Subset DEF UpTo
  <1>3. \A m \in Nat : \E g : Sums(d, UpTo(P, m), g)
    BY <1>1
  <1>4. \E g : Sums(d, UpTo(P, Cardinality(P)), g)
    BY <1>2, <1>3, Zenon
  <1> QED BY <1>2, <1>4

AnyFirst(d, P, g) == \A s \in SUBSET P : g[s] \in Int /\ \A m \in s : g[s] = d[m] + g[s \ {m}]

\* Any element may be the first.
LEMMA SumsAny ==
  ASSUME NEW P, IsFiniteSet(P), NEW d \in [P -> Int], NEW g, Sums(d, SUBSET P, g)
  PROVE  AnyFirst(d, P, g)
  <1> DEFINE Good(s) == g[s] \in Int /\ \A m \in s : g[s] = d[m] + g[s \ {m}]
             bad == {s \in SUBSET P : ~Good(s)}
             sizes == {Cardinality(s) : s \in bad}
  <1>1. SUFFICES ASSUME bad # {} PROVE FALSE
    BY DEF AnyFirst
  <1>2. \A s \in SUBSET P : IsFiniteSet(s) /\ Cardinality(s) \in Nat
    BY FS_Subset, FS_CardinalityType
  <1>3. sizes \subseteq Nat /\ sizes # {}
    <2> HIDE DEF Good
    <2>1. PICK s \in bad : TRUE
      BY <1>1
    <2>2. Cardinality(s) \in sizes
      BY Zenon
    <2> QED BY <1>2, <2>2
  <1>4. PICK size \in sizes : \A o \in sizes : size <= o
    BY <1>3, LeastNat
  <1>5. PICK s \in bad : size = Cardinality(s)
    BY <1>4
  <1>6. s \in SUBSET P /\ ~Good(s)
    BY <1>5
  <1>7. ASSUME NEW t \in SUBSET P, Cardinality(t) < Cardinality(s) PROVE Good(t)
    <2>1. t \notin bad
      <3> SUFFICES ASSUME t \in bad PROVE FALSE
        OBVIOUS
      <3>1. Cardinality(t) \in sizes
        BY Zenon
      <3>2. size <= Cardinality(t)
        BY <1>4, <3>1
      <3> QED BY <1>2, <1>5, <1>6, <1>7, <3>2
    <2> QED BY <2>1
  <1>8. CASE s = {}
    <2>1. g[s] = 0
      BY <1>6, <1>8 DEF Sums
    <2> QED BY <1>6, <1>8, <2>1
  <1>9. CASE s # {}
    <2> DEFINE y == Chosen(s)
    <2>1. y \in s /\ s \ {y} \in SUBSET P /\ g[s] = d[y] + g[s \ {y}]
      <3>1. g[s] = IF s = {} THEN 0 ELSE d[Chosen(s)] + g[s \ {Chosen(s)}]
        BY <1>6 DEF Sums
      <3> QED BY <1>6, <1>9, <3>1, ChosenOne
    <2> HIDE DEF y
    <2>2. ASSUME NEW m \in s PROVE s \ {m} \in SUBSET P /\ Good(s \ {m})
      <3>1. s \ {m} \in SUBSET P
        BY <1>6
      <3>2. Cardinality(s \ {m}) < Cardinality(s)
        BY <1>2, <1>6, FS_RemoveElement
      <3> HIDE DEF Good
      <3> QED BY <1>7, <3>1, <3>2
    <2>3. g[s] \in Int
      <3>1. d[y] \in Int /\ g[s \ {y}] \in Int
        BY <1>6, <2>1, <2>2
      <3> QED BY <2>1, <3>1
    <2>4. ASSUME NEW m \in s, m # y PROVE g[s] = d[m] + g[s \ {m}]
      <3> DEFINE r == g[(s \ {m}) \ {y}]
      <3>1. (s \ {y}) \ {m} = (s \ {m}) \ {y}
        OBVIOUS
      <3>2. g[s \ {y}] = d[m] + r
        <4>1. g[s \ {y}] = d[m] + g[(s \ {y}) \ {m}]
          <5>1. m \in s \ {y} /\ Good(s \ {y})
            <6> HIDE DEF Good
            <6> QED BY <2>1, <2>2, <2>4
          <5> QED BY <5>1
        <4> QED BY <3>1, <4>1
      <3>3. g[s \ {m}] = d[y] + r
        BY <2>1, <2>2, <2>4
      <3>4. r \in Int
        <4>1. (s \ {m}) \ {y} \in SUBSET P
          BY <1>6
        <4>2. Cardinality((s \ {m}) \ {y}) < Cardinality(s)
          <5>1. y \in s \ {m} /\ s \ {m} \in SUBSET P
            BY <2>1, <2>2, <2>4
          <5>2. Cardinality((s \ {m}) \ {y}) = Cardinality(s \ {m}) - 1
            BY <1>2, <5>1, FS_RemoveElement
          <5>3. Cardinality(s \ {m}) = Cardinality(s) - 1
            BY <1>2, <1>6, FS_RemoveElement
          <5> QED BY <1>2, <1>6, <5>1, <5>2, <5>3
        <4>3. Good((s \ {m}) \ {y})
          <5> HIDE DEF Good
          <5> QED BY <1>7, <4>1, <4>2
        <4> QED BY <4>3
      <3>5. d[m] \in Int /\ d[y] \in Int
        BY <1>6, <2>1
      <3> HIDE DEF r, Good
      <3> QED BY <2>1, <3>2, <3>3, <3>4, <3>5
    <2>5. Good(s)
      BY <2>1, <2>3, <2>4
    <2> QED BY <1>6, <2>5
  <1> QED BY <1>8, <1>9

GapSum(e, P) == MapThenSumSet(LAMBDA p : e[p[2]] - e[p[1]], P)

LEMMA GapSumIs ==
  ASSUME NEW e, NEW P, IsFiniteSet(P)
  PROVE  \E g : GapSum(e, P) = g[P] /\ Sums([p \in P |-> e[p[2]] - e[p[1]]], SUBSET P, g)
  <1> DEFINE d == [p \in P |-> e[p[2]] - e[p[1]]]
             More(s, g) == IF s = {} THEN 0 ELSE (e[Chosen(s)[2]] - e[Chosen(s)[1]]) + g[s \ {Chosen(s)}]
             iter == CHOOSE g : g = [s \in SUBSET P |-> More(s, g)]
  <1>1. GapSum(e, P) = iter[P]
    BY DEF GapSum, MapThenSumSet, MapThenFoldSet, Chosen
  <1>2. ASSUME NEW g, NEW s \in SUBSET P
        PROVE  More(s, g) = IF s = {} THEN 0 ELSE d[Chosen(s)] + g[s \ {Chosen(s)}]
    <2>1. s # {} => Chosen(s) \in P
      BY ChosenOne
    <2> QED BY <2>1
  <1>3. PICK g : Sums(d, SUBSET P, g)
    BY SumsExist
  <1>4. g = [s \in SUBSET P |-> More(s, g)]
    <2> HIDE DEF d, More
    <2> QED BY <1>2, <1>3 DEF Sums
  <1>5. iter = [s \in SUBSET P |-> More(s, iter)]
    <2> HIDE DEF d, More
    <2> QED BY <1>4
  <1> HIDE DEF iter
  <1>6. Sums(d, SUBSET P, iter)
    <2> HIDE DEF d, More
    <2> QED BY <1>2, <1>5 DEF Sums
  <1> QED BY <1>1, <1>6

-----------------------------------------------------------------------------
(* The periods                                                             *)

InCluster(f, n, k) == {i \in 1 .. n : f[i] = k}
PairsOf(f, n, k) == {p \in (1 .. n) \X (1 .. n) : Follows(f, p[1], p[2]) /\ f[p[1]] = k}

\* Every step of a cluster but the last is followed by another.
LEMMA NextOf ==
  ASSUME NEW f, NEW n \in Nat, NEW k, NEW i \in InCluster(f, n, k), NEW o \in InCluster(f, n, k), i < o
  PROVE  \E j \in InCluster(f, n, k) : Follows(f, i, j)
  <1> DEFINE later == {j \in InCluster(f, n, k) : i < j}
  <1>1. InCluster(f, n, k) \subseteq 1 .. n
    BY DEF InCluster
  <1>2. later \subseteq Nat /\ later # {}
    BY <1>1
  <1>3. PICK j \in later : \A m \in later : j <= m
    <2> HIDE DEF later
    <2> QED BY <1>2, LeastNat
  <1>4. j \in InCluster(f, n, k) /\ i < j /\ i \in 1 .. n /\ j \in 1 .. n /\ f[i] = k /\ f[j] = k
    BY <1>3 DEF InCluster
  <1>5. ASSUME NEW m \in i + 1 .. j - 1, f[m] = f[i] PROVE FALSE
    <2>1. m \in InCluster(f, n, k) /\ i < m /\ m < j
      BY <1>4, <1>5 DEF InCluster
    <2> QED BY <1>3, <1>4, <2>1
  <1> QED BY <1>4, <1>5 DEF Follows

\* A cluster has one match less than steps.
LEMMA PairsCount ==
  ASSUME NEW f, NEW n \in Nat, NEW k, InCluster(f, n, k) # {}
  PROVE  /\ IsFiniteSet(InCluster(f, n, k)) /\ Cardinality(InCluster(f, n, k)) \in Nat
         /\ IsFiniteSet(PairsOf(f, n, k))
         /\ Cardinality(PairsOf(f, n, k)) = Cardinality(InCluster(f, n, k)) - 1
  <1> DEFINE S == InCluster(f, n, k)
             P == PairsOf(f, n, k)
             T == S \ {Max(S)}
             next(i) == CHOOSE j \in S : Follows(f, i, j)
             F == [i \in T |-> <<i, next(i)>>]
  <1>1. S \in SUBSET (1 .. n) /\ IsFiniteSet(S) /\ Cardinality(S) \in Nat
    <2>1. S \in SUBSET (1 .. n)
      BY DEF InCluster
    <2>2. IsFiniteSet(1 .. n)
      BY FS_Interval
    <2> HIDE DEF S
    <2> QED BY <2>1, <2>2, FS_Subset, FS_CardinalityType
  <1>2. Max(S) \in S /\ \A o \in S : o <= Max(S)
    BY <1>1, MaxOf
  <1>3. IsFiniteSet(T) /\ Cardinality(T) = Cardinality(S) - 1
    BY <1>1, <1>2, FS_RemoveElement
  <1>4. ASSUME NEW i \in T PROVE next(i) \in S /\ Follows(f, i, next(i))
    <2>1. i < Max(S)
      BY <1>1, <1>2
    <2>2. \E j \in S : Follows(f, i, j)
      BY <1>2, <2>1, NextOf
    <2> QED BY <2>2
  <1>5. ASSUME NEW i \in T PROVE F[i] \in P
    <2>1. i \in 1 .. n /\ f[i] = k
      BY DEF InCluster
    <2>2. next(i) \in 1 .. n /\ Follows(f, i, next(i))
      BY <1>1, <1>4
    <2>3. F[i] = <<i, next(i)>>
      OBVIOUS
    <2> HIDE DEF F, next
    <2> QED BY <2>1, <2>2, <2>3 DEF PairsOf
  <1>6. ASSUME NEW p \in P PROVE p[1] \in T /\ F[p[1]] = p
    <2>1. /\ p \in (1 .. n) \X (1 .. n) /\ Follows(f, p[1], p[2])
          /\ f[p[1]] = k /\ f[p[2]] = k /\ p[1] < p[2]
      BY DEF PairsOf, Follows
    <2>2. p[1] \in S /\ p[2] \in S
      BY <2>1 DEF InCluster
    <2>3. p[1] \in T
      BY <1>1, <1>2, <2>1, <2>2
    <2>4. next(p[1]) = p[2]
      <3>1. p[1] \in Nat /\ p[2] \in Nat /\ next(p[1]) \in Nat
        BY <1>1, <1>4, <2>1, <2>3
      <3>2. Follows(f, p[1], next(p[1]))
        BY <1>4, <2>3
      <3> HIDE DEF next
      <3> QED BY <2>1, <3>1, <3>2, FollowsOnce
    <2>5. F[p[1]] = <<p[1], next(p[1])>>
      BY <2>3
    <2> HIDE DEF F, next
    <2> QED BY <2>1, <2>3, <2>4, <2>5
  <1>7. F \in [T -> P] /\ \A i \in T : F[i][1] = i
    BY <1>5
  <1> HIDE DEF F, P, T
  <1>8. F \in Injection(T, P) /\ F \in Surjection(T, P)
    <2>1. \A i, j \in T : F[i] = F[j] => i = j
      BY <1>7
    <2>2. \A p \in P : \E i \in T : F[i] = p
      BY <1>6
    <2> QED BY <1>7, <2>1, <2>2 DEF Injection, Surjection, IsInjective
  <1>9. IsFiniteSet(P) /\ Cardinality(P) = Cardinality(T)
    BY <1>3, <1>8, FS_Surjection
  <1> QED BY <1>1, <1>3, <1>9 DEF P

\* The gaps of a cluster's matches add up to the time between its ends.
LEMMA GapsAdd ==
  ASSUME NEW f, NEW n \in Nat, NEW k, InCluster(f, n, k) # {}, NEW e \in [1 .. n -> Nat]
  PROVE  GapSum(e, PairsOf(f, n, k)) = e[Max(InCluster(f, n, k))] - e[Min(InCluster(f, n, k))]
  <1> DEFINE S == InCluster(f, n, k)
             P == PairsOf(f, n, k)
             d == [p \in P |-> e[p[2]] - e[p[1]]]
             last == Max(S)
             From(i) == {p \in P : p[1] >= i}
  <1>1. S \in SUBSET (1 .. n) /\ IsFiniteSet(P)
    BY PairsCount DEF InCluster
  <1>2. last \in S /\ \A o \in S : o <= last
    BY <1>1, MaxOf
  <1>3. PICK g : GapSum(e, P) = g[P] /\ Sums(d, SUBSET P, g)
    BY <1>1, GapSumIs
  <1>4. ASSUME NEW p \in P
        PROVE  /\ p[1] \in S /\ p[2] \in S /\ p[1] < p[2] /\ Follows(f, p[1], p[2])
               /\ p = <<p[1], p[2]>> /\ p[1] \in 1 .. n /\ p[2] \in 1 .. n
    BY DEF PairsOf, InCluster, Follows
  <1>5. d \in [P -> Int]
    BY <1>4
  <1>6. /\ \A s \in SUBSET P : \A m \in s : g[s] = d[m] + g[s \ {m}]
        /\ g[{}] = 0
    <2> HIDE DEF d, P
    <2>1. g[{}] = 0
      BY <1>3 DEF Sums
    <2>2. AnyFirst(d, P, g)
      BY <1>1, <1>3, <1>5, SumsAny
    <2> QED BY <2>1, <2>2 DEF AnyFirst
  <1> DEFINE bad == {i \in S : g[From(i)] # e[last] - e[i]}
  <1>7. bad = {}
    <2>1. SUFFICES ASSUME bad # {} PROVE FALSE
      OBVIOUS
    <2> DEFINE i == Max(bad)
    <2>2. i \in bad /\ \A o \in bad : o <= i
      <3>1. bad \in SUBSET (1 .. n)
        BY <1>1
      <3> HIDE DEF bad
      <3> QED BY <2>1, <3>1, MaxOf
    <2>3. i \in S /\ i \in 1 .. n /\ g[From(i)] # e[last] - e[i]
      BY <1>1, <2>2
    <2> HIDE DEF i
    <2>4. CASE i = last
      <3>1. From(i) = {}
        <4> SUFFICES ASSUME NEW p \in P, p[1] >= i PROVE FALSE
          OBVIOUS
        <4>1. p[2] \in S /\ p[1] < p[2] /\ p[1] \in 1 .. n /\ p[2] \in 1 .. n
          BY <1>4
        <4>2. p[2] <= i
          BY <1>2, <2>4, <4>1
        <4> QED BY <2>3, <4>1, <4>2
      <3>2. e[last] - e[i] = 0
        BY <2>3, <2>4
      <3> HIDE DEF From, last
      <3> QED BY <1>6, <2>3, <3>1, <3>2
    <2>5. CASE i # last
      <3>1. i < last
        BY <1>1, <1>2, <2>3, <2>5
      <3>2. PICK j \in S : Follows(f, i, j)
        BY <1>2, <2>3, <3>1, NextOf
      <3>3. j \in 1 .. n /\ i < j /\ f[i] = k /\ f[j] = f[i]
        BY <1>1, <2>3, <3>2 DEF Follows, InCluster
      <3> DEFINE m == <<i, j>>
      <3>4. m \in P /\ m[1] = i /\ m[2] = j
        BY <2>3, <3>2, <3>3 DEF PairsOf
      <3>5. m \in From(i)
        BY <2>3, <3>4
      <3>6. From(i) \ {m} = From(j)
        <4>1. ASSUME NEW p \in P, p[1] >= i, p # m PROVE p[1] >= j
          <5>1. /\ p[1] \in 1 .. n /\ p[2] \in 1 .. n /\ Follows(f, p[1], p[2])
                /\ f[p[1]] = k /\ p = <<p[1], p[2]>>
            BY <1>4 DEF InCluster
          <5>2. p[1] # i
            <6> SUFFICES ASSUME p[1] = i PROVE FALSE
              OBVIOUS
            <6>1. Follows(f, i, p[2]) /\ i \in Nat /\ j \in Nat /\ p[2] \in Nat
              BY <2>3, <3>3, <5>1
            <6>2. p[2] = j
              BY <3>2, <6>1, FollowsOnce
            <6> QED BY <4>1, <5>1, <6>2
          <5>3. ASSUME p[1] < j PROVE FALSE
            <6>1. p[1] \in i + 1 .. j - 1
              BY <2>3, <3>3, <4>1, <5>1, <5>2, <5>3
            <6> QED BY <3>2, <3>3, <5>1, <6>1 DEF Follows
          <5> QED BY <3>3, <5>1, <5>3
        <4>2. ASSUME NEW p \in P, p[1] >= j PROVE p[1] >= i /\ p # m
          <5>1. p[1] \in 1 .. n
            BY <1>4
          <5>2. p[1] # m[1]
            BY <2>3, <3>3, <3>4, <4>2, <5>1
          <5> QED BY <2>3, <3>3, <4>2, <5>1, <5>2
        <4> HIDE DEF P, m
        <4> QED BY <4>1, <4>2
      <3>7. g[From(j)] = e[last] - e[j]
        <4>1. j \notin bad
          <5> HIDE DEF bad
          <5> QED BY <2>2, <2>3, <3>3
        <4> QED BY <4>1
      <3>8. g[From(i)] = d[m] + g[From(j)]
        <4> HIDE DEF d, m, P
        <4>1. From(i) \in SUBSET P
          OBVIOUS
        <4> HIDE DEF From
        <4> QED BY <1>6, <3>5, <3>6, <4>1
      <3>9. d[m] = e[j] - e[i]
        <4> HIDE DEF P, m
        <4> QED BY <3>4
      <3> HIDE DEF d, From
      <3> QED BY <1>1, <1>2, <2>3, <3>3, <3>7, <3>8, <3>9
    <2> QED BY <2>4, <2>5
  <1>8. Min(S) \in S /\ \A o \in S : Min(S) <= o
    <2>1. S \in SUBSET Nat
      BY <1>1
    <2> QED BY <2>1, MinOf
  <1>9. From(Min(S)) = P
    <2>1. ASSUME NEW p \in P PROVE p[1] >= Min(S)
      <3>1. p[1] \in S /\ p[1] \in 1 .. n
        BY <1>4
      <3> HIDE DEF P, S
      <3> QED BY <1>1, <1>8, <3>1
    <2> HIDE DEF P
    <2> QED BY <2>1
  <1>10. g[From(Min(S))] = e[last] - e[Min(S)]
    BY <1>7, <1>8
  <1> HIDE DEF From, P, d
  <1> QED BY <1>3, <1>9, <1>10 DEF P

-----------------------------------------------------------------------------
(* The times                                                               *)

EpochsAre(gap, m, e) == e = [i \in 1 .. m |-> gap[i] + (IF i = 1 THEN 0 ELSE e[i - 1])]

LEMMA EpochsExist ==
  ASSUME NEW gap, NEW n \in Nat
  PROVE  \E e : EpochsAre(gap, n, e)
  <1> DEFINE bad == {m \in Nat : ~\E e : EpochsAre(gap, m, e)}
  <1>1. SUFFICES ASSUME bad # {} PROVE FALSE
    OBVIOUS
  <1>2. PICK m \in bad : \A o \in bad : m <= o
    BY <1>1, LeastNat
  <1>3. CASE m = 0
    <2> DEFINE e == [i \in 1 .. 0 |-> 0]
    <2>1. EpochsAre(gap, 0, e)
      BY DEF EpochsAre
    <2> QED BY <1>2, <1>3, <2>1
  <1>4. CASE m > 0
    <2>1. m - 1 \in Nat /\ m - 1 \notin bad
      <3>1. m \in Nat /\ \A o \in bad : m <= o
        BY <1>2
      <3> HIDE DEF bad
      <3> QED BY <1>4, <3>1
    <2>2. PICK h : EpochsAre(gap, m - 1, h)
      BY <2>1
    <2> DEFINE e == [i \in 1 .. m |-> IF i = m THEN gap[m] + (IF m = 1 THEN 0 ELSE h[m - 1]) ELSE h[i]]
    <2>3. ASSUME NEW i \in 1 .. m PROVE e[i] = gap[i] + (IF i = 1 THEN 0 ELSE e[i - 1])
      <3>1. i # 1 => e[i - 1] = h[i - 1]
        BY <1>4
      <3>2. CASE i = m
        <4>1. e[i] = gap[m] + (IF m = 1 THEN 0 ELSE h[m - 1])
          BY <3>2
        <4> HIDE DEF e
        <4> QED BY <3>1, <3>2, <4>1
      <3>3. CASE i # m
        <4>1. i \in 1 .. m - 1 /\ e[i] = h[i]
          BY <1>4, <3>3
        <4>2. h[i] = gap[i] + (IF i = 1 THEN 0 ELSE h[i - 1])
          BY <2>2, <4>1 DEF EpochsAre
        <4> HIDE DEF e
        <4> QED BY <3>1, <4>1, <4>2
      <3> QED BY <3>2, <3>3
    <2>4. e = [i \in 1 .. m |-> e[i]]
      OBVIOUS
    <2> HIDE DEF e
    <2>5. EpochsAre(gap, m, e)
      BY <2>3, <2>4 DEF EpochsAre
    <2> QED BY <1>2, <2>5
  <1> QED BY <1>2, <1>3, <1>4

\* Later steps have later times.
LEMMA EpochsRise ==
  ASSUME NEW n \in Nat, NEW gap \in [1 .. n -> Nat], NEW e, EpochsAre(gap, n, e)
  PROVE  e \in [1 .. n -> Nat] /\ \A i, j \in 1 .. n : i <= j => e[i] <= e[j]
  <1>1. \A i \in 1 .. n : e[i] = gap[i] + (IF i = 1 THEN 0 ELSE e[i - 1])
    BY DEF EpochsAre
  <1>2. \A i \in 1 .. n : gap[i] \in Nat
    OBVIOUS
  <1>3. \A i \in 1 .. n : e[i] \in Nat
    <2> DEFINE bad == {i \in 1 .. n : e[i] \notin Nat}
    <2>1. SUFFICES ASSUME bad # {} PROVE FALSE
      OBVIOUS
    <2>2. bad \subseteq Nat
      OBVIOUS
    <2>3. PICK i \in bad : \A o \in bad : i <= o
      BY <2>1, <2>2, LeastNat
    <2>4. i \in 1 .. n /\ e[i] \notin Nat
      BY <2>3
    <2>5. i # 1 => i - 1 \in 1 .. n /\ i - 1 \notin bad
      <3> HIDE DEF bad
      <3> QED BY <2>3, <2>4
    <2>6. i # 1 => e[i - 1] \in Nat
      BY <2>5
    <2> QED BY <1>1, <1>2, <2>4, <2>6
  <1>4. \A i, j \in 1 .. n : i <= j => e[i] <= e[j]
    <2> DEFINE bad == {j \in 1 .. n : \E i \in 1 .. n : i <= j /\ ~(e[i] <= e[j])}
    <2>1. SUFFICES ASSUME bad # {} PROVE FALSE
      OBVIOUS
    <2>2. bad \subseteq Nat
      OBVIOUS
    <2>3. PICK j \in bad : \A o \in bad : j <= o
      <3> HIDE DEF bad
      <3> QED BY <2>1, <2>2, LeastNat
    <2>4. PICK i \in 1 .. n : j \in 1 .. n /\ i <= j /\ ~(e[i] <= e[j])
      BY <2>3
    <2>5. i < j /\ j - 1 \in 1 .. n /\ e[j] = gap[j] + e[j - 1]
      BY <1>1, <1>3, <2>4
    <2>6. j - 1 \notin bad
      <3> HIDE DEF bad
      <3> QED BY <2>3, <2>4
    <2>7. e[i] <= e[j - 1]
      BY <2>4, <2>5, <2>6
    <2> QED BY <1>2, <1>3, <2>4, <2>5, <2>7
  <1> QED BY <1>3, <1>4 DEF EpochsAre

-----------------------------------------------------------------------------
(* calcPeriods                                                             *)

\* what PeriodIsMean says of the steps' clusters f and times e
MeansOfGaps(f, n, e) ==
  \A k \in 1 .. C :
    LET S == InCluster(f, n, k)
    IN  Cardinality(S) > 1 => period[k] = type * ((e[Max(S)] - e[Min(S)]) \div (Cardinality(S) - 1))

\* CalcPeriods comes once, in the last pass' end.
PeriodInv ==
  /\ Len(x) \in Nat \ {0} /\ DOMAIN x = 1 .. Len(x) /\ alfa \in 0 .. 4
  /\ alfa = 2 => left = 0 - 1
  /\ alfa = 4 => left \in {0 - 1, 0}
  /\ alfa = 4 /\ left = 0 => MeansOfGaps(of, Len(x), epochOf)

LEMMA PeriodInit == CMInit => PeriodInv
  <1> SUFFICES ASSUME CMInit PROVE PeriodInv
    OBVIOUS
  <1>1. PICK m \in MinSteps .. MaxSteps : \E p \in [1 .. m -> Powers] : x = [i \in 1 .. m |-> type * p[i]]
    BY DEF CMInit
  <1>2. m \in Nat \ {0}
    BY CMeansAssumption
  <1>3. Len(x) = m /\ DOMAIN x = 1 .. m
    BY <1>1, <1>2
  <1>4. alfa = 0
    BY DEF CMInit
  <1> QED BY <1>2, <1>3, <1>4 DEF PeriodInv

LEMMA PeriodCalc ==
  ASSUME PeriodInv, CalcPeriods
  PROVE  MeansOfGaps(of, Len(x), epochOf)'
  <1> DEFINE n == Len(x)
  <1>1. n \in Nat \ {0} /\ Item = 1 .. n /\ x' = x /\ of' = of /\ type' = type
    BY DEF PeriodInv, Item, CalcPeriods
  <1>2. PICK gap \in [1 .. n -> Gaps] : epochOf' = Epochs(gap)
    BY <1>1 DEF CalcPeriods
  <1> HIDE DEF n
  <1>3. gap \in [1 .. n -> Nat]
    BY CMeansAssumption
  <1>4. EpochsAre(gap, n, epochOf')
    <2> DEFINE e == CHOOSE g : g = [i \in Item |-> gap[i] + (IF i = 1 THEN 0 ELSE g[i - 1])]
    <2>1. Epochs(gap) = e
      BY DEF Epochs
    <2>2. e = [i \in 1 .. n |-> gap[i] + (IF i = 1 THEN 0 ELSE e[i - 1])]
      <3>1. PICK h : h = [i \in Item |-> gap[i] + (IF i = 1 THEN 0 ELSE h[i - 1])]
        <4> HIDE DEF e
        <4>1. PICK h : EpochsAre(gap, n, h)
          BY <1>1, EpochsExist
        <4>2. h = [i \in Item |-> gap[i] + (IF i = 1 THEN 0 ELSE h[i - 1])]
          BY <1>1, <4>1 DEF EpochsAre
        <4> QED BY <4>2
      <3>2. e = [i \in Item |-> gap[i] + (IF i = 1 THEN 0 ELSE e[i - 1])]
        BY <3>1
      <3> HIDE DEF e
      <3> QED BY <1>1, <3>2
    <2> HIDE DEF e
    <2> QED BY <1>2, <2>1, <2>2 DEF EpochsAre
  <1>5. /\ epochOf' \in [1 .. n -> Nat]
        /\ \A i, j \in 1 .. n : i <= j => epochOf'[i] <= epochOf'[j]
    BY <1>1, <1>3, <1>4, EpochsRise
  <1>6. Matches = {p \in (1 .. n) \X (1 .. n) : Follows(of, p[1], p[2])}
    BY <1>1, MatchesAre DEF n
  <1>7. period' = [k \in 1 .. C |->
            LET P == {p \in Matches : of[p[1]] = k}
            IN  IF P = {} THEN period[k] ELSE type * Cut(GapSum(epochOf', P), Cardinality(P))]
    BY DEF CalcPeriods, GapSum, Cluster
  <1>8. ASSUME NEW k \in 1 .. C, Cardinality(InCluster(of, n, k)) > 1
        PROVE  LET S == InCluster(of, n, k)
               IN  period'[k] = type * ((epochOf'[Max(S)] - epochOf'[Min(S)]) \div (Cardinality(S) - 1))
    <2> DEFINE S == InCluster(of, n, k)
               P == PairsOf(of, n, k)
    <2>1. S # {} /\ S \in SUBSET (1 .. n)
      BY <1>8, FS_EmptySet DEF InCluster
    <2>2. IsFiniteSet(P) /\ Cardinality(S) \in Nat /\ Cardinality(P) = Cardinality(S) - 1
      BY <1>1, <2>1, PairsCount
    <2>3. P # {}
      BY <1>8, <2>2, FS_EmptySet
    <2>4. GapSum(epochOf', P) = epochOf'[Max(S)] - epochOf'[Min(S)]
      BY <1>1, <1>5, <2>1, GapsAdd
    <2>5. {p \in Matches : of[p[1]] = k} = P
      BY <1>6 DEF PairsOf
    <2>6. period'[k] = type * Cut(GapSum(epochOf', P), Cardinality(P))
      <3> HIDE DEF P
      <3> QED BY <1>7, <2>3, <2>5
    <2>7. Max(S) \in 1 .. n /\ Min(S) \in 1 .. n /\ Min(S) <= Max(S)
      <3>1. Max(S) \in S /\ \A o \in S : o <= Max(S)
        BY <1>1, <2>1, MaxOf
      <3>2. Min(S) \in S
        <4>1. S \in SUBSET Nat
          BY <2>1
        <4> QED BY <2>1, <4>1, MinOf
      <3> HIDE DEF S
      <3> QED BY <2>1, <3>1, <3>2
    <2> HIDE DEF S, P
    <2>8. epochOf'[Max(S)] \in Nat /\ epochOf'[Min(S)] \in Nat /\ epochOf'[Min(S)] <= epochOf'[Max(S)]
      BY <1>5, <2>7
    <2>9. GapSum(epochOf', P) \in Nat
      BY <2>4, <2>8
    <2>10. Cut(GapSum(epochOf', P), Cardinality(P)) = GapSum(epochOf', P) \div Cardinality(P)
      BY <2>9 DEF Cut
    <2> QED BY <2>2, <2>4, <2>6, <2>10 DEF S
  <1>9. Len(x)' = n
    BY <1>1 DEF n
  <1> QED BY <1>1, <1>8, <1>9 DEF MeansOfGaps

LEMMA PeriodNext == PeriodInv /\ [CMNext]_cmVars => PeriodInv'
  <1> SUFFICES ASSUME PeriodInv, [CMNext]_cmVars PROVE PeriodInv'
    OBVIOUS
  <1> USE DEF Trials
  <1>1. /\ Len(x) \in Nat \ {0} /\ DOMAIN x = 1 .. Len(x) /\ alfa \in 0 .. 4
        /\ alfa = 2 => left = 0 - 1
        /\ alfa = 4 => left \in {0 - 1, 0}
    BY DEF PeriodInv
  <1>2. CASE UNCHANGED cmVars
    BY <1>2 DEF cmVars, PeriodInv, MeansOfGaps
  <1>3. CASE CalcPeriods
    <2>1. alfa = Trials + 2 /\ left' = 0 /\ UNCHANGED <<type, x, of, c, alfa>>
      BY <1>3, Zenon DEF CalcPeriods
    <2>2. MeansOfGaps(of, Len(x), epochOf)'
      BY <1>3, PeriodCalc
    <2> QED BY <1>1, <2>1, <2>2 DEF PeriodInv
  <1>4. ASSUME NEW draw \in Draws, Draw(draw) PROVE PeriodInv'
    <2>1. alfa < 2 /\ alfa' = alfa /\ x' = x
      BY <1>4 DEF Draw
    <2> QED BY <1>1, <2>1 DEF PeriodInv
  <1>5. CASE LastPass
    <2>1. alfa = 2 /\ alfa' = 3 /\ x' = x
      BY <1>5 DEF LastPass
    <2> QED BY <1>1, <2>1 DEF PeriodInv
  <1>6. CASE Iterate
    <2>1. left > 0 /\ alfa' = alfa /\ x' = x
      BY <1>6 DEF Iterate
    <2> QED BY <1>1, <2>1 DEF PeriodInv
  <1>7. CASE Judge
    <2>1. /\ left = 0 /\ left' = 0 - 1 /\ x' = x /\ alfa \in 0 .. 3
          /\ alfa' = alfa + 1 \/ alfa' = alfa
      BY <1>7 DEF Judge
    <2> QED BY <1>1, <2>1 DEF PeriodInv
  <1> QED BY <1>2, <1>3, <1>4, <1>5, <1>6, <1>7 DEF CMNext

\* The period of a cluster is the mean of the gaps between its steps, for all
\* data, and whatever clusters the steps are in: each step is matched with the
\* next of its cluster, and the matches' gaps add up to the time between the
\* first and the last.
THEOREM PeriodsAreMeans == CMSpec => []PeriodIsMean
  <1>1. PeriodInv => PeriodIsMean
    <2> SUFFICES ASSUME PeriodInv, alfa = 4, left = 0 PROVE PeriodIsMean
      BY DEF PeriodIsMean, Ended, Trials
    <2>1. MeansOfGaps(of, Len(x), epochOf) /\ Item = 1 .. Len(x)
      BY DEF PeriodInv, Item
    <2>2. \A k \in Cluster : Members(of, k) = InCluster(of, Len(x), k)
      BY <2>1 DEF Members, InCluster
    <2> QED BY <2>1, <2>2 DEF PeriodIsMean, MeansOfGaps, Cluster
  <1> QED BY <1>1, PeriodInit, PeriodNext, PTL DEF CMSpec

-----------------------------------------------------------------------------
(* The genetic search. The invariant says what Partition says, that a      *)
(* generation's weak rows are at most Nc / 2, and that the search ends     *)
(* with at most two clusters left.                                         *)

Shape ==
  /\ viite \subseteq Index
  /\ devices \in Seq(SUBSET Index)
  /\ ge \in {"evolve", "cross", "save", "saved"}

FewWeak == ge = "cross" => IsFiniteSet(weak) /\ Cardinality(weak) <= Nc \div 2

\* the part of SavedWhole that holds while the search goes on
SavedInv ==
  /\ ge \in {"evolve", "cross"} => Nc > 2
  /\ ge \in {"save", "saved"} => Nc <= 2
  /\ ge = "saved" => table = [k \in RealOnes |-> DeviceOf(k)]

GeInv == Shape /\ Partition /\ FewWeak /\ SavedInv

-----------------------------------------------------------------------------
LEMMA FewClusters ==
  ASSUME NEW v \in SUBSET Index
  PROVE  IsFiniteSet(v) /\ Cardinality(v) \in Nat /\ Cardinality(v) <= Real + 2
  <1>1. Real \in Nat
    BY GeneticAssumption
  <1>2. IsFiniteSet(Index) /\ Cardinality(Index) = Real + 2
    BY <1>1, FS_Interval DEF Index
  <1> QED BY <1>1, <1>2, FS_Subset, FS_CardinalityType

\* however the turns go, there are no more weak rows than turns
LEMMA WeakestFew ==
  ASSUME NEW q, NEW n \in Nat
  PROVE  IsFiniteSet(Weakest(q, n)) /\ Cardinality(Weakest(q, n)) <= n
  <1> DEFINE f == [k \in 1 .. n |-> Turns(q, n)[k].row]
  <1>1. f \in Surjection(1 .. n, Weakest(q, n))
    BY DEF Weakest, Surjection
  <1>2. IsFiniteSet(1 .. n) /\ Cardinality(1 .. n) = n
    BY FS_Interval
  <1> QED BY <1>1, <1>2, FS_Surjection

\* taking clusters from viite for a new device keeps every cluster in place
LEMMA TakeKeeps ==
  ASSUME Shape, Partition, NEW S \in SUBSET viite,
         devices' = Append(devices, S), viite' = viite \ S,
         Nc' = Nc - (Cardinality(viite) - Cardinality(viite'))
  PROVE  Partition'
  <1>1. /\ Len(devices) \in Nat
        /\ DOMAIN devices = 1 .. Len(devices)
        /\ DOMAIN devices' = 1 .. Len(devices) + 1
        /\ devices'[Len(devices) + 1] = S
        /\ \A d \in DOMAIN devices : devices'[d] = devices[d]
    BY DEF Shape
  <1>2. \A d \in DOMAIN devices : devices[d] \intersect S = {}
    BY DEF Partition
  <1>3. Index = viite' \union UNION {devices'[d] : d \in DOMAIN devices'}
    <2>1. ASSUME NEW k \in Index
          PROVE  k \in viite' \/ \E d \in DOMAIN devices' : k \in devices'[d]
      <3>1. CASE k \in S
        BY <3>1, <1>1
      <3>2. CASE k \in viite /\ k \notin S
        BY <3>2
      <3>3. ASSUME NEW d \in DOMAIN devices, k \in devices[d]
            PROVE  \E e \in DOMAIN devices' : k \in devices'[e]
        BY <1>1, <3>3
      <3> QED BY <3>1, <3>2, <3>3 DEF Partition
    <2>2. viite' \subseteq Index /\ S \subseteq Index
      BY DEF Shape
    <2>3. \A d \in DOMAIN devices' : devices'[d] \subseteq Index
      BY <1>1, <2>2 DEF Partition
    <2> QED BY <2>1, <2>2, <2>3
  <1>4. ASSUME NEW d \in DOMAIN devices'
        PROVE  devices'[d] \intersect viite' = {}
    BY <1>1 DEF Partition
  <1>5. ASSUME NEW d \in DOMAIN devices', NEW e \in DOMAIN devices', d # e
        PROVE  devices'[d] \intersect devices'[e] = {}
    <2>1. CASE d \in DOMAIN devices /\ e \in DOMAIN devices
      BY <2>1, <1>1, <1>5 DEF Partition
    <2>2. CASE d = Len(devices) + 1 \/ e = Len(devices) + 1
      BY <2>2, <1>1, <1>2, <1>5
    <2> QED BY <2>1, <2>2, <1>1
  <1>6. Nc' = Cardinality(viite')
    <2>1. Cardinality(viite) \in Nat /\ Cardinality(viite') \in Nat
      BY FewClusters DEF Shape
    <2> QED BY <2>1 DEF Partition
  <1> QED BY <1>3, <1>4, <1>5, <1>6 DEF Partition

LEMMA GeneticInit == GeInit => GeInv
  <1> SUFFICES ASSUME GeInit PROVE GeInv
    OBVIOUS
  <1>1. Real \in Nat /\ Index = 0 .. Real + 1
    BY GeneticAssumption DEF Index
  <1>2. Nc = Real + 2 /\ Nc = Cardinality(Index)
    BY <1>1, FS_Interval DEF GeInit
  <1>3. Shape /\ Partition
    BY <1>2 DEF GeInit, Shape, Partition
  <1>4. FewWeak /\ SavedInv
    BY <1>1, <1>2 DEF GeInit, FewWeak, SavedInv
  <1> QED BY <1>3, <1>4 DEF GeInv

LEMMA GeneticNext == GeInv /\ [GeNext]_geVars => GeInv'
  <1> SUFFICES ASSUME GeInv, [GeNext]_geVars PROVE GeInv'
    OBVIOUS
  <1> USE DEF GeInv
  <1>1. CASE UNCHANGED geVars
    <2>1. DeviceOf(0)' = DeviceOf(0) /\ \A k \in RealOnes : DeviceOf(k)' = DeviceOf(k)
      BY <1>1 DEF geVars, DeviceOf
    <2> QED BY <1>1, <2>1 DEF geVars, Shape, Partition, FewWeak, SavedInv
  <1>2. CASE Select
    <2>1. Nc \in Nat /\ Nc \div 2 \in Nat
      BY FewClusters DEF Shape, Partition
    <2>2. IsFiniteSet(weak') /\ Cardinality(weak') <= Nc \div 2
      BY <1>2, <2>1, WeakestFew DEF Select
    <2>3. Nc' = Nc
      BY <1>2 DEF Select
    <2> QED BY <1>2, <2>2, <2>3 DEF Select, Shape, Partition, FewWeak, SavedInv
  <1>3. ASSUME NEW S \in SUBSET viite, TakeBest(S) PROVE GeInv'
    <2>1. /\ devices' = Append(devices, S) /\ viite' = viite \ S
          /\ Nc' = Nc - (Cardinality(viite) - Cardinality(viite'))
      BY <1>3 DEF TakeBest
    <2>2. Partition'
      BY <2>1, TakeKeeps
    <2>3. Shape'
      <3>1. S \in SUBSET Index
        BY DEF Shape
      <3>2. ge' \in {"evolve", "save"}
        BY <1>3 DEF TakeBest
      <3> QED BY <2>1, <3>1, <3>2 DEF Shape
    <2>4. Nc' \in Nat
      BY <2>2, <2>3, FewClusters DEF Shape, Partition
    <2>5. FewWeak' /\ SavedInv'
      BY <1>3, <2>4 DEF TakeBest, FewWeak, SavedInv
    <2> QED BY <2>2, <2>3, <2>5
  <1>4. CASE SaveToDb
    <2>1. \A k \in RealOnes : DeviceOf(k)' = DeviceOf(k)
      BY <1>4 DEF SaveToDb, DeviceOf
    <2>2. Nc' = Nc
      BY <1>4 DEF SaveToDb
    <2> QED BY <1>4, <2>1, <2>2 DEF SaveToDb, Shape, Partition, FewWeak, SavedInv
  <1> QED BY <1>1, <1>2, <1>3, <1>4 DEF GeNext

LEMMA GeneticInvariant == GeSpec => []GeInv
  <1> QED BY GeneticInit, GeneticNext, PTL DEF GeSpec

-----------------------------------------------------------------------------
\* No cluster is lost by the search or given to two devices.
THEOREM SearchPartitions == GeSpec => []Partition
  <1>1. GeInv => Partition
    BY DEF GeInv
  <1> QED BY <1>1, GeneticInvariant, PTL

\* the rows that may be parents are more than one
LEMMA EnoughCandidates ==
  ASSUME GeInv, ge = "cross"
  PROVE  CrossDraws
  <1>1. Real \in Nat /\ Nc \in Nat /\ Nc <= Real + 2 /\ Nc > 2
    BY GeneticAssumption, FewClusters DEF GeInv, Shape, Partition, SavedInv
  <1>2. IsFiniteSet(weak) /\ Cardinality(weak) <= Nc \div 2 /\ Cardinality(weak) \in Nat
    BY FS_CardinalityType DEF GeInv, FewWeak
  <1> DEFINE rows == 0 .. Nv - 2
  <1>3. Nv \in Nat /\ Nv - 1 >= Nc \div 2 + 4
    BY <1>1 DEF Nv
  <1>4. IsFiniteSet(rows) /\ Cardinality(rows) = Nv - 1
    <2>1. Nv - 2 \in Int /\ Nv - 2 >= 0
      BY <1>1, <1>3
    <2> QED BY <1>3, <2>1, FS_Interval, SMTT(30)
  <1>5. IsFiniteSet(Candidates) /\ Candidates = rows \ weak
    BY <1>4, FS_Subset DEF Candidates
  <1>6. \E a \in Candidates : \E b \in Candidates : a # b
    <2> SUFFICES ASSUME \A a \in Candidates : \A b \in Candidates : a = b
                 PROVE  FALSE
      OBVIOUS
    <2>1. Cardinality(Candidates) \in Nat /\ Cardinality(Candidates) <= 1
      <3>1. CASE Candidates = {}
        BY <3>1, FS_EmptySet
      <3>2. ASSUME NEW a \in Candidates
            PROVE  Cardinality(Candidates) = 1
        <4>1. Candidates = {a}
          BY <3>2
        <4> QED BY <4>1, FS_Singleton
      <3> QED BY <3>1, <3>2
    <2>2. /\ IsFiniteSet(weak \union Candidates)
          /\ Cardinality(weak \union Candidates)
               = Cardinality(weak) + Cardinality(Candidates) - Cardinality(weak \intersect Candidates)
      BY <1>2, <1>5, FS_Union
    <2>3. Cardinality(weak \intersect Candidates) = 0
      <3>1. weak \intersect Candidates = {}
        BY <1>5
      <3> QED BY <3>1, FS_EmptySet
    <2>4. Cardinality(rows) <= Cardinality(weak \union Candidates)
      <3>1. rows \in SUBSET (weak \union Candidates)
        BY <1>5
      <3> QED BY <2>2, <3>1, FS_Subset
    <2> QED BY <1>1, <1>2, <1>3, <1>4, <2>1, <2>2, <2>3, <2>4
  <1>7. Nc - 1 - Nc \div 2 > 0
    BY <1>1
  <1> QED BY <1>6, <1>7 DEF CrossDraws

\* Cross never looks for parents, or for a crossing point, in vain.
THEOREM CrossCanDraw == GeSpec => []CrossDraws
  <1>1. GeInv => CrossDraws
    BY EnoughCandidates DEF CrossDraws
  <1> QED BY <1>1, GeneticInvariant, PTL

\* savetodb's first device of a cluster is its only one
LEMMA DeviceOfIts ==
  ASSUME Shape, Partition, NEW k \in RealOnes, NEW d \in DOMAIN devices, k \in devices[d]
  PROVE  DeviceOf(k) = d - 1 /\ d - 1 >= 0
  <1> DEFINE D == {e \in DOMAIN devices : k \in devices[e]}
  <1>1. d \in Nat /\ d >= 1
    BY DEF Shape
  <1>2. \A e \in D : e = d
    BY DEF Partition
  <1>3. d \in D /\ \A e \in D : d <= e
    BY <1>1, <1>2
  <1>4. (CHOOSE e \in D : \A o \in D : e <= o) = d
    BY <1>2, <1>3
  <1>5. D # {}
    BY <1>3
  <1>6. DeviceOf(k) = IF D = {} THEN -1 ELSE (CHOOSE e \in D : \A o \in D : e <= o) - 1
    BY Zenon DEF DeviceOf
  <1>7. DeviceOf(k) = d - 1
    BY <1>4, <1>5, <1>6
  <1> QED BY <1>1, <1>7

LEMMA DeviceOfNone ==
  ASSUME NEW k \in RealOnes, \A d \in DOMAIN devices : k \notin devices[d]
  PROVE  DeviceOf(k) = -1
  BY DEF DeviceOf

LEMMA SavesWhole ==
  ASSUME GeInv, ge = "saved"
  PROVE  SavedWhole
  <1>1. /\ Shape /\ Partition /\ Nc <= 2
        /\ table = [k \in RealOnes |-> DeviceOf(k)]
    BY DEF GeInv, SavedInv
  <1>2. RealOnes \subseteq Index
    BY GeneticAssumption DEF RealOnes, Index
  <1> DEFINE unknown == {k \in RealOnes : table[k] = -1}
  <1>3. ASSUME NEW k \in unknown PROVE k \in viite
    <2>1. \A d \in DOMAIN devices : k \notin devices[d]
      <3> SUFFICES ASSUME NEW d \in DOMAIN devices, k \in devices[d] PROVE FALSE
        OBVIOUS
      <3>1. table[k] = d - 1 /\ d - 1 >= 0
        BY <1>1, DeviceOfIts
      <3> QED BY <3>1
    <2> QED BY <1>1, <1>2, <2>1 DEF Partition
  <1>4. Cardinality(unknown) <= 2
    <2>1. IsFiniteSet(viite) /\ Cardinality(viite) \in Nat /\ Cardinality(viite) <= 2
      BY <1>1, FewClusters DEF Shape, Partition
    <2>2. IsFiniteSet(unknown) /\ Cardinality(unknown) <= Cardinality(viite)
      BY <1>3, <2>1, FS_Subset
    <2>3. Cardinality(unknown) \in Nat
      BY <2>2, FS_CardinalityType
    <2> QED BY <2>1, <2>2, <2>3
  <1>5. ASSUME NEW k \in RealOnes, NEW d \in DOMAIN devices
        PROVE  k \in devices[d] <=> table[k] = d - 1
    <2>1. CASE k \in devices[d]
      BY <2>1, <1>1, DeviceOfIts
    <2>2. ASSUME NEW e \in DOMAIN devices, k \in devices[e], k \notin devices[d]
          PROVE  table[k] # d - 1
      <3>1. table[k] = e - 1 /\ e # d
        BY <1>1, <2>2, DeviceOfIts
      <3> QED BY <1>1, <3>1 DEF Shape
    <2>3. CASE \A e \in DOMAIN devices : k \notin devices[e]
      <3>1. table[k] = -1
        BY <1>1, <2>3, DeviceOfNone
      <3> QED BY <1>1, <2>3, <3>1 DEF Shape
    <2> QED BY <2>1, <2>2, <2>3
  <1> QED BY <1>4, <1>5 DEF SavedWhole

\* The table holds each cluster's one device, and at most two clusters are
\* left without one.
THEOREM SearchIsSaved == GeSpec => []SavedWhole
  <1>1. GeInv => SavedWhole
    BY SavesWhole DEF SavedWhole
  <1> QED BY <1>1, GeneticInvariant, PTL

-----------------------------------------------------------------------------
(* The rows to be replaced.                                                *)

FirstTurn == [row |-> 0, value |-> PreviousVal]

\* the turn after t
NextTurn(q, t) ==
  LET below == {r \in Row : q[r] < t.value}
      first == CHOOSE r \in below : \A o \in below : q[o] < q[r] \/ (q[o] = q[r] /\ r <= o)
  IN  IF below = {} THEN [row |-> 0, value |-> 0] ELSE [row |-> first, value |-> q[first]]

LEMMA TurnsExist ==
  ASSUME NEW q, NEW n \in Nat
  PROVE  \E f : f = [k \in 0 .. n |-> IF k = 0 THEN FirstTurn ELSE NextTurn(q, f[k - 1])]
  <1> DEFINE Is(f, m) == f = [k \in 0 .. m |-> IF k = 0 THEN FirstTurn ELSE NextTurn(q, f[k - 1])]
             bad == {m \in Nat : ~\E f : Is(f, m)}
  <1>1. SUFFICES ASSUME bad # {} PROVE FALSE
    OBVIOUS
  <1>2. PICK m \in bad : \A o \in bad : m <= o
    BY <1>1, LeastNat
  <1>3. CASE m = 0
    <2> DEFINE f == [k \in 0 .. 0 |-> FirstTurn]
    <2>1. Is(f, 0)
      OBVIOUS
    <2> QED BY <1>2, <1>3, <2>1
  <1>4. CASE m > 0
    <2>1. m - 1 \in Nat /\ m - 1 \notin bad
      <3>1. m \in Nat /\ \A o \in bad : m <= o
        BY <1>2
      <3> HIDE DEF bad
      <3> QED BY <1>4, <3>1
    <2>2. PICK f : Is(f, m - 1)
      BY <2>1
    <2> DEFINE g == [k \in 0 .. m |-> IF k = m THEN NextTurn(q, f[m - 1]) ELSE f[k]]
    <2>3. \A k \in 0 .. m : g[k] = IF k = 0 THEN FirstTurn ELSE NextTurn(q, g[k - 1])
      <3> SUFFICES ASSUME NEW k \in 0 .. m
                   PROVE  g[k] = IF k = 0 THEN FirstTurn ELSE NextTurn(q, g[k - 1])
        OBVIOUS
      <3>1. CASE k = m
        <4>1. g[k] = NextTurn(q, f[m - 1]) /\ g[k - 1] = f[m - 1]
          BY <1>4, <3>1
        <4> QED BY <1>4, <3>1, <4>1
      <3>2. CASE k # m
        <4>1. k \in 0 .. m - 1 /\ g[k] = f[k]
          BY <3>2
        <4>2. k # 0 => g[k - 1] = f[k - 1]
          BY <3>2
        <4>3. f[k] = IF k = 0 THEN FirstTurn ELSE NextTurn(q, f[k - 1])
          BY <2>2, <4>1
        <4> QED BY <4>1, <4>2, <4>3
      <3> QED BY <3>1, <3>2
    <2>4. Is(g, m)
      BY <2>3
    <2> QED BY <1>2, <2>4
  <1> QED BY <1>2, <1>3, <1>4

LEMMA TurnsStep ==
  ASSUME NEW q, NEW n \in Nat
  PROVE  /\ Turns(q, n)[0] = FirstTurn
         /\ \A k \in 1 .. n : Turns(q, n)[k] = NextTurn(q, Turns(q, n)[k - 1])
  <1> DEFINE T == Turns(q, n)
  <1>1. T = CHOOSE f : f = [k \in 0 .. n |-> IF k = 0 THEN FirstTurn ELSE NextTurn(q, f[k - 1])]
    BY DEF Turns, FirstTurn, NextTurn
  <1>2. T = [k \in 0 .. n |-> IF k = 0 THEN FirstTurn ELSE NextTurn(q, T[k - 1])]
    BY <1>1, TurnsExist
  <1> QED BY <1>2

\* A turn takes a row of the largest quality below the one before, or ends.
LEMMA NextTakes ==
  ASSUME NEW q \in [Row -> Nat], NEW t, t.value \in Nat
  PROVE  \/ /\ \A o \in Row : q[o] >= t.value
            /\ NextTurn(q, t) = [row |-> 0, value |-> 0]
         \/ /\ NextTurn(q, t).row \in Row
            /\ NextTurn(q, t).value = q[NextTurn(q, t).row]
            /\ NextTurn(q, t).value < t.value
            /\ \A o \in Row : q[o] < t.value => q[o] <= NextTurn(q, t).value
  <1> DEFINE v == t.value
             below == {r \in Row : q[r] < v}
             Best(r) == \A o \in below : q[o] < q[r] \/ (q[o] = q[r] /\ r <= o)
             first == CHOOSE r \in below : Best(r)
  <1>0. Row \subseteq Nat /\ v \in Nat /\ \A r \in Row : q[r] \in Nat
    BY DEF Row
  <1>1. NextTurn(q, t) = IF below = {} THEN [row |-> 0, value |-> 0] ELSE [row |-> first, value |-> q[first]]
    BY DEF NextTurn
  <1>2. CASE below = {}
    BY <1>0, <1>1, <1>2
  <1>3. CASE below # {}
    <2> DEFINE gaps == {v - q[r] : r \in below}
    <2>1. gaps \subseteq Nat /\ gaps # {}
      <3>1. ASSUME NEW r \in below PROVE v - q[r] \in Nat /\ v - q[r] \in gaps
        <4>1. q[r] \in Nat /\ q[r] < v
          BY <1>0
        <4>2. v - q[r] \in Nat
          BY <1>0, <4>1
        <4> QED BY <4>2
      <3>2. PICK r \in below : TRUE
        BY <1>3
      <3> QED BY <3>1, <3>2
    <2>2. PICK d \in gaps : \A o \in gaps : d <= o
      BY <2>1, LeastNat
    <2> DEFINE top == {r \in below : v - q[r] = d}
    <2>3. top \subseteq Nat /\ top # {}
      BY <1>0, <2>2
    <2>4. PICK r \in top : \A o \in top : r <= o
      BY <2>3, LeastNat
    <2>5. r \in below /\ Best(r)
      <3>1. ASSUME NEW o \in below PROVE q[o] < q[r] \/ (q[o] = q[r] /\ r <= o)
        <4>1. v - q[o] \in gaps /\ v - q[r] = d /\ q[o] \in Nat /\ q[r] \in Nat
          BY <1>0, <2>4
        <4>2. d <= v - q[o]
          BY <2>2, <4>1
        <4>3. CASE q[o] = q[r]
          BY <2>4, <3>1, <4>1, <4>3
        <4>4. CASE q[o] # q[r]
          BY <1>0, <4>1, <4>2, <4>4
        <4> QED BY <4>3, <4>4
      <3> QED BY <2>4, <3>1
    <2>6. first \in below /\ Best(first)
      BY <2>5
    <2>7. NextTurn(q, t).row = first /\ NextTurn(q, t).value = q[first]
      BY <1>1, <1>3
    <2>8. \A o \in Row : q[o] < v => q[o] <= q[first]
      BY <1>0, <2>6
    <2> QED BY <2>6, <2>7, <2>8
  <1> QED BY <1>2, <1>3

\* how many of the values are larger than v
Above(V, v) == {u \in V : u > v}

LEMMA AboveNext ==
  ASSUME NEW V \in SUBSET Nat, IsFiniteSet(V), NEW v \in V
  PROVE  /\ IsFiniteSet(Above(V, v)) /\ Cardinality(Above(V, v)) \in Nat
         /\ IsFiniteSet(Above(V, v) \union {v})
         /\ Cardinality(Above(V, v) \union {v}) = Cardinality(Above(V, v)) + 1
         /\ Cardinality(Above(V, v)) + 1 <= Cardinality(V)
  <1>1. Above(V, v) \in SUBSET V /\ v \notin Above(V, v) /\ Above(V, v) \union {v} \in SUBSET V
    BY DEF Above
  <1>2. IsFiniteSet(Above(V, v)) /\ Cardinality(Above(V, v)) \in Nat
    BY <1>1, FS_Subset, FS_CardinalityType
  <1>3. /\ IsFiniteSet(Above(V, v) \union {v})
        /\ Cardinality(Above(V, v) \union {v}) = Cardinality(Above(V, v)) + 1
    BY <1>1, <1>2, FS_AddElement
  <1>4. Cardinality(Above(V, v) \union {v}) <= Cardinality(V)
    BY <1>1, FS_Subset
  <1> QED BY <1>2, <1>3, <1>4

LEMMA AboveSame ==
  ASSUME NEW V \in SUBSET Nat, IsFiniteSet(V), NEW v \in V, NEW u \in V,
         Cardinality(Above(V, v)) = Cardinality(Above(V, u))
  PROVE  u = v
  <1>1. ASSUME NEW a \in V, NEW b \in V, a < b, Cardinality(Above(V, a)) = Cardinality(Above(V, b))
        PROVE  FALSE
    <2>1. Above(V, b) \union {b} \subseteq Above(V, a)
      <3>1. \A o \in V : o \in Nat
        OBVIOUS
      <3>2. ASSUME NEW o \in V, o > b PROVE o > a
        BY <1>1, <3>1, <3>2
      <3> QED BY <1>1, <3>2 DEF Above
    <2>2. IsFiniteSet(Above(V, a)) /\ Cardinality(Above(V, a)) \in Nat
      BY AboveNext
    <2>3. Cardinality(Above(V, b) \union {b}) = Cardinality(Above(V, a)) + 1
      BY <1>1, AboveNext
    <2>4. Cardinality(Above(V, b) \union {b}) <= Cardinality(Above(V, a))
      BY <2>1, <2>2, FS_Subset
    <2> QED BY <2>2, <2>3, <2>4
  <1> QED BY <1>1

\* The k-th turn takes a row of the k-th largest quality, and row 0 when
\* there are not so many.
LEMMA TurnTakes ==
  ASSUME NEW q \in [Row -> 1 .. PreviousVal - 1], NEW n \in Nat, NEW k \in 1 .. n
  PROVE  LET V == {q[r] : r \in Row}
             t == Turns(q, n)[k]
         IN  \/ /\ t.row \in Row /\ t.value = q[t.row]
                /\ Cardinality(Above(V, t.value)) = k - 1
             \/ t.row = 0 /\ t.value = 0 /\ Cardinality(V) < k
  <1> DEFINE V == {q[r] : r \in Row}
             T == Turns(q, n)
             Taken(j) == \/ /\ T[j].row \in Row /\ T[j].value = q[T[j].row]
                            /\ Cardinality(Above(V, T[j].value)) = j - 1
                         \/ T[j].row = 0 /\ T[j].value = 0 /\ Cardinality(V) < j
             wrong == {j \in 1 .. n : ~Taken(j)}
  <1>0. /\ PreviousVal \in Nat /\ q \in [Row -> Nat] /\ \A r \in Row : q[r] \in 1 .. PreviousVal - 1
        /\ 0 \in Row
    <2>1. Nv \in Nat /\ Nv >= 5
      BY GeneticAssumption DEF Nv
    <2> QED BY <2>1, GeneticAssumption DEF Row
  <1>1. V \in SUBSET Nat /\ V # {} /\ IsFiniteSet(V) /\ Cardinality(V) \in Nat
    <2>1. V \in SUBSET Nat /\ \A u \in V : u <= PreviousVal
      BY <1>0
    <2> QED BY <1>0, <2>1, FS_BoundedSetOfNaturals, FS_CardinalityType
  <1>2. T[0] = FirstTurn /\ \A j \in 1 .. n : T[j] = NextTurn(q, T[j - 1])
    BY TurnsStep
  <1> HIDE DEF T
  <1>3. ASSUME NEW j \in 1 .. n, j = 1 \/ Taken(j - 1) PROVE Taken(j)
    <2>1. T[j] = NextTurn(q, T[j - 1])
      BY <1>2
    <2>2. CASE j = 1
      <3>1. T[j - 1] = FirstTurn /\ T[j - 1].value = PreviousVal
        BY <1>2, <2>2 DEF FirstTurn
      <3>2. \A o \in Row : q[o] < T[j - 1].value
        BY <1>0, <3>1
      <3>3. /\ T[j].row \in Row /\ T[j].value = q[T[j].row]
            /\ \A o \in Row : q[o] <= T[j].value
        BY <1>0, <2>1, <3>1, <3>2, NextTakes
      <3>4. Above(V, T[j].value) = {}
        BY <1>0, <3>3 DEF Above
      <3>5. Cardinality(Above(V, T[j].value)) = 0
        BY <3>4, FS_EmptySet
      <3> HIDE DEF V
      <3> QED BY <2>2, <3>3, <3>5
    <2>3. CASE Taken(j - 1) /\ j # 1
      <3> DEFINE v == T[j - 1].value
      <3>1. CASE T[j - 1].row = 0 /\ v = 0 /\ Cardinality(V) < j - 1
        <4>1. T[j] = [row |-> 0, value |-> 0]
          BY <1>0, <2>1, <3>1, NextTakes
        <4> QED BY <1>1, <3>1, <4>1
      <3>2. CASE /\ T[j - 1].row \in Row /\ v = q[T[j - 1].row]
                 /\ Cardinality(Above(V, v)) = (j - 1) - 1
        <4>1. v \in V /\ v \in Nat
          BY <1>0, <3>2
        <4>2. Cardinality(Above(V, v) \union {v}) = j - 1
          BY <1>1, <3>2, <4>1, AboveNext, SMTT(30)
        <4>3. CASE T[j] = [row |-> 0, value |-> 0] /\ \A o \in Row : q[o] >= v
          <5>1. V = Above(V, v) \union {v}
            BY <1>0, <4>1, <4>3 DEF Above
          <5>2. Cardinality(V) = j - 1
            BY <4>2, <5>1
          <5> HIDE DEF V
          <5> QED BY <4>3, <5>2
        <4>4. CASE /\ T[j].row \in Row /\ T[j].value = q[T[j].row] /\ T[j].value < v
                   /\ \A o \in Row : q[o] < v => q[o] <= T[j].value
          <5>1. Above(V, T[j].value) = Above(V, v) \union {v}
            BY <1>0, <4>1, <4>4 DEF Above
          <5> QED BY <4>2, <4>4, <5>1
        <4> QED BY <1>0, <2>1, <4>1, <4>3, <4>4, NextTakes
      <3> QED BY <2>3, <3>1, <3>2
    <2> QED BY <1>3, <2>2, <2>3
  <1>4. ASSUME wrong # {} PROVE FALSE
    <2>1. wrong \subseteq Nat
      OBVIOUS
    <2>2. PICK j \in wrong : \A o \in wrong : j <= o
      BY <1>4, <2>1, LeastNat
    <2>3. j \in 1 .. n /\ ~Taken(j)
      BY <2>2
    <2>4. ASSUME j # 1 PROVE Taken(j - 1)
      <3>1. j - 1 \in 1 .. n /\ ~(j <= j - 1)
        BY <2>3, <2>4
      <3>2. j - 1 \notin wrong
        BY <2>2, <3>1
      <3> QED BY <3>1, <3>2
    <2> HIDE DEF Taken
    <2> QED BY <1>3, <2>3, <2>4
  <1>5. Taken(k)
    BY <1>4
  <1> QED BY <1>5 DEF T

\* the generation that is crossed, and the rows chosen for it
WeakInv == ge = "cross" => Q \in [Row -> Qualities] /\ weak = Weakest(Q, Nc \div 2)

LEMMA WeakNext == WeakInv /\ [GeNext]_geVars => WeakInv'
  <1> SUFFICES ASSUME WeakInv, [GeNext]_geVars PROVE WeakInv'
    OBVIOUS
  <1>1. CASE UNCHANGED geVars
    BY <1>1 DEF geVars, WeakInv
  <1>2. CASE Select
    BY <1>2 DEF Select, WeakInv
  <1>3. CASE (\E S \in SUBSET viite : TakeBest(S)) \/ SaveToDb
    BY <1>3 DEF TakeBest, SaveToDb, WeakInv
  <1> QED BY <1>1, <1>2, <1>3 DEF GeNext

LEMMA ReplacesWorst ==
  ASSUME WeakInv, GeInv
  PROVE  WorstReplaced
  <1> SUFFICES ASSUME ge = "cross" PROVE WorstReplaced
    BY DEF WorstReplaced
  <1> DEFINE V == {Q[r] : r \in Row}
             n == Nc \div 2
             T == Turns(Q, n)
             largest == {v \in V : Cardinality({u \in V : u > v}) < n}
  <1>1. n \in Nat /\ Q \in [Row -> 1 .. PreviousVal - 1] /\ weak = {T[k].row : k \in 1 .. n}
    <2>1. Nc \in Nat
      BY FewClusters DEF GeInv, Shape, Partition
    <2>2. Q \in [Row -> Qualities] /\ weak = {T[k].row : k \in 1 .. n}
      BY DEF WeakInv, Weakest
    <2>3. n \in Nat
      BY <2>1
    <2> HIDE DEF n, T
    <2> QED BY <2>2, <2>3, GeneticAssumption
  <1> HIDE DEF n, T
  <1>2. ASSUME NEW k \in 1 .. n
        PROVE  \/ /\ T[k].row \in Row /\ T[k].value = Q[T[k].row]
                  /\ Cardinality(Above(V, T[k].value)) = k - 1
               \/ T[k].row = 0 /\ T[k].value = 0 /\ Cardinality(V) < k
    BY <1>1, TurnTakes DEF T
  <1>3. largest = {v \in V : Cardinality(Above(V, v)) < n}
    BY DEF Above
  <1>4. V \in SUBSET Nat /\ IsFiniteSet(V) /\ Cardinality(V) \in Nat
    <2>1. V \in SUBSET Nat /\ \A u \in V : u <= PreviousVal
      BY <1>1, GeneticAssumption
    <2> QED BY <2>1, GeneticAssumption, FS_BoundedSetOfNaturals, FS_CardinalityType
  <1>5. ASSUME NEW v \in largest PROVE v \in {Q[w] : w \in weak}
    <2> DEFINE k == Cardinality(Above(V, v)) + 1
    <2>0. v \in V /\ Cardinality(Above(V, v)) < n
      BY <1>3, <1>5
    <2> HIDE DEF V, largest
    <2>1. k \in 1 .. n /\ k <= Cardinality(V) /\ Cardinality(Above(V, v)) = k - 1
      <3>1. /\ Cardinality(Above(V, v)) \in Nat
            /\ Cardinality(Above(V, v)) + 1 <= Cardinality(V)
        BY <1>4, <2>0, AboveNext
      <3> QED BY <1>1, <1>4, <2>0, <3>1
    <2> HIDE DEF k
    <2>2. /\ T[k].row \in Row /\ T[k].value = Q[T[k].row]
          /\ Cardinality(Above(V, T[k].value)) = k - 1
      BY <1>2, <1>4, <2>1
    <2>3. T[k].value \in V
      BY <2>2 DEF V
    <2>4. T[k].value = v
      BY <1>4, <2>0, <2>1, <2>2, <2>3, AboveSame
    <2> QED BY <1>1, <2>1, <2>2, <2>4
  <1>6. ASSUME NEW w \in weak PROVE w = 0 \/ Q[w] \in largest
    <2>1. PICK k \in 1 .. n : w = T[k].row
      BY <1>1
    <2>2. CASE w \in Row /\ Cardinality(Above(V, Q[w])) = k - 1
      <3>1. Cardinality(Above(V, Q[w])) < n /\ Q[w] \in V
        BY <1>1, <2>2
      <3> QED BY <1>3, <3>1
    <2> QED BY <1>2, <2>1, <2>2
  <1> QED BY <1>5, <1>6 DEF WorstReplaced, n

\* Cross replaces the weakest: for any qualities and any number of clusters,
\* each of the Nc / 2 largest different qualities loses a row, and no row of
\* another one does but row 0, which stands in when they are fewer.
THEOREM ReplacesWeakest == GeSpec => []WorstReplaced
  <1>1. GeInit => WeakInv
    BY DEF GeInit, WeakInv
  <1>2. WeakInv /\ GeInv => WorstReplaced
    BY ReplacesWorst
  <1> QED BY <1>1, <1>2, WeakNext, GeneticInvariant, PTL DEF GeSpec

=============================================================================
