------------------------------- MODULE CMeans -------------------------------
(***************************************************************************)
(* cluster.c: the hard clustering of one day list's steps of one sign      *)
(* (c_means, c_meansEigen, dB) and the mean period of each cluster         *)
(* (calcPeriods).  Trial starts are drawn at random until two of them      *)
(* improve the Davies-Bouldin index; the second one is then iterated.      *)
(*                                                                         *)
(* The program's doubles are exact fractions <<numerator, denominator>>    *)
(* here; standard deviations are cut to integers, as in the code.          *)
(***************************************************************************)
EXTENDS Integers, Sequences, FiniteSets, FiniteSetsExt

CONSTANTS Powers,     \* the sizes of a step, |dP|
          Gaps,       \* seconds between two steps
          MinSteps,   \* bounds of the number
          MaxSteps,   \* of steps in the data
          C,          \* the number of clusters asked for
          Iterations  \* 100: iterations after the start is chosen

ASSUME CMeansAssumption ==
    /\ Powers \subseteq Nat \ {0} /\ Gaps \subseteq Nat
    /\ MinSteps \in Nat \ {0, 1} /\ MaxSteps \in Nat
    /\ C \in Nat \ {0} /\ Iterations \in Nat \ {0}

VARIABLES type,   \* 1 for the rising steps, -1 for the falling ones
          x,      \* dP of the steps, in the order of the tables
          epochOf, \* their times, which only calcPeriods reads: chosen there
          of,     \* x[i].N: the cluster a step is in
          c,      \* the clusters: [mean, N, std]; empty between two starts
          alfa,   \* improvements found so far, above Trials in the last pass
          left,   \* iterations left in this pass, -1 between two passes
          minDB,  \* index of the best start, NoIndex before the first
          period  \* clust[k].period, 0 until calcPeriods

cmVars == <<type, x, epochOf, of, c, alfa, left, minDB, period>>

Trials  == 2          \* iter - 1
NoIndex == <<1000000, 1>>
Cluster == 1..C
Item    == DOMAIN x

Abs(n) == IF n < 0 THEN 0 - n ELSE n
Minus(p, q)  == <<p[1] * q[2] - q[1] * p[2], p[2] * q[2]>>
Gcd[a \in Nat, b \in Nat] == IF b = 0 THEN a ELSE Gcd[b, a % b]
Plus(p, q)   == LET n == p[1] * q[2] + q[1] * p[2]
                    d == p[2] * q[2]
                    g == Gcd[Abs(n), d]
                IN  IF g = 0 THEN <<n, d>> ELSE <<n \div g, d \div g>>
Less(p, q)   == p[1] * q[2] < q[1] * p[2]
Distance(p, q) == LET d == Minus(p, q) IN <<Abs(d[1]), d[2]>>
-----------------------------------------------------------------------------
Members(f, k) == {i \in Item : f[i] = k}
\* The sum of V(i) over the members i of cluster k.
SumOf(f, k, V(_)) ==
    LET sum[i \in 0..Len(x)] ==
            IF i = 0 THEN 0 ELSE sum[i - 1] + (IF f[i] = k THEN V(i) ELSE 0)
    IN  sum[Len(x)]
Size(f, k)  == SumOf(f, k, LAMBDA i : 1)
Total(f, k) == SumOf(f, k, LAMBDA i : x[i])

\* The nearest cluster, the first one among equals.
Nearest(v, means) ==
    CHOOSE j \in Cluster :
        \A k \in Cluster : LET dj == Distance(<<v, 1>>, means[j])
                             dk == Distance(<<v, 1>>, means[k])
                         IN  IF k < j THEN Less(dj, dk) ELSE ~Less(dk, dj)

Assigned(means) == [i \in Item |-> Nearest(x[i], means)]

\* An empty cluster keeps its mean.
Mean(f, k, old) ==
    IF Members(f, k) = {} THEN old ELSE <<Total(f, k), Size(f, k)>>

\* (int) sqrt of the variance of a cluster with n members, sum s, squares q
Std(n, s, q) == CHOOSE d \in 0..(Abs(s) + 1) : /\ d * d * n * n <= q * n - s * s
                                               /\ (d + 1) * (d + 1) * n * n > q * n - s * s

\* c_meansEigen: members are added to N; an empty cluster keeps its std.
Eigen(f, cl) ==
    [k \in Cluster |->
        [mean |-> cl[k].mean, N |-> cl[k].N + Size(f, k),
         std  |-> IF Members(f, k) = {} THEN cl[k].std
                  ELSE Std(Size(f, k), Total(f, k), SumOf(f, k, LAMBDA i : x[i] * x[i]))]]

\* Davies-Bouldin index of clusters with different means.
DB(cl) ==
    LET Pair(i, j) == LET d == Distance(cl[i].mean, cl[j].mean)
                      IN  <<(cl[i].std + cl[j].std) * d[2], d[1]>>
        worst[i \in Cluster, j \in 0..C] ==
            IF j = 0 THEN <<0, 1>>
            ELSE LET w == worst[i, j - 1]
                 IN  IF j # i /\ Less(w, Pair(i, j)) THEN Pair(i, j) ELSE w
        sum[i \in 0..C] == IF i = 0 THEN <<0, 1>> ELSE Plus(sum[i - 1], worst[i, C])
    IN  <<sum[C][1], sum[C][2] * C>>
-----------------------------------------------------------------------------
Epochs(gap) == LET epochs[i \in Item] == gap[i] + (IF i = 1 THEN 0 ELSE epochs[i - 1])
               IN  epochs

CMInit ==
    /\ type \in {1, 0 - 1}
    /\ \E n \in MinSteps..MaxSteps : \E p \in [1..n -> Powers] : x = [i \in 1..n |-> type * p[i]]
    /\ epochOf = <<>>
    /\ of = [i \in Item |-> 1]
    /\ c = <<>> /\ alfa = 0 /\ left = 0 - 1 /\ minDB = NoIndex
    /\ period = [k \in Cluster |-> 0]

\* A start is C draws from all steps but the last: rand() % (N - 1).
Draws == [Cluster -> 1..(MaxSteps - 1)]
Drawn(draw) == [k \in Cluster |-> [mean |-> <<x[draw[k]], 1>>, N |-> 0, std |-> 0]]

Draw(draw) ==
    /\ alfa < Trials /\ left = 0 - 1
    /\ \A k \in Cluster : draw[k] < Len(x)
    /\ c' = Drawn(draw) /\ left' = 1
    /\ UNCHANGED <<type, x, epochOf, of, alfa, minDB, period>>

\* Counts are cleared, means and deviations of the second start kept.
Reset(cl) == [k \in Cluster |-> [cl[k] EXCEPT !.N = 0]]

LastPass ==
    /\ alfa = Trials /\ left = 0 - 1
    /\ c' = Reset(c) /\ left' = Iterations /\ alfa' = Trials + 1
    /\ UNCHANGED <<type, x, epochOf, of, minDB, period>>

\* (mutant of Iterate) the means are those of the assignment before
IterateSwapped ==
    /\ left > 0
    /\ of' = Assigned([k \in Cluster |-> c[k].mean])
    /\ c' = [k \in Cluster |-> [c[k] EXCEPT !.mean = Mean(of, k, c[k].mean)]]
    /\ left' = left - 1
    /\ UNCHANGED <<type, x, epochOf, alfa, minDB, period>>

Iterate ==
    /\ left > 0
    /\ LET f == Assigned([k \in Cluster |-> c[k].mean])
       IN  /\ of' = f
           /\ c' = [k \in Cluster |-> [c[k] EXCEPT !.mean = Mean(f, k, c[k].mean)]]
    /\ left' = left - 1
    /\ UNCHANGED <<type, x, epochOf, alfa, minDB, period>>

Improves(f, cl) == (\A k \in Cluster : Members(f, k) # {}) /\ Less(DB(cl), minDB)

\* The end of a pass.  What a start that does not improve leaves behind is
\* cleared by the next one.
Judge ==
    /\ left = 0 /\ alfa \in 0..(Trials + 1)
    /\ LET cl == Eigen(of, c)
       IN  IF Improves(of, cl)
           THEN c' = cl /\ of' = of /\ minDB' = DB(cl)
           ELSE /\ minDB' = minDB
                /\ IF alfa < Trials THEN c' = <<>> /\ of' = [i \in Item |-> 1]
                                    ELSE c' = cl /\ of' = of
    /\ alfa' = IF alfa > Trials \/ Improves(of, Eigen(of, c)) THEN alfa + 1 ELSE alfa
    /\ left' = 0 - 1
    /\ UNCHANGED <<type, x, epochOf, period>>

\* (mutant of Matches) a step is matched with every later one
MatchesAll == {p \in Item \X Item : p[1] < p[2] /\ of[p[1]] = of[p[2]]}

\* calcPeriods: each step is matched with the next unused step of its
\* cluster; the period is the mean of the gaps, cut towards zero.
Matches ==
    LET upto[i \in 0..(Len(x) - 1)] ==
            IF i = 0 THEN [s |-> {}, pairs |-> {}]
            ELSE LET p == upto[i - 1]
                     next == {j \in (i + 1)..Len(x) : of[j] = of[i] /\ j \notin p.s}
                 IN  IF next = {} THEN p
                     ELSE [s |-> p.s \cup {Min(next)}, pairs |-> p.pairs \cup {<<i, Min(next)>>}]
    IN  upto[Len(x) - 1].pairs

Cut(s, n) == IF s < 0 THEN 0 - (Abs(s) \div n) ELSE s \div n

CalcPeriods ==
    /\ alfa = Trials + 2 /\ left = 0 - 1
    /\ \E gap \in [Item -> Gaps] : epochOf' = Epochs(gap)
    /\ period' = [k \in Cluster |->
            LET P == {p \in Matches : of[p[1]] = k}
            IN  IF P = {} THEN period[k]
                ELSE type * Cut(MapThenSumSet(LAMBDA p : epochOf'[p[2]] - epochOf'[p[1]], P),
                                Cardinality(P))]
    /\ left' = 0
    /\ UNCHANGED <<type, x, of, c, alfa, minDB>>

Ended == alfa = Trials + 2

CMNext == \/ \E draw \in Draws : Draw(draw)
          \/ Iterate \/ Judge \/ LastPass \/ CalcPeriods

CMSpec == CMInit /\ [][CMNext]_cmVars
-----------------------------------------------------------------------------
\* Every step is in the cluster whose mean is nearest.
FixedPoint == Ended => of = Assigned([k \in Cluster |-> c[k].mean])

\* The means are those of the members, and N counts them, whatever the starts
\* before the last pass counted (prob is made of N).
MembersCounted ==
    Ended => \A k \in Cluster : /\ c[k].mean = Mean(of, k, c[k].mean)
                                /\ c[k].N = Size(of, k)

\* The last pass ends in a fixed point.
Converged == FixedPoint /\ MembersCounted

\* The period of a cluster is the mean of all gaps between its steps, that
\* is from its first step to its last: matching each step with the next one
\* of the cluster skips none and takes none twice (calcPeriods).
PeriodIsMean ==
    Ended /\ left = 0 =>
        \A k \in Cluster :
            LET S == Members(of, k)
            IN  Cardinality(S) > 1 =>
                    period[k] = type * ((epochOf[Max(S)] - epochOf[Min(S)]) \div (Cardinality(S) - 1))
=============================================================================
