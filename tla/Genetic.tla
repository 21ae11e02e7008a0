------------------------------- MODULE Genetic ------------------------------
(***************************************************************************)
(* cluster.c: the genetic search that puts rising and falling clusters     *)
(* together into devices (genetic, Cross, Mutate, quality), and savetodb,  *)
(* which writes the devices to nialm.db.                                   *)
(*                                                                         *)
(* A row of the population chooses columns, and column r stands for the    *)
(* r-th of the clusters that no device has yet (viite). Nc is the number   *)
(* of columns; the search keeps it apart from the list. The qualities are  *)
(* floating-point sums: here any numbers, as any row may become the best.  *)
(***************************************************************************)
EXTENDS Integers, Sequences, FiniteSets

CONSTANTS
  Real,        \* the number of clusters found, rising and falling
  Qualities,   \* values of Q; smaller is better
  PreviousVal, \* what the first turn of Cross starts below: 10000000
  MaxDevices   \* bound: devices found, empty ones included

\* A quality is more than 0 and stays below previousVal: it is at most
\* 3000000 for what a row must not choose and 3.5 for each cluster.
ASSUME GeneticAssumption ==
  /\ Real \in Nat /\ MaxDevices \in Nat
  /\ PreviousVal \in Nat /\ Qualities \subseteq 1 .. PreviousVal - 1

VARIABLES
  viite,     \* the clusters without a device
  Nc,        \* the number of columns
  devices,   \* the clusters of each device
  ge,        \* "evolve", "cross", "save" or "saved"
  Q,         \* the qualities of the generation that is crossed
  weak,      \* max of Cross: the rows to be replaced
  table      \* the column deviceId of the table clusters

geVars == <<viite, Nc, devices, ge, Q, weak, table>>

RealOnes == 0 .. Real - 1

\* two clusters that are none, for Nc to be above 2 at the start
Impossible == {Real, Real + 1}

Index == 0 .. Real + 1

\* the size of the population stays what it was at the start
Nv == (Real + 2) \div 2 + 5

Row == 0 .. Nv - 1

NoQ == [r \in Row |-> 1]

GeInit ==
  /\ viite = Index /\ Nc = Real + 2 /\ devices = <<>>
  /\ ge = IF Real > 0 THEN "evolve" ELSE "save"
  /\ Q = NoQ /\ weak = {}
  /\ table = [k \in RealOnes |-> -1]

-----------------------------------------------------------------------------
(* Cross                                                                   *)

\* Each turn takes the first row of the largest quality below that of the
\* turn before; when there is none it leaves row 0.
Turns(q, n) ==
  LET Below(v) == {r \in Row : q[r] < v}
      first(v) == CHOOSE r \in Below(v) : \A o \in Below(v) :
                    q[o] < q[r] \/ (q[o] = q[r] /\ r <= o)
      turn[k \in 0 .. n] ==
        IF k = 0 THEN [row |-> 0, value |-> PreviousVal]
        ELSE LET v == turn[k - 1].value
             IN  IF Below(v) = {} THEN [row |-> 0, value |-> 0]
                 ELSE [row |-> first(v), value |-> q[first(v)]]
  IN  turn

\* (mutant of Weakest) every turn is the first
WeakestOnce(q, n) == {Turns(q, n)[1].row : k \in 1 .. n}

Weakest(q, n) == {Turns(q, n)[k].row : k \in 1 .. n}

\* A generation is crossed. The children are left out: what they change is
\* the next generation's qualities, and any come here. One generation stands
\* for the 20000 between two devices.
Select ==
  /\ ge = "evolve"
  /\ Q' \in [Row -> Qualities]
  /\ weak' = Weakest(Q', Nc \div 2)
  /\ ge' = "cross"
  /\ UNCHANGED <<viite, Nc, devices, table>>

\* (mutant of Candidates) parents are drawn from the rows to be replaced
CandidatesWeak == weak

\* rand() % (Nv - 1), again and again until the row is not a weak one
Candidates == (0 .. Nv - 2) \ weak

-----------------------------------------------------------------------------
\* (mutant of TakeBest) the search ends with one cluster too many
TakeBestEarly(S) ==
  /\ ge \in {"evolve", "cross"} /\ Len(devices) < MaxDevices
  /\ devices' = Append(devices, S)
  /\ viite' = viite \ S
  /\ Nc' = Nc - (Cardinality(viite) - Cardinality(viite'))
  /\ ge' = IF Nc' > 3 THEN "evolve" ELSE "save"
  /\ Q' = NoQ /\ weak' = {}
  /\ UNCHANGED table

\* (mutant of TakeBest) viite is assigned before its size is taken
TakeBestLate(S) ==
  /\ ge \in {"evolve", "cross"} /\ Len(devices) < MaxDevices
  /\ devices' = Append(devices, S)
  /\ viite' = viite \ S
  /\ Nc' = Nc - (Cardinality(viite') - Cardinality(viite'))
  /\ ge' = IF Nc' > 2 THEN "evolve" ELSE "save"
  /\ Q' = NoQ /\ weak' = {}
  /\ UNCHANGED table

\* Round 20000: the best row becomes a device. When no row is a possible
\* device, row 0 becomes one, whatever it has chosen, even nothing.
TakeBest(S) ==
  /\ ge \in {"evolve", "cross"} /\ Len(devices) < MaxDevices
  /\ devices' = Append(devices, S)
  /\ viite' = viite \ S
  /\ Nc' = Nc - (Cardinality(viite) - Cardinality(viite'))
  /\ ge' = IF Nc' > 2 THEN "evolve" ELSE "save"
  /\ Q' = NoQ /\ weak' = {}
  /\ UNCHANGED table

\* the device savetodb finds first, or -1
DeviceOf(k) ==
  LET D == {d \in DOMAIN devices : k \in devices[d]}
  IN  IF D = {} THEN -1 ELSE (CHOOSE d \in D : \A o \in D : d <= o) - 1

SaveToDb ==
  /\ ge = "save"
  /\ table' = [k \in RealOnes |-> DeviceOf(k)]
  /\ ge' = "saved"
  /\ UNCHANGED <<viite, Nc, devices, Q, weak>>

GeNext ==
  \/ Select
  \/ \E S \in SUBSET viite : TakeBest(S)
  \/ SaveToDb

GeSpec == GeInit /\ [][GeNext]_geVars

-----------------------------------------------------------------------------
(* Properties                                                              *)

\* Every cluster is in one device or still waits for one: none is lost and
\* none is given twice, however the search goes, and the columns are as many
\* as the clusters that wait: a row's last column is a cluster of viite.
Partition ==
  /\ Nc = Cardinality(viite)
  /\ Index = viite \union UNION {devices[d] : d \in DOMAIN devices}
  /\ \A d \in DOMAIN devices :
       /\ devices[d] \intersect viite = {}
       /\ \A e \in DOMAIN devices : d # e => devices[d] \intersect devices[e] = {}

\* The draws of Cross can end: two different parents that are not weak are
\* there, for the population keeps its size while the list of weak rows
\* shrinks, and the crossing points are drawn from a range that is not empty.
CrossDraws ==
  ge = "cross" => /\ \E a, b \in Candidates : a # b
                  /\ Nc - 1 - Nc \div 2 > 0

\* "The largest values (the weakest individuals)": each of the Nc / 2 largest
\* qualities loses a row, and no row of a better one is lost, but for row 0
\* when the population has fewer different qualities.
WorstReplaced ==
  ge = "cross" =>
    LET values == {Q[r] : r \in Row}
        largest == {v \in values : Cardinality({u \in values : u > v}) < Nc \div 2}
    IN  /\ largest \subseteq {Q[w] : w \in weak}
        /\ \A w \in weak : w = 0 \/ Q[w] \in largest

\* What is saved: at most two clusters are left without a device, and each
\* of the others is in the table with the one device that holds it.
SavedWhole ==
  ge = "saved" =>
    /\ Cardinality({k \in RealOnes : table[k] = -1}) <= 2
    /\ \A k \in RealOnes, d \in DOMAIN devices : k \in devices[d] <=> table[k] = d - 1

=============================================================================
