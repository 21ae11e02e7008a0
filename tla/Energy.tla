------------------------------- MODULE Energy -------------------------------
(***************************************************************************)
(* cluster.c, calcEnergy: the energy of each appliance. Every step of the  *)
(* main meter is given its most probable cluster (bayes), and three rounds *)
(* over the steps pair each rising one with the next falling one of the    *)
(* same device. The power of a pair, times the time between its steps, is  *)
(* added to devices[deviceId].                                             *)
(*                                                                         *)
(* The administrator's page maps clusters to devices in the two tables     *)
(* that calcEnergy reads in a statement each. Names and powers are left    *)
(* out: a step rises or falls.                                             *)
(***************************************************************************)
EXTENDS Integers, FiniteSets

CONSTANTS
  Clusters,     \* the ids of the clusters, 0 among them
  RisingOnes,   \* those of rising steps (dP > 0)
  Period,       \* the column period: [Clusters -> Int]
  Found,        \* the column deviceId that savetodb wrote
  FoundDevices, \* how many rows it wrote to the table devices
  Intervals,    \* seconds between two steps
  LastStep,     \* bound: the number of the last step, from 0
  MaxEdits,     \* bound: requests the page is sent
  MaxDeviceRows \* bound: rows of the table devices

Unmapped == -1

Ids(n) == Unmapped .. n - 1

ASSUME ClustersAssumption ==
  /\ Clusters \subseteq Nat /\ 0 \in Clusters /\ RisingOnes \subseteq Clusters
  /\ Period \in [Clusters -> Int]
  /\ FoundDevices \in Nat /\ Found \in [Clusters -> Ids(FoundDevices)]

ASSUME StepsAssumption ==
  LastStep \in Nat /\ Intervals \subseteq Nat /\ MaxEdits \in Nat /\ MaxDeviceRows \in Nat

Steps == 0 .. LastStep

VARIABLES
  deviceRows,   \* the number of rows of the table devices
  mapping,      \* the column deviceId of the table clusters
  cut,          \* the device whose row is deleted while its clusters keep it
  edits,        \* how much of MaxEdits is used up
  en,           \* how far calcEnergy has come
  rising,       \* raw[j].dP > 0
  epoch,        \* raw[j].epoch
  series,       \* the cluster of step j
  devicesRead,  \* how many devices calcEnergy has read
  deviceId,     \* clust[k].deviceId
  round, step,  \* the loops over the rounds and the steps
  used,         \* the steps with raw[j].s
  pairs,        \* the pairs whose energy was added
  torn          \* history: the page was at work between the two reads

tables == <<deviceRows, mapping, cut, edits>>
data == <<rising, epoch, series>>
read == <<devicesRead, deviceId, torn>>
matching == <<round, step, used, pairs>>
enVars == <<tables, en, data, read, matching>>

Rounds == 3

Device(j) == deviceId[series[j]]

EnInit ==
  /\ deviceRows = FoundDevices /\ mapping = Found /\ cut = Unmapped /\ edits = 0
  /\ en = "devices"
  /\ rising = [j \in Steps |-> FALSE] /\ epoch = [j \in Steps |-> 0]
  /\ series = [j \in Steps |-> 0]
  /\ devicesRead = 0 /\ deviceId = [k \in Clusters |-> Unmapped] /\ torn = FALSE
  /\ round = 0 /\ step = 0 /\ used = {} /\ pairs = {}

-----------------------------------------------------------------------------
(* The page: one administrator, one statement at a time                    *)

\* what it does after both reads is left out
Edit ==
  /\ cut = Unmapped /\ edits < MaxEdits /\ en \in {"devices", "clusters"}
  /\ edits' = edits + 1
  /\ torn' = (torn \/ en = "clusters")
  /\ UNCHANGED <<en, data, devicesRead, deviceId, matching>>

AddDevice ==
  /\ Edit /\ deviceRows < MaxDeviceRows
  /\ deviceRows' = deviceRows + 1
  /\ UNCHANGED <<mapping, cut>>

Assign(k, d) ==
  /\ Edit
  /\ mapping' = [mapping EXCEPT ![k] = d]
  /\ UNCHANGED <<deviceRows, cut>>

\* the last device; the first two stay
DeleteDevice ==
  /\ Edit /\ deviceRows >= 3
  /\ deviceRows' = deviceRows - 1
  /\ cut' = deviceRows - 1
  /\ UNCHANGED mapping

\* (mutant of Unmap) the clusters keep the device that is gone
UnmapNone ==
  /\ cut # Unmapped
  /\ cut' = Unmapped
  /\ UNCHANGED <<deviceRows, mapping, edits, en, data, read, matching>>

Unmap ==
  /\ cut # Unmapped
  /\ mapping' = [k \in Clusters |-> IF mapping[k] = cut THEN Unmapped ELSE mapping[k]]
  /\ cut' = Unmapped
  /\ UNCHANGED <<deviceRows, edits, en, data, read, matching>>

-----------------------------------------------------------------------------
(* calcEnergy                                                              *)

ReadDevices ==
  /\ en = "devices"
  /\ devicesRead' = deviceRows
  /\ torn' = (cut # Unmapped)
  /\ en' = "clusters"
  /\ UNCHANGED <<tables, data, deviceId, matching>>

ReadClusters ==
  /\ en = "clusters"
  /\ deviceId' = mapping
  /\ en' = "series"
  /\ UNCHANGED <<tables, data, devicesRead, torn, matching>>

\* bayes: a probability that is not above 0 (no cluster of this sign, a
\* deviation of 0, a step far from every mean) leaves the index at 0.
Likely(up) == {k \in Clusters : (k \in RisingOnes) = up} \union {0}

Times(gap) ==
  LET time[j \in Steps] == IF j = 0 THEN 0 ELSE time[j - 1] + gap[j]
  IN  [j \in Steps |-> time[j]]

Classify ==
  /\ en = "series"
  /\ rising' \in [Steps -> BOOLEAN]
  /\ series' \in {f \in [Steps -> Clusters] : \A j \in Steps : f[j] \in Likely(rising'[j])}
  /\ \E gap \in [Steps \ {0} -> Intervals] : epoch' = Times(gap)
  /\ en' = "pair"
  /\ UNCHANGED <<tables, read, matching>>

\* the steps the inner loop comes to from the rising step a
InTime(a, b) ==
  /\ a < b
  /\ \A j \in a + 1 .. b : epoch[j] - epoch[a] < 2 * Period[series[a]]

\* (mutant of Unused) the falling step is not marked
UnusedRising(j) == j \in used => ~rising[j]

Unused(j) == j \notin used

\* The inner loop ends at the first unused step of the device.
Stops(a, b) == InTime(a, b) /\ Unused(b) /\ Device(b) = Device(a)

\* (mutant of First) a rising step does not end it
FirstFalling(a, b) ==
  /\ Stops(a, b) /\ ~rising[b]
  /\ \A j \in a + 1 .. b - 1 : ~(Stops(a, j) /\ ~rising[j])

First(a, b) == Stops(a, b) /\ \A j \in a + 1 .. b - 1 : ~Stops(a, j)

Pairs(a, b) == rising[a] /\ Unused(a) /\ First(a, b) /\ ~rising[b]

Advance ==
  IF step + 1 < LastStep THEN step' = step + 1 /\ round' = round
                         ELSE step' = 0 /\ round' = round + 1

Pair(b) ==
  /\ en = "pair" /\ round < Rounds /\ step < LastStep
  /\ Pairs(step, b)
  /\ pairs' = pairs \union {<<step, b>>}
  /\ used' = used \union {step, b}
  /\ Advance
  /\ UNCHANGED <<tables, en, data, read>>

NoPair ==
  /\ en = "pair" /\ round < Rounds /\ step < LastStep
  /\ ~\E b \in Steps : Pairs(step, b)
  /\ Advance
  /\ UNCHANGED <<tables, en, data, read, used, pairs>>

EnNext ==
  \/ AddDevice \/ DeleteDevice \/ Unmap
  \/ \E k \in Clusters, d \in Ids(deviceRows) : Assign(k, d)
  \/ ReadDevices \/ ReadClusters \/ Classify
  \/ \E b \in Steps : Pair(b)
  \/ NoPair

EnSpec == EnInit /\ [][EnNext]_enVars

-----------------------------------------------------------------------------
(* Properties                                                              *)

\* The times of two pairs of one device lie apart or one inside the other:
\* three rounds never find a pair that crosses an earlier one, although a
\* later round sees other steps as unused (the break at a rising step).
NestedPairs ==
  \A p, q \in pairs :
    Device(p[1]) = Device(q[1]) => ~(p[1] < q[1] /\ q[1] < p[2] /\ p[2] < q[2])

\* No step's power is counted twice.
CountedOnce ==
  \A p, q \in pairs : {p[1], p[2]} \intersect {q[1], q[2]} # {} => p = q

\* Where the page did nothing between the two reads, energy is added to a
\* device that was read, or to index -1: the device of "unmapped" clusters,
\* which devices[] does not have.
InRange ==
  ~torn => \A p \in pairs : Device(p[1]) \in Ids(devicesRead)

\* "an unknown device - do nothing": no energy for an unmapped cluster
UnknownAddsNothing == \A p \in pairs : Device(p[1]) # Unmapped

=============================================================================
