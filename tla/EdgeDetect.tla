----------------------------- MODULE EdgeDetect -----------------------------
(***************************************************************************)
(* The main meter's power curve and the steps found in it: IO::live_write  *)
(* and IO::edge_detect, which the io thread calls one after the other for  *)
(* each live value.                                                        *)
(*                                                                         *)
(* live_write puts the value into the ring x and the median of the last    *)
(* FilterLength values into the ring y. edge_detect looks at y a window    *)
(* back for a step between two stable levels, marks the two samples before *)
(* it (Check) and stores the step for the clustering of appliances. The    *)
(* mark must keep a step that three positions of the window and the next   *)
(* samples see again from being stored twice, and must not outlive the     *)
(* sample it was put on when the ring comes round.                         *)
(*                                                                         *)
(* The step is marked before it is stored, and nialm_db_write goes on when *)
(* a statement fails (a database locked for longer than its timeout, a     *)
(* table that could not be created): that step has no row, and nothing     *)
(* tries again.                                                            *)
(*                                                                         *)
(* A sample's number stands for its epoch. Loads of the household change   *)
(* in steps; the values and the moments of the steps are free.             *)
(***************************************************************************)
EXTENDS Integers, Sequences, FiniteSets

CONSTANTS
  BufferLength,   \* BUFFERLENGTH: 512 in the program
  FilterLength,   \* N of live_write: 11
  WindowSize,     \* WINDOW_SIZE: 12
  Space,          \* space: 10
  Marker,         \* marker: 2
  Loads,          \* the values of deviceValueCalc
  MinDwell,       \* the fewest samples a load lasts
  MaxChanges,     \* bound: steps of the load
  MaxSamples      \* bound: samples

\* sizes that fit together, as the program's do
ASSUME FilterAssumption ==
  /\ BufferLength \in Nat /\ WindowSize \in 1 .. BufferLength - 1
  /\ FilterLength \in 7 .. BufferLength /\ FilterLength % 2 = 1
  /\ Space \in 6 .. WindowSize
  /\ Marker = 2

ASSUME LoadAssumption ==
  /\ Loads \subseteq Nat
  /\ MinDwell \in Nat /\ MaxChanges \in Nat /\ MaxSamples \in Nat

EdgeSlot == 0 .. BufferLength - 1

Magnitude(v) == IF v < 0 THEN -v ELSE v

Threshold(a, b) == Magnitude(25 + (a + b) \div 200)
Tolerance(a, b) == Magnitude(10 + (a + b) \div 200)

\* What the household must give: loads that outlast half the filter and differ
\* by more than the threshold. A load of 0 would keep the marks of its slots.
ASSUME StepAssumption ==
  /\ MinDwell > FilterLength \div 2
  /\ 0 \notin Loads
  /\ \A v, w \in Loads : v # w => Magnitude(v - w) > Threshold(v, v)

VARIABLES
  x,        \* x[s]: the Values of the ring x
  y,        \* y[s]: Epoch, Value and Check of the ring y
  n,        \* buffercounter
  count,    \* the number of the newest sample
  nialm,    \* the calls of nialm_db_write, oldest first: the row, and the rc
            \* of its INSERT; those that were "ok" are the table's rows
  levels    \* history: the loads so far: their value and first sample

edVars == <<x, y, n, count, nialm, levels>>

\* the slot k places after s; k may be negative
At(s, k) == (s + k) % BufferLength

NextSlot(s) == IF s + 1 = BufferLength THEN 0 ELSE s + 1

-----------------------------------------------------------------------------
(* IO::live_write                                                          *)

\* the middle one of the last FilterLength values of ring r that ends at s
Median(r, s) ==
  LET last == 0 .. FilterLength - 1
      v(k) == r[At(s, -k)]
      below(k) == Cardinality({j \in last : v(j) < v(k)})
      upto(k) == Cardinality({j \in last : v(j) <= v(k)})
      middle == (FilterLength - 1) \div 2
  IN  v(CHOOSE k \in last : below(k) <= middle /\ middle < upto(k))

\* (mutant of Filtered) a new sample keeps the mark of the old one
FilteredKeepsMark(old, epoch, v) ==
  [epoch |-> epoch, value |-> v, check |-> old.check]

\* the new sample of y; a 0 keeps the mark of the slot's old sample
Filtered(old, epoch, v) ==
  [epoch |-> epoch, value |-> v, check |-> IF v > 0 THEN FALSE ELSE old.check]

-----------------------------------------------------------------------------
(* IO::edge_detect over the ring r that ends at slot s                     *)

\* The window position t: p(z) is i[z] of the code.
Position(s, t) == [z \in 0 .. Space - 1 |-> At(s, z - t)]

\* a step may start here: p(0) and p(1) are level, p(3) is not
Starts(r, p) ==
  LET v(z) == r[p[z]].value IN
  /\ Magnitude(v(3) - v(1)) > Threshold(v(1), v(0))
  /\ Magnitude(v(1) - v(0)) < Tolerance(v(1), v(0))

\* it ends level at p(3 + k)
Ends(r, p, k) ==
  LET v(z) == r[p[z]].value IN
  /\ Magnitude(v(3 + k) - v(2 + k)) < Tolerance(v(3 + k), v(2 + k))
  /\ Magnitude(v(3 + k) - v(1)) > Threshold(v(1), v(0))

Unmarked(r, p) == \A j \in 0 .. Marker - 1 : ~r[p[j]].check

Mark(r, p) ==
  [q \in EdgeSlot |-> IF \E j \in 0 .. Marker - 1 : q = p[j]
                      THEN [r[q] EXCEPT !.check = TRUE] ELSE r[q]]

\* (mutant of Row) the time at which the new level is seen
RowAtEnd(r, p, k) ==
  [epoch |-> r[p[Space - 1]].epoch, power |-> r[p[0]].value,
   dP |-> r[p[3 + k]].value - r[p[1]].value]

\* nialm_db_write(epoch, power, dP)
Row(r, p, k) ==
  [epoch |-> r[p[0]].epoch, power |-> r[p[0]].value,
   dP |-> r[p[3 + k]].value - r[p[1]].value]

\* nialm_db_write: it returns nothing, so its caller goes on in either case.
Write(rows, row, rc) == Append(rows, [row |-> row, rc |-> rc])

\* One position: the first k at which the step ends is stored, for the mark
\* stops the others. The step is marked whatever becomes of its INSERT.
Scan(found, s, t, rc) ==
  LET r == found.ring
      p == Position(s, t)
      ks == {k \in 0 .. Space - 5 : Ends(r, p, k)}
      k0 == CHOOSE k \in ks : \A j \in ks : k <= j
  IN  IF Starts(r, p) /\ ks # {} /\ Unmarked(r, p)
      THEN [ring |-> Mark(r, p),
            rows |-> Write(found.rows, Row(r, p, k0), rc)]
      ELSE found

\* the positions of the window, from WindowSize down to Space
Detect(r, s, rc) ==
  LET found[j \in 0 .. WindowSize - Space + 1] ==
        IF j = 0 THEN [ring |-> r, rows |-> nialm]
        ELSE Scan(found[j - 1], s, WindowSize + 1 - j, rc)
  IN  found[WindowSize - Space + 1]

-----------------------------------------------------------------------------
Level == levels[Len(levels)]

EdInit ==
  /\ x = [s \in EdgeSlot |-> 0]
  /\ y = [s \in EdgeSlot |-> [epoch |-> 0, value |-> 0, check |-> TRUE]]
  /\ n = 0 /\ count = 0
  /\ nialm = <<>>
  /\ levels \in {<<[value |-> v, first |-> 1]>> : v \in Loads}

\* live_write, then edge_detect. One rc serves the sample: loads of MinDwell
\* samples bring no two steps to the window's positions at once.
LiveWrite(v) ==
  LET s == NextSlot(n)
      xs == [x EXCEPT ![s] = v]
      ys == [y EXCEPT ![s] = Filtered(@, count + 1, Median(xs, s))]
  IN
  /\ n' = s /\ count' = count + 1
  /\ x' = xs
  /\ \E rc \in {"ok", "error"} :
       LET found == Detect(ys, s, rc) IN y' = found.ring /\ nialm' = found.rows

Stay ==
  /\ count < MaxSamples
  /\ LiveWrite(Level.value)
  /\ UNCHANGED levels

\* the load changes when it has lasted for MinDwell samples
Step ==
  /\ count < MaxSamples /\ Len(levels) <= MaxChanges
  /\ count + 1 - Level.first >= MinDwell
  /\ \E v \in Loads \ {Level.value} :
       /\ LiveWrite(v)
       /\ levels' = Append(levels, [value |-> v, first |-> count + 1])

\* the bound is reached
Done == count = MaxSamples /\ UNCHANGED edVars

EdNext == Stay \/ Step \/ Done

EdSpec == EdInit /\ [][EdNext]_edVars

-----------------------------------------------------------------------------
(* Properties                                                              *)

\* how late a step is found: half the filter, then until the near end of the
\* window has the step between its third and its fourth sample
Delay == (FilterLength - 1) \div 2 + Space - 3

\* Every step of the load is handed to nialm_db_write as soon as it can be
\* seen, once, in its order and with its size, whether or not the INSERTs of it
\* and of the steps before it succeed, and nothing else is: not the start from
\* 0, not a step that the window sees again, and none is passed over where a
\* mark was left by an earlier one. So the table has at most one row of a step,
\* and lacks only those whose one INSERT failed.
StepsOnce ==
  LET ripe == {j \in 2 .. Len(levels) : levels[j].first + Delay <= count} IN
  /\ Len(nialm) = Cardinality(ripe)
  /\ \A j \in 1 .. Len(nialm) :
       /\ nialm[j].row.power = levels[j].value
       /\ nialm[j].row.dP = levels[j + 1].value - levels[j].value

\* The epoch written with a step is that of a sample near it: the clustering
\* pairs the steps of an appliance by their times.
EpochNear ==
  \A j \in 1 .. Len(nialm) :
    nialm[j].row.epoch - levels[j + 1].first \in 0 .. FilterLength \div 2

=============================================================================
