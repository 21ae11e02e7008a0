--------------------------- MODULE PulseLogProofs ---------------------------
(* Proofs about PulseLog, for any number of meters, any length of the day  *)
(* and of the run.                                                         *)
EXTENDS PulseLogRefinement, TLAPS

(* Facts about the clock                                                   *)

LEMMA SuccInTime ==
  ASSUME NEW t \in Time, ~IsLastMinute(t)
  PROVE  Succ(t) \in Time
<1> USE TimeAssumption DEF Time, ATime, Day, Succ, Midnight, IsLastMinute
<1>1. CASE t.min < MinutesPerHour - 1
  <2>1. Succ(t) = [day |-> t.day, hour |-> t.hour, min |-> t.min + 1]
    BY <1>1
  <2>2. t.min + 1 \in 0 .. MinutesPerHour - 1 /\ t.min + 1 # 0
    BY <1>1
  <2>3. t.day \in Day /\ t.hour \in 0 .. HoursPerDay - 1
    OBVIOUS
  <2>4. Succ(t) \in ATime /\ Succ(t).min # 0
    BY ONLY <2>1, <2>2, <2>3 DEF ATime
  <2>5. QED
    BY ONLY <2>4 DEF Time, Midnight
<1>2. CASE ~(t.min < MinutesPerHour - 1) /\ t.hour < HoursPerDay - 1
  <2>1. Succ(t) = [day |-> t.day, hour |-> t.hour + 1, min |-> 0]
    BY <1>2
  <2>2. t.hour + 1 \in 0 .. HoursPerDay - 1 /\ t.hour + 1 # 0
    BY <1>2
  <2>3. t.day \in Day /\ 0 \in 0 .. MinutesPerHour - 1
    OBVIOUS
  <2>4. Succ(t) \in ATime /\ Succ(t).hour # 0
    BY ONLY <2>1, <2>2, <2>3 DEF ATime
  <2>5. QED
    BY ONLY <2>4 DEF Time, Midnight
<1>3. CASE ~(t.min < MinutesPerHour - 1) /\ ~(t.hour < HoursPerDay - 1)
  <2>1. t.min = MinutesPerHour - 1 /\ t.hour = HoursPerDay - 1
    BY <1>3
  <2>2. t.day + 1 \in 0 .. LastDay
    BY <2>1
  <2>3. Succ(t) = [day |-> t.day + 1, hour |-> 0, min |-> 0]
    BY <1>3
  <2>4. QED
    BY <2>2, <2>3
<1>4. QED
  BY <1>1, <1>2, <1>3

\* a minute on, tm_min differs; the day changes at 00:00 and only there
LEMMA SuccChanges ==
  ASSUME NEW t \in Time, ~IsLastMinute(t)
  PROVE  /\ Succ(t).min # t.min
         /\ Midnight(Succ(t)) => Succ(t).day = t.day + 1
         /\ ~Midnight(Succ(t)) => Succ(t).day = t.day
<1> USE TimeAssumption DEF Time, ATime, Day, Succ, Midnight
<1>1. CASE t.min < MinutesPerHour - 1
  <2>1. Succ(t).min = t.min + 1 /\ Succ(t).day = t.day
    BY <1>1
  <2>2. QED
    BY <2>1
<1>2. CASE ~(t.min < MinutesPerHour - 1) /\ t.hour < HoursPerDay - 1
  <2>1. Succ(t).min = 0 /\ Succ(t).hour = t.hour + 1 /\ Succ(t).day = t.day
    BY <1>2
  <2>2. QED
    BY <2>1, <1>2
<1>3. CASE ~(t.min < MinutesPerHour - 1) /\ ~(t.hour < HoursPerDay - 1)
  <2>1. Succ(t) = [day |-> t.day + 1, hour |-> 0, min |-> 0]
    BY <1>3
  <2>2. QED
    BY <2>1, <1>3
<1>4. QED
  BY <1>1, <1>2, <1>3

LEMMA SuccTable ==
  ASSUME NEW t \in ATime, Succ(t) \in Time
  PROVE  TableOf(Succ(t)) = t.day
<1> USE TimeAssumption DEF Time, ATime, Day, Succ, Midnight, TableOf
<1>1. CASE t.min < MinutesPerHour - 1
  <2>1. Succ(t).min = t.min + 1 /\ Succ(t).day = t.day
    BY <1>1
  <2>2. QED
    BY <2>1
<1>2. CASE ~(t.min < MinutesPerHour - 1) /\ t.hour < HoursPerDay - 1
  <2>1. Succ(t).hour = t.hour + 1 /\ Succ(t).day = t.day
    BY <1>2
  <2>2. QED
    BY <2>1, <1>2
<1>3. CASE ~(t.min < MinutesPerHour - 1) /\ ~(t.hour < HoursPerDay - 1)
  <2>1. Succ(t) = [day |-> t.day + 1, hour |-> 0, min |-> 0]
    BY <1>3
  <2>2. QED
    BY <2>1, <1>3
<1>4. QED
  BY <1>1, <1>2, <1>3

LEMMA TableInDay ==
  ASSUME NEW t \in Time
  PROVE  TableOf(t) \in Day
  BY TimeAssumption DEF Time, ATime, Day, TableOf, Midnight

-----------------------------------------------------------------------------

LEMMA InitType == Init => TypeOK
  BY TimeAssumption, BoundsAssumption, NoneAssumption
  DEF Init, TypeOK, Running, Time, ATime, Day, Midnight, Zero, NoTxn, Counts

LEMMA StepType == TypeOK /\ [Next]_vars => TypeOK'
<1> SUFFICES ASSUME TypeOK, [Next]_vars PROVE TypeOK'
  OBVIOUS
<1> USE DEF TypeOK, Counts, Running, world, mainVars, ioVars, serverVars, dbVars, history
<1>1. CASE Tick
  BY <1>1, SuccInTime DEF Tick
<1>2. CASE Configure
  BY <1>2 DEF Configure
<1>3. ASSUME NEW d \in Devices, Flip(d) PROVE TypeOK'
  BY <1>3 DEF Flip
<1>4. ASSUME NEW d \in Devices, Poll(d) PROVE TypeOK'
  <2>1. CASE level[d] = 0
    BY <1>4, <2>1, NoneAssumption DEF Poll
  <2>2. CASE level[d] # 0
    BY <1>4, <2>2 DEF Poll
  <2>3. QED
    BY <2>1, <2>2
<1>5. ASSUME NEW d \in Devices, Collect(d) PROVE TypeOK'
  BY <1>5 DEF Collect
<1>6. CASE DumpBegin
  BY <1>6 DEF DumpBegin
<1>7. CASE DumpEnd
  BY <1>7 DEF DumpEnd
<1>8. CASE StartMain
  BY <1>8 DEF StartMain, Time, ATime
<1>9. ASSUME NEW read, StartIO(read) PROVE TypeOK'
  <2>1. read \in Counts /\ clock.day \in Day /\ db[clock.day] \in Counts
    BY <1>9, BoundsAssumption DEF StartIO, ReadBack, Time, ATime
  <2>2. \A d \in Devices : db[clock.day][d] - read[d] \in Nat
    BY <1>9, <2>1 DEF StartIO, ReadBack
  <2>3. unread' \in Counts /\ today' = read /\ minus' = read
    BY <1>9, <2>2 DEF StartIO
  <2>4. iolock' # "io"
    BY <1>9 DEF StartIO
  <2>5. QED
    BY <1>9, <2>1, <2>3, <2>4 DEF StartIO, Zero
<1>10. CASE Crash
  BY <1>10 DEF Crash, Zero, NoTxn
<1>11. CASE Sample
  BY <1>11 DEF Sample
<1>12. CASE ReadIo
  BY <1>12 DEF ReadIo
<1>13. CASE SameMinute
  BY <1>13 DEF SameMinute
<1>14. CASE NewMinute
  BY <1>14 DEF NewMinute, Time, ATime
<1>15. CASE Minute
  BY <1>15 DEF Minute, Zero, Time, ATime
<1>16. CASE DbCreate
  <2>1. TableOf(clock) \in Day /\ TableOf(clock) # None
    BY TableInDay, NoneAssumption DEF Day
  <2>2. txn' = [made |-> TableOf(clock), row |-> None, written |-> Zero]
    BY <1>16 DEF DbCreate, NoTxn
  <2>3. /\ txn' \in [made : Day \union {None}, row : Day \union {None}, written : Counts]
        /\ txn'.made # None /\ txn'.written = Zero
    BY <2>1, <2>2 DEF Zero
  <2>4. QED
    BY <1>16, <2>3 DEF DbCreate, Zero
<1>17. CASE DbInsert
  <2>1. TableOf(clock) \in Day
    BY TableInDay
  <2>2. /\ txn'.made = txn.made /\ txn'.written = txn.written
        /\ txn'.row \in Day \union {None}
    BY <1>17, <2>1 DEF DbInsert
  <2>3. txn' \in [made : Day \union {None}, row : Day \union {None}, written : Counts]
    BY <1>17, <2>1 DEF DbInsert
  <2>4. QED
    BY <1>17, <2>2, <2>3 DEF DbInsert
<1>18. CASE DbUpdate
  <2> DEFINE w == IF TableOf(clock) = txn.row THEN Only(minuteP, logged) ELSE Zero
  <2>1. w \in Counts /\ \A d \in Devices : w[d] <= minuteP[d]
    BY DEF Only, Zero
  <2>2. /\ txn' \in [made : Day \union {None}, row : Day \union {None}, written : Counts]
        /\ txn'.made = txn.made /\ txn'.written = w
    BY <1>18, <2>1 DEF DbUpdate
  <2>3. QED
    BY <1>18, <2>1, <2>2 DEF DbUpdate
<1>19. CASE DbEnd
  <2> USE <1>19 DEF DbEnd
  <2>1. lost' \in Counts /\ skipped' \in Counts
    BY DEF Loses, Skips
  <2>2. billed' \in Counts
    BY DEF Plus
  <2>3. db' \in [Day -> Counts]
    BY DEF Plus
  <2>4. txn' = NoTxn /\ tables' \in SUBSET Day
    BY NoneAssumption
  <2>5. QED
    BY <2>1, <2>2, <2>3, <2>4 DEF NoTxn, Zero
<1>20. CASE DbEndFails
  BY <1>20 DEF DbEndFails, NoTxn, Zero, Loses, Skips
<1>21. CASE DetectEdges
  BY <1>21 DEF DetectEdges
<1>22. ASSUME NEW d \in Devices, StorePort(d) PROVE TypeOK'
  BY <1>22 DEF StorePort
<1>23. CASE UNCHANGED vars
  BY <1>23 DEF vars
<1>24. QED
  BY <1>1, <1>2, <1>3, <1>4, <1>5, <1>6, <1>7, <1>8, <1>9, <1>10, <1>11, <1>12,
     <1>13, <1>14, <1>15, <1>16, <1>17, <1>18, <1>19, <1>20, <1>21, <1>22, <1>23
  DEF Next, World, IoThread, Pass, DbWrite

\* The state keeps its shape; minus never passes today, so that no minute
\* has a negative number of pulses (IO::minute subtracts them as ints).
THEOREM TypeCorrect == Spec => []TypeOK
<1>1. QED
  BY InitType, StepType, PTL DEF Spec
-----------------------------------------------------------------------------
(* The ledger of pulses                                                    *)

LEMMA InitLedger == Init => PulseLedger
<1> SUFFICES ASSUME Init, NEW d \in Devices PROVE Balanced(d)
  BY DEF PulseLedger
<1>1. edges[d] = 0 /\ billed[d] = 0 /\ lost[d] = 0
  BY DEF Init, Zero
<1>2. ~Running /\ ~Writing
  BY DEF Init, Running, Writing
<1>3. QED
  BY <1>1, <1>2 DEF Balanced

\* Given the types, the ledger is inductive as it stands: every action moves
\* a pulse from one account to another.
LEMMA StepLedger == TypeOK /\ PulseLedger /\ [Next]_vars => PulseLedger'
<1> SUFFICES ASSUME TypeOK, PulseLedger, [Next]_vars, NEW e \in Devices
             PROVE  Balanced(e)'
  BY DEF PulseLedger
<1> USE NoneAssumption
    DEF TypeOK, Counts, PulseLedger, Balanced, Running, Writing,
        Pending, world, mainVars, ioVars, serverVars, dbVars, history
<1>1. CASE Tick
  BY <1>1 DEF Tick
<1>2. CASE Configure
  BY <1>2 DEF Configure
<1>3. ASSUME NEW d \in Devices, Flip(d)
      PROVE  Balanced(e)'
  BY <1>3 DEF Flip
<1>4. ASSUME NEW d \in Devices, Poll(d)
      PROVE  Balanced(e)'
  BY <1>4 DEF Poll
<1>5. ASSUME NEW d \in Devices, Collect(d)
      PROVE  Balanced(e)'
  BY <1>5 DEF Collect
<1>6. CASE DumpBegin
  BY <1>6 DEF DumpBegin
<1>7. CASE DumpEnd
  BY <1>7 DEF DumpEnd
<1>8. CASE StartMain
  BY <1>8 DEF StartMain
<1>9. ASSUME NEW read, StartIO(read) PROVE Balanced(e)'
  <2>1. today'[e] \in Nat /\ minus'[e] = today'[e]
    BY <1>9, BoundsAssumption DEF StartIO, ReadBack
  <2>2. Running' /\ ~Writing' /\ ~Pending(e)' /\ ~Running /\ ~Writing
    BY <1>9 DEF StartIO, Zero
  <2>3. edges'[e] = edges[e] /\ billed'[e] = billed[e] /\ lost'[e] = lost[e]
    BY <1>9 DEF StartIO
  <2>4. QED
    BY <2>1, <2>2, <2>3
<1>10. CASE Crash
  BY <1>10 DEF Crash, Zero
<1>11. CASE Sample
  BY <1>11 DEF Sample
<1>12. CASE ReadIo
  BY <1>12 DEF ReadIo
<1>13. CASE SameMinute
  BY <1>13 DEF SameMinute
<1>14. CASE NewMinute
  BY <1>14 DEF NewMinute
<1>15. CASE Minute
  BY <1>15 DEF Minute, Zero
<1>16. CASE DbCreate
  BY <1>16 DEF DbCreate
<1>17. CASE DbInsert
  BY <1>17 DEF DbInsert
<1>18. CASE DbUpdate
  BY <1>18 DEF DbUpdate
<1>19. CASE DbEnd
  BY <1>19 DEF DbEnd, Plus, Loses
<1>20. CASE DbEndFails
  BY <1>20 DEF DbEndFails, Zero, Loses
<1>21. CASE DetectEdges
  BY <1>21 DEF DetectEdges
<1>22. ASSUME NEW d \in Devices, StorePort(d) PROVE Balanced(e)'
  BY <1>22 DEF StorePort
<1>23. CASE UNCHANGED vars
  BY <1>23 DEF vars
<1>24. QED
  BY <1>1, <1>2, <1>3, <1>4, <1>5, <1>6, <1>7, <1>8, <1>9, <1>10, <1>11, <1>12,
     <1>13, <1>14, <1>15, <1>16, <1>17, <1>18, <1>19, <1>20, <1>21, <1>22, <1>23
  DEF Next, World, IoThread, Pass, DbWrite

\* PulseLedger holds of every run, however the main thread stalls, however
\* often the daemon dies and whichever writes fail.
THEOREM LedgerCorrect == Spec => []PulseLedger
<1>1. QED
  BY TypeCorrect, InitLedger, StepLedger, PTL DEF Spec
-----------------------------------------------------------------------------
(* A prompt daemon: the inductive invariant                                *)
(*                                                                         *)
(* TodayFromTable is not inductive: that a minute's row lands in the table   *)
(* the counter is compared with depends on where the clock, the last       *)
(* sample, write_min and the names in the transaction stand to each other. *)

\* In a pass the clock stands still; between passes it is at most one
\* minute ahead of the last sample.
ClockFollows ==
  /\ pc \in {"boot", "idle"} =>
       clock = now \/ (~IsLastMinute(now) /\ clock = Succ(now))
  /\ pc \in {"readio", "check", "tick", "create", "insert", "update", "end"} =>
       clock = now
  /\ pc \notin {"down", "readio", "check"} => writeMin = now.min

\* The counters are of the day of the last minute handled, except from a
\* start that read the table after a midnight it sampled before.
DayFollows ==
  /\ pc = "idle" =>
       \/ memDay = now.day
       \/ clock = Succ(now) /\ memDay = clock.day
  /\ pc = "idle" /\ clock = now => memDay = now.day
  /\ pc \in {"readio", "check"} /\ writeMin = now.min => memDay = now.day
  /\ pc \in {"readio", "check", "tick"} /\ ~Midnight(now) => memDay = now.day
  /\ Writing => memDay = now.day

\* The transaction names one table throughout, and writes every logged
\* device's minute to it.
TxnFollows ==
  /\ pc \in {"insert", "update", "end"} => txn.made = TableOf(now)
  /\ pc \in {"update", "end"} => txn.row = TableOf(now)
  /\ pc = "end" => txn.written = Only(minuteP, logged)

\* 00:00 itself still belongs to the day before.
Closed(k) == k < clock.day \/ (k = clock.day /\ ~Midnight(clock))

NothingFromTheFuture ==
  \A k \in Day : ~Closed(k) => \A d \in Devices : db[k][d] = 0

PromptInv ==
  /\ TypeOK
  /\ ClockFollows
  /\ DayFollows
  /\ TxnFollows
  /\ NothingFromTheFuture
  /\ TodayFromTable

LEMMA StepClock ==
  ASSUME Prompt, TypeOK, ClockFollows, [Next]_vars
  PROVE  ClockFollows'
<1> USE DEF ClockFollows,
        world, mainVars, ioVars, serverVars, dbVars, history
<1>1. CASE Tick
  <2>1. /\ pc \in {"down", "boot", "idle"} /\ (pc # "down" => clock = now)
        /\ pc' = pc /\ now' = now /\ writeMin' = writeMin
        /\ ~IsLastMinute(clock) /\ clock' = Succ(clock)
    BY <1>1 DEF Tick
  <2>2. pc' \in {"boot", "idle"} => ~IsLastMinute(now') /\ clock' = Succ(now')
    BY <2>1
  <2>3. QED
    BY <2>1, <2>2 DEF Succ, IsLastMinute
<1>2. CASE Configure
  BY <1>2 DEF Configure
<1>3. ASSUME NEW d \in Devices, Flip(d) PROVE ClockFollows'
  BY <1>3 DEF Flip
<1>4. ASSUME NEW d \in Devices, Poll(d) PROVE ClockFollows'
  BY <1>4 DEF Poll
<1>5. ASSUME NEW d \in Devices, Collect(d) PROVE ClockFollows'
  BY <1>5 DEF Collect
<1>6. CASE DumpBegin
  BY <1>6 DEF DumpBegin
<1>7. CASE DumpEnd
  BY <1>7 DEF DumpEnd
<1>8. CASE StartMain
  BY <1>8 DEF StartMain
<1>9. ASSUME NEW read, StartIO(read) PROVE ClockFollows'
  BY <1>9 DEF StartIO
<1>10. CASE Crash
  BY <1>10 DEF Crash
<1>11. CASE Sample
  BY <1>11 DEF Sample
<1>12. CASE ReadIo
  BY <1>12 DEF ReadIo
<1>13. CASE SameMinute
  BY <1>13 DEF SameMinute
<1>14. CASE NewMinute
  BY <1>14 DEF NewMinute
<1>15. CASE Minute
  BY <1>15 DEF Minute
<1>16. CASE DbCreate
  BY <1>16 DEF DbCreate
<1>17. CASE DbInsert
  BY <1>17 DEF DbInsert
<1>18. CASE DbUpdate
  BY <1>18 DEF DbUpdate
<1>19. CASE DbEnd
  BY <1>19 DEF DbEnd
<1>20. CASE DbEndFails
  BY <1>20 DEF DbEndFails
<1>21. CASE DetectEdges
  BY <1>21 DEF DetectEdges
<1>22. ASSUME NEW d \in Devices, StorePort(d) PROVE ClockFollows'
  BY <1>22 DEF StorePort
<1>23. CASE UNCHANGED vars
  BY <1>23 DEF vars
<1>24. QED
  BY <1>1, <1>2, <1>3, <1>4, <1>5, <1>6, <1>7, <1>8, <1>9, <1>10, <1>11, <1>12,
     <1>13, <1>14, <1>15, <1>16, <1>17, <1>18, <1>19, <1>20, <1>21, <1>22, <1>23
  DEF Next, World, IoThread, Pass, DbWrite

LEMMA StepDay ==
  ASSUME Prompt, TypeOK, ClockFollows, DayFollows, [Next]_vars
  PROVE  DayFollows'
<1> USE DEF ClockFollows, DayFollows, Writing,
        world, mainVars, ioVars, serverVars, dbVars, history
<1>1. CASE Tick
  <2>1. /\ pc \in {"down", "boot", "idle"} /\ (pc # "down" => clock = now)
        /\ pc' = pc /\ now' = now /\ memDay' = memDay
        /\ clock' = Succ(clock) /\ ~IsLastMinute(clock)
    BY <1>1 DEF Tick
  <2>2. clock \in Time
    BY DEF TypeOK
  <2>3. pc' = "idle" => clock' # now' /\ memDay' = now'.day
    BY <2>1, <2>2, SuccChanges
  <2>4. QED
    BY <2>1, <2>3 DEF Midnight
<1>2. CASE Configure
  BY <1>2 DEF Configure
<1>3. ASSUME NEW d \in Devices, Flip(d) PROVE DayFollows'
  BY <1>3 DEF Flip
<1>4. ASSUME NEW d \in Devices, Poll(d) PROVE DayFollows'
  BY <1>4 DEF Poll
<1>5. ASSUME NEW d \in Devices, Collect(d) PROVE DayFollows'
  BY <1>5 DEF Collect
<1>6. CASE DumpBegin
  BY <1>6 DEF DumpBegin
<1>7. CASE DumpEnd
  BY <1>7 DEF DumpEnd
<1>8. CASE StartMain
  BY <1>8 DEF StartMain
<1>9. ASSUME NEW read, StartIO(read) PROVE DayFollows'
  <2>1. /\ pc' = "idle" /\ now' = now /\ clock' = clock /\ memDay' = clock.day
        /\ clock = now \/ clock = Succ(now)
    BY <1>9 DEF StartIO
  <2>2. QED
    BY <2>1
<1>10. CASE Crash
  BY <1>10 DEF Crash
<1>11. CASE Sample
  <2>1. /\ pc = "idle" /\ pc' \in {"readio", "check"} /\ now' = clock
        /\ writeMin' = writeMin /\ memDay' = memDay /\ writeMin = now.min
    BY <1>11 DEF Sample
  <2>2. CASE clock = now
    BY <2>1, <2>2
  <2>3. CASE ~IsLastMinute(now) /\ clock = Succ(now)
    <3>1. now \in Time
      BY DEF TypeOK
    <3>2. now'.min # writeMin'
      BY <2>1, <2>3, <3>1, SuccChanges
    <3>3. ~Midnight(now') => memDay' = now'.day
      BY <2>1, <2>3, <3>1, SuccChanges
    <3>4. QED
      BY <2>1, <3>2, <3>3
  <2>4. QED
    BY <2>1, <2>2, <2>3
<1>12. CASE ReadIo
  BY <1>12 DEF ReadIo
<1>13. CASE SameMinute
  BY <1>13 DEF SameMinute
<1>14. CASE NewMinute
  BY <1>14 DEF NewMinute
<1>15. CASE Minute
  BY <1>15 DEF Minute
<1>16. CASE DbCreate
  BY <1>16 DEF DbCreate
<1>17. CASE DbInsert
  BY <1>17 DEF DbInsert
<1>18. CASE DbUpdate
  BY <1>18 DEF DbUpdate
<1>19. CASE DbEnd
  BY <1>19 DEF DbEnd
<1>20. CASE DbEndFails
  BY <1>20 DEF DbEndFails
<1>21. CASE DetectEdges
  BY <1>21 DEF DetectEdges
<1>22. ASSUME NEW d \in Devices, StorePort(d) PROVE DayFollows'
  BY <1>22 DEF StorePort
<1>23. CASE UNCHANGED vars
  BY <1>23 DEF vars
<1>24. QED
  BY <1>1, <1>2, <1>3, <1>4, <1>5, <1>6, <1>7, <1>8, <1>9, <1>10, <1>11, <1>12,
     <1>13, <1>14, <1>15, <1>16, <1>17, <1>18, <1>19, <1>20, <1>21, <1>22, <1>23
  DEF Next, World, IoThread, Pass, DbWrite

LEMMA StepTxn ==
  ASSUME Prompt, TypeOK, ClockFollows, TxnFollows, [Next]_vars
  PROVE  TxnFollows'
<1> USE DEF ClockFollows, TxnFollows, TypeOK, NoTxn,
        world, mainVars, ioVars, serverVars, dbVars, history
<1>1. CASE Tick
  BY <1>1 DEF Tick
<1>2. CASE Configure
  BY <1>2 DEF Configure
<1>3. ASSUME NEW d \in Devices, Flip(d) PROVE TxnFollows'
  BY <1>3 DEF Flip
<1>4. ASSUME NEW d \in Devices, Poll(d) PROVE TxnFollows'
  BY <1>4 DEF Poll
<1>5. ASSUME NEW d \in Devices, Collect(d) PROVE TxnFollows'
  BY <1>5 DEF Collect
<1>6. CASE DumpBegin
  BY <1>6 DEF DumpBegin
<1>7. CASE DumpEnd
  BY <1>7 DEF DumpEnd
<1>8. CASE StartMain
  BY <1>8 DEF StartMain
<1>9. ASSUME NEW read, StartIO(read) PROVE TxnFollows'
  BY <1>9 DEF StartIO
<1>10. CASE Crash
  BY <1>10 DEF Crash
<1>11. CASE Sample
  BY <1>11 DEF Sample
<1>12. CASE ReadIo
  BY <1>12 DEF ReadIo
<1>13. CASE SameMinute
  BY <1>13 DEF SameMinute
<1>14. CASE NewMinute
  BY <1>14 DEF NewMinute
<1>15. CASE Minute
  BY <1>15 DEF Minute
<1>16. CASE DbCreate
  BY <1>16 DEF DbCreate
<1>17. CASE DbInsert
  <2>1. /\ clock = now /\ txn.made = TableOf(now)
        /\ txn' = [txn EXCEPT !.row = TableOf(now)]
        /\ pc' = "update" /\ now' = now
    BY <1>17 DEF DbInsert
  <2>2. QED
    BY <2>1
<1>18. CASE DbUpdate
  <2>1. /\ clock = now /\ txn.row = TableOf(now) /\ txn.made = TableOf(now)
        /\ txn' = [txn EXCEPT !.written = Only(minuteP, logged)]
        /\ pc' = "end" /\ now' = now /\ minuteP' = minuteP /\ logged' = logged
    BY <1>18 DEF DbUpdate
  <2>2. QED
    BY <2>1 DEF Only
<1>19. CASE DbEnd
  BY <1>19 DEF DbEnd
<1>20. CASE DbEndFails
  BY <1>20 DEF DbEndFails
<1>21. CASE DetectEdges
  BY <1>21 DEF DetectEdges
<1>22. ASSUME NEW d \in Devices, StorePort(d) PROVE TxnFollows'
  BY <1>22 DEF StorePort
<1>23. CASE UNCHANGED vars
  BY <1>23 DEF vars
<1>24. QED
  BY <1>1, <1>2, <1>3, <1>4, <1>5, <1>6, <1>7, <1>8, <1>9, <1>10, <1>11, <1>12,
     <1>13, <1>14, <1>15, <1>16, <1>17, <1>18, <1>19, <1>20, <1>21, <1>22, <1>23
  DEF Next, World, IoThread, Pass, DbWrite

LEMMA StepFuture ==
  ASSUME Prompt, TypeOK, ClockFollows, TxnFollows, NothingFromTheFuture, [Next]_vars
  PROVE  NothingFromTheFuture'
<1> USE DEF NothingFromTheFuture, Closed, TypeOK,
        world, mainVars, ioVars, serverVars, dbVars, history
<1>1. CASE Tick
  <2>1. clock \in Time /\ ~IsLastMinute(clock) /\ clock' = Succ(clock) /\ db' = db
    BY <1>1 DEF Tick
  <2>2. \A k \in Day : Closed(k) => Closed(k)'
    BY <2>1, SuccChanges DEF Time, ATime, Day
  <2>3. QED
    BY <2>1, <2>2
<1>2. CASE Configure
  BY <1>2 DEF Configure
<1>3. ASSUME NEW d \in Devices, Flip(d) PROVE NothingFromTheFuture'
  BY <1>3 DEF Flip
<1>4. ASSUME NEW d \in Devices, Poll(d) PROVE NothingFromTheFuture'
  BY <1>4 DEF Poll
<1>5. ASSUME NEW d \in Devices, Collect(d) PROVE NothingFromTheFuture'
  BY <1>5 DEF Collect
<1>6. CASE DumpBegin
  BY <1>6 DEF DumpBegin
<1>7. CASE DumpEnd
  BY <1>7 DEF DumpEnd
<1>8. CASE StartMain
  BY <1>8 DEF StartMain
<1>9. ASSUME NEW read, StartIO(read) PROVE NothingFromTheFuture'
  BY <1>9 DEF StartIO
<1>10. CASE Crash
  BY <1>10 DEF Crash
<1>11. CASE Sample
  BY <1>11 DEF Sample
<1>12. CASE ReadIo
  BY <1>12 DEF ReadIo
<1>13. CASE SameMinute
  BY <1>13 DEF SameMinute
<1>14. CASE NewMinute
  BY <1>14 DEF NewMinute
<1>15. CASE Minute
  BY <1>15 DEF Minute
<1>16. CASE DbCreate
  BY <1>16 DEF DbCreate
<1>17. CASE DbInsert
  BY <1>17 DEF DbInsert
<1>18. CASE DbUpdate
  BY <1>18 DEF DbUpdate
<1>19. CASE DbEnd
  <2>1. clock = now /\ clock' = clock /\ txn.row = TableOf(clock)
    BY <1>19 DEF DbEnd, ClockFollows, TxnFollows
  <2>2. Closed(txn.row)
    BY <2>1 DEF TableOf, Time, ATime, Day
  <2>3. \A k \in Day : k # txn.row => db'[k] = db[k]
    BY <1>19 DEF DbEnd
  <2>4. QED
    BY <2>1, <2>2, <2>3
<1>20. CASE DbEndFails
  BY <1>20 DEF DbEndFails
<1>21. CASE DetectEdges
  BY <1>21 DEF DetectEdges
<1>22. ASSUME NEW d \in Devices, StorePort(d) PROVE NothingFromTheFuture'
  BY <1>22 DEF StorePort
<1>23. CASE UNCHANGED vars
  BY <1>23 DEF vars
<1>24. QED
  BY <1>1, <1>2, <1>3, <1>4, <1>5, <1>6, <1>7, <1>8, <1>9, <1>10, <1>11, <1>12,
     <1>13, <1>14, <1>15, <1>16, <1>17, <1>18, <1>19, <1>20, <1>21, <1>22, <1>23
  DEF Next, World, IoThread, Pass, DbWrite

LEMMA StepRestart ==
  ASSUME Prompt, TypeOK, ClockFollows, DayFollows, TxnFollows,
         NothingFromTheFuture, TodayFromTable, [Next]_vars
  PROVE  TodayFromTable'
<1> USE DEF TodayFromTable, Running, Writing, InFlight,
        world, mainVars, ioVars, serverVars, dbVars, history
<1>1. CASE Tick
  BY <1>1 DEF Tick, Midnight
<1>2. CASE Configure
  BY <1>2 DEF Configure
<1>3. ASSUME NEW d \in Devices, Flip(d) PROVE TodayFromTable'
  BY <1>3 DEF Flip
<1>4. ASSUME NEW d \in Devices, Poll(d) PROVE TodayFromTable'
  BY <1>4 DEF Poll
<1>5. ASSUME NEW d \in Devices, Collect(d) PROVE TodayFromTable'
  BY <1>5 DEF Collect
<1>6. CASE DumpBegin
  BY <1>6 DEF DumpBegin
<1>7. CASE DumpEnd
  BY <1>7 DEF DumpEnd
<1>8. CASE StartMain
  BY <1>8 DEF StartMain
<1>9. ASSUME NEW read, StartIO(read) PROVE TodayFromTable'
  <2>1. /\ minus' = read /\ memDay' = clock.day /\ db' = db /\ pc' = "idle"
        /\ \A d \in Devices : read[d] \in Nat /\ unread'[d] = db[clock.day][d] - read[d]
    BY <1>9, BoundsAssumption DEF StartIO, ReadBack
  <2>2. clock.day \in Day /\ \A d \in Devices : db[clock.day][d] \in Nat /\ skipped'[d] = 0
    BY <1>9 DEF StartIO, Zero, TypeOK, Time, ATime, Counts
  <2>3. QED
    BY <2>1, <2>2
<1>10. CASE Crash
  BY <1>10 DEF Crash
<1>11. CASE Sample
  BY <1>11 DEF Sample
<1>12. CASE ReadIo
  BY <1>12 DEF ReadIo
<1>13. CASE SameMinute
  BY <1>13 DEF SameMinute
<1>14. CASE NewMinute
  BY <1>14 DEF NewMinute
<1>15. CASE Minute
  <2> SUFFICES ASSUME NEW d \in Devices
               PROVE  (minus[d] + unread[d] = db[memDay][d] + skipped[d] + InFlight(d))'
    OBVIOUS
  <2>1. /\ minus[d] + unread[d] = db[memDay][d] + skipped[d]
        /\ pc' = "create" /\ now' = now /\ db' = db /\ clock = now
        /\ minuteP'[d] = today[d] - minus[d]
        /\ minus' = IF Midnight(now) THEN Zero ELSE today
        /\ memDay' = IF Midnight(now) THEN now.day ELSE memDay
        /\ skipped' = IF Midnight(now) THEN Zero ELSE skipped
        /\ unread' = IF Midnight(now) THEN Zero ELSE unread
    BY <1>15 DEF Minute, ClockFollows, TypeOK, Counts
  <2>2. /\ today[d] \in Nat /\ minus[d] \in Nat /\ skipped[d] \in Nat
        /\ unread[d] \in Nat /\ now.day \in Day /\ memDay \in Day /\ db[memDay][d] \in Nat
    BY DEF TypeOK, Counts, Time, ATime
  <2>3. CASE Midnight(now)
    <3>1. db[now.day][d] = 0
      BY <2>1, <2>2, <2>3 DEF NothingFromTheFuture, Closed, Day
    <3>2. InFlight(d)' = 0
      BY <2>1, <2>3 DEF Midnight
    <3>3. QED
      BY <2>1, <2>3, <3>1, <3>2 DEF Zero
  <2>4. CASE ~Midnight(now)
    <3>1. InFlight(d)' = today[d] - minus[d]
      BY <2>1, <2>4 DEF Midnight
    <3>2. QED
      BY <2>1, <2>2, <2>4, <3>1
  <2>5. QED
    BY <2>3, <2>4
<1>16. CASE DbCreate
  BY <1>16 DEF DbCreate
<1>17. CASE DbInsert
  BY <1>17 DEF DbInsert
<1>18. CASE DbUpdate
  BY <1>18 DEF DbUpdate
<1>19. CASE DbEnd
  <2> SUFFICES ASSUME NEW d \in Devices
               PROVE  (minus[d] + unread[d] = db[memDay][d] + skipped[d] + InFlight(d))'
    OBVIOUS
  <2>1. /\ pc = "end" /\ pc' = "idle" /\ minus' = minus /\ memDay' = memDay
        /\ unread' = unread /\ txn.row = TableOf(now) /\ memDay = now.day /\ memDay \in Day
        /\ skipped'[d] = IF Midnight(now) THEN skipped[d]
                         ELSE skipped[d] + minuteP[d] - txn.written[d]
    BY <1>19 DEF DbEnd, Skips, TxnFollows, DayFollows, TypeOK
  <2>2. txn.row \in Day /\ txn.row # None
    BY <2>1, TableInDay, NoneAssumption DEF TypeOK, Day
  <2>3. db' = [db EXCEPT ![txn.row] = Plus(@, txn.written)]
    BY <1>19, <2>2 DEF DbEnd
  <2>4. /\ db[memDay][d] \in Nat /\ skipped[d] \in Nat /\ minus[d] \in Nat
        /\ unread[d] \in Nat
        /\ minuteP[d] \in Nat /\ txn.written[d] \in Nat
    BY <2>1 DEF TypeOK, Counts
  <2>5. InFlight(d)' = 0
    BY <2>1
  <2>6. CASE Midnight(now)
    <3>1. txn.row # memDay
      BY <2>1, <2>6 DEF TableOf, Day
    <3>2. db'[memDay] = db[memDay]
      BY <2>1, <2>2, <2>3, <3>1 DEF TypeOK
    <3>3. QED
      BY <2>1, <2>4, <2>5, <2>6, <3>2
  <2>7. CASE ~Midnight(now)
    <3>1. txn.row = memDay
      BY <2>1, <2>7 DEF TableOf
    <3>2. db'[memDay][d] = db[memDay][d] + txn.written[d]
      BY <2>1, <2>2, <2>3, <3>1 DEF Plus, TypeOK
    <3>3. QED
      BY <2>1, <2>4, <2>5, <2>7, <3>2
  <2>8. QED
    BY <2>6, <2>7
<1>20. CASE DbEndFails
  BY <1>20 DEF DbEndFails, Skips, Zero, TypeOK, Counts
<1>21. CASE DetectEdges
  BY <1>21 DEF DetectEdges
<1>22. ASSUME NEW d \in Devices, StorePort(d) PROVE TodayFromTable'
  BY <1>22 DEF StorePort
<1>23. CASE UNCHANGED vars
  BY <1>23 DEF vars
<1>24. QED
  BY <1>1, <1>2, <1>3, <1>4, <1>5, <1>6, <1>7, <1>8, <1>9, <1>10, <1>11, <1>12,
     <1>13, <1>14, <1>15, <1>16, <1>17, <1>18, <1>19, <1>20, <1>21, <1>22, <1>23
  DEF Next, World, IoThread, Pass, DbWrite

LEMMA InitPrompt == Init => PromptInv
<1> SUFFICES ASSUME Init PROVE PromptInv
  OBVIOUS
<1>1. TypeOK
  BY InitType
<1>2. ClockFollows /\ DayFollows /\ TxnFollows /\ TodayFromTable
  BY DEF Init, ClockFollows, DayFollows, TxnFollows, TodayFromTable, Running, Writing
<1>3. NothingFromTheFuture
  BY DEF Init, NothingFromTheFuture, Zero
<1>4. QED
  BY <1>1, <1>2, <1>3 DEF PromptInv

THEOREM PromptCorrect ==
  ASSUME Prompt
  PROVE  Spec => []PromptInv
<1>1. PromptInv /\ [Next]_vars => PromptInv'
  BY StepType, StepClock, StepDay, StepTxn, StepFuture, StepRestart DEF PromptInv
<1>2. QED
  BY <1>1, InitPrompt, PTL DEF Spec

\* What a prompt daemon has counted today is what today's table holds, with the
\* minutes that were not written, less what IO::read_db failed to read at the
\* start: for any crashes, failed writes and failed reads. A start that reads
\* all continues from the table; one that does not stays short by just that.
THEOREM TodayCorrect ==
  ASSUME Prompt
  PROVE  Spec => []TodayFromTable
<1>1. PromptInv => TodayFromTable
  BY DEF PromptInv
<1>2. QED
  BY <1>1, PromptCorrect, PTL

\* A prompt daemon never carries a day's count over 00:00.
THEOREM DayCorrect ==
  ASSUME Prompt
  PROVE  Spec => []DayCurrent
<1>1. PromptInv => DayCurrent
  BY DEF PromptInv, DayCurrent, DayFollows
<1>2. QED
  BY <1>1, PromptCorrect, PTL

\* A prompt daemon writes every row, 00:00's included, to the table of the
\* day its minute lies in.
THEOREM RowCorrect ==
  ASSUME Prompt
  PROVE  Spec => []RowInDayOfItsMinute
<1>1. PromptInv => RowInDayOfItsMinute
  <2> SUFFICES ASSUME PromptInv, pc = "end", NEW t \in ATime, Succ(t) = now
               PROVE  txn.row = t.day
    BY DEF RowInDayOfItsMinute
  <2>1. txn.row = TableOf(Succ(t)) /\ Succ(t) \in Time
    BY DEF PromptInv, TxnFollows, TypeOK
  <2>2. QED
    BY <2>1, SuccTable
<1>2. QED
  BY <1>1, PromptCorrect, PTL

-----------------------------------------------------------------------------
(* A prompt daemon implements the ledger of days, for any number of meters.*)

\* the clock is not behind main()'s sample, whether or not main() is prompt
SampledBefore == now.day <= clock.day

LEMMA StepSampled ==
  ASSUME TypeOK, SampledBefore, [Next]_vars
  PROVE  SampledBefore'
<1> USE DEF SampledBefore, TypeOK, Time, ATime, Day,
            world, mainVars, ioVars, serverVars, dbVars, history
<1>1. CASE Tick
  BY <1>1, SuccChanges DEF Tick
<1>2. CASE clock' = clock /\ (now' = now \/ now' = clock)
  BY <1>2
<1>3. ASSUME Next, ~Tick PROVE clock' = clock /\ (now' = now \/ now' = clock)
  BY <1>3 DEF Next, World, IoThread, Pass, DbWrite, Configure, Flip, Poll, Collect,
     DetectEdges, StorePort, DumpBegin, DumpEnd, StartMain, StartIO, Crash, Sample, ReadIo, SameMinute,
     NewMinute, Minute, DbCreate, DbInsert, DbUpdate, DbEnd, DbEndFails
<1>4. CASE UNCHANGED vars
  BY <1>4 DEF vars
<1>5. QED
  BY <1>1, <1>2, <1>3, <1>4

LEMMA Sampled == Spec => []SampledBefore
<1>1. Init => SampledBefore
  BY DEF Init, SampledBefore, Time, ATime, Day
<1>2. QED
  BY <1>1, StepSampled, TypeCorrect, PTL DEF Spec

-----------------------------------------------------------------------------

LEMMA InitRefines == Init => Ledger!LedgerInit
<1> SUFFICES ASSUME Init PROVE Ledger!LedgerInit
  OBVIOUS
<1>1. LedgerDay \in Day
  BY TimeAssumption DEF Init, LedgerDay, TickDue, Time, ATime
<1>2. LedgerOpen = Zero /\ LedgerClosed = [day |-> None, pulses |-> Zero]
  BY DEF Init, LedgerOpen, LedgerClosed, Running, Writing
<1>3. QED
  BY <1>1, <1>2 DEF Init, Ledger!LedgerInit, Ledger!Nil, Ledger!NoMinute, Zero

\* the steps the ledger does not see
LEMMA StutterRefines ==
  ASSUME PromptInv,
         \/ Tick \/ Configure \/ (\E d \in Devices : Flip(d) \/ Poll(d) \/ StorePort(d))
         \/ DetectEdges \/ DumpBegin \/ DumpEnd \/ (\E read : StartIO(read))
         \/ ReadIo \/ SameMinute \/ NewMinute
         \/ DbCreate \/ DbInsert \/ DbUpdate
  PROVE  UNCHANGED <<LedgerDay, LedgerOpen, LedgerClosed, db>>
<1> USE DEF LedgerDay, LedgerOpen, LedgerClosed, TickDue, Running, Writing,
            Midnight, TableOf, world, mainVars, ioVars, serverVars, dbVars, history
<1>1. CASE Tick \/ Configure \/ DetectEdges \/ DumpBegin \/ DumpEnd
  BY <1>1 DEF Tick, Configure, DetectEdges, DumpBegin, DumpEnd
<1>2. CASE \E d \in Devices : Flip(d) \/ Poll(d) \/ StorePort(d)
  BY <1>2 DEF Flip, Poll, StorePort
<1>3. ASSUME NEW read, StartIO(read)
      PROVE  UNCHANGED <<LedgerDay, LedgerOpen, LedgerClosed, db>>
  <2>1. /\ LedgerDay' = LedgerDay /\ LedgerClosed' = LedgerClosed /\ db' = db
        /\ LedgerOpen = Zero
    BY <1>3 DEF StartIO
  <2>2. \A d \in Devices : today'[d] - minus'[d] = 0
    BY <1>3, BoundsAssumption DEF StartIO, ReadBack
  <2>3. LedgerOpen' = Zero
    BY <1>3, <2>2 DEF StartIO, Zero
  <2>4. QED
    BY <2>1, <2>3
<1>4. CASE ReadIo \/ SameMinute \/ NewMinute
  BY <1>4 DEF ReadIo, SameMinute, NewMinute
<1>5. CASE DbCreate \/ DbInsert \/ DbUpdate
  BY <1>5 DEF DbCreate, DbInsert, DbUpdate
<1>6. QED
  BY <1>1, <1>2, <1>3, <1>4, <1>5

\* A sample of a new minute leaves the ledger in the old one.
LEMMA SampleRefines ==
  ASSUME PromptInv, Sample
  PROVE  UNCHANGED <<LedgerDay, LedgerOpen, LedgerClosed, db>>
<1>1. /\ pc = "idle" /\ pc' \in {"readio", "check"} /\ now' = clock
      /\ writeMin' = writeMin /\ writeMin = now.min
      /\ today' = today /\ minus' = minus /\ db' = db
  BY DEF Sample, PromptInv, ClockFollows, ioVars, dbVars
<1>2. LedgerOpen' = LedgerOpen /\ LedgerClosed' = LedgerClosed
  BY <1>1 DEF LedgerOpen, LedgerClosed, Running, Writing
<1>3. CASE clock = now
  BY <1>1, <1>2, <1>3 DEF LedgerDay, TickDue
<1>4. CASE ~IsLastMinute(now) /\ clock = Succ(now)
  <2>1. now \in Time /\ Succ(now) \in Time /\ now \in ATime
    BY SuccInTime, <1>4 DEF PromptInv, TypeOK, Time
  <2>2. now'.min # writeMin'
    BY <1>1, <1>4, <2>1, SuccChanges
  <2>3. TableOf(Succ(now)) = now.day
    BY <2>1, SuccTable
  <2>4. LedgerDay' = TableOf(clock)
    BY <1>1, <2>2 DEF LedgerDay, TickDue, TableOf, Midnight
  <2>5. LedgerDay = now.day
    BY <1>1 DEF LedgerDay, TickDue
  <2>6. QED
    BY <1>1, <1>2, <1>4, <2>3, <2>4, <2>5
<1>5. QED
  BY <1>1, <1>3, <1>4 DEF PromptInv, ClockFollows

\* A start or a stop is a restart of the ledger.
LEMMA RestartRefines ==
  ASSUME PromptInv, SampledBefore, StartMain \/ Crash
  PROVE  Ledger!Restart
<1>1. LedgerOpen' = Zero /\ LedgerClosed' = [day |-> None, pulses |-> Zero] /\ db' = db
  BY DEF StartMain, Crash, LedgerOpen, LedgerClosed, Running, Writing, dbVars
<1>2. LedgerDay' \in Day /\ LedgerDay' >= LedgerDay
  <2> USE DEF PromptInv, TypeOK, Time, ATime, Day, SampledBefore, LedgerDay, TickDue
  <2>1. CASE StartMain
    <3>1. LedgerDay = now.day /\ LedgerDay' = clock.day
      BY <2>1 DEF StartMain, world
    <3>2. QED
      BY <3>1
  <2>2. CASE Crash
    <3>1. LedgerDay' = now.day
      BY <2>2 DEF Crash
    <3>2. LedgerDay <= now.day
      BY DEF TableOf
    <3>3. LedgerDay \in Int
      BY DEF TableOf
    <3>4. now.day \in Day
      OBVIOUS
    <3>5. QED
      BY <3>1, <3>2, <3>3, <3>4
  <2>3. QED
    BY <2>1, <2>2
<1>3. QED
  BY <1>1, <1>2 DEF Ledger!Restart, Ledger!Nil, Ledger!NoMinute, Zero

LEMMA CollectRefines ==
  ASSUME PromptInv, NEW d \in Devices, Collect(d)
  PROVE  Ledger!Count(d)
<1>1. /\ LedgerDay' = LedgerDay /\ LedgerClosed' = LedgerClosed /\ db' = db
      /\ Running /\ Running' /\ minus' = minus
      /\ today' = [today EXCEPT ![d] = @ + 1]
  BY DEF Collect, LedgerDay, LedgerClosed, TickDue, Running, Writing, TableOf, Midnight,
     mainVars, dbVars
<1>2. today \in Counts /\ minus \in Counts
  BY DEF PromptInv, TypeOK
<1>3. LedgerOpen' = [LedgerOpen EXCEPT ![d] = @ + 1]
  <2>1. /\ LedgerOpen = [e \in Devices |-> today[e] - minus[e]]
        /\ LedgerOpen' = [e \in Devices |-> today'[e] - minus'[e]]
    BY <1>1 DEF LedgerOpen
  <2>2. \A e \in Devices :
          today'[e] - minus'[e] = (today[e] - minus[e]) + (IF e = d THEN 1 ELSE 0)
    BY <1>1, <1>2 DEF Counts
  <2>3. \A e \in Devices :
          LedgerOpen'[e] = IF e = d THEN LedgerOpen[d] + 1 ELSE LedgerOpen[e]
    <3>1. \A e \in Devices : LedgerOpen[e] \in Int /\ LedgerOpen[e] = today[e] - minus[e]
      BY <1>2, <2>1 DEF Counts
    <3>2. \A e \in Devices : LedgerOpen'[e] = today'[e] - minus'[e]
      BY <2>1
    <3>3. QED
      BY <2>2, <3>1, <3>2
  <2>4. DOMAIN LedgerOpen = Devices /\ DOMAIN LedgerOpen' = Devices
    BY <2>1
  <2>5. LedgerOpen' = [e \in Devices |-> IF e = d THEN LedgerOpen[d] + 1 ELSE LedgerOpen[e]]
    BY <2>1, <2>3, <2>4
  <2>6. QED
    BY <2>1, <2>5
<1>4. QED
  BY <1>1, <1>3 DEF Ledger!Count

LEMMA MinuteRefines ==
  ASSUME PromptInv, Minute
  PROVE  Ledger!CloseMinute
<1>1. /\ pc = "tick" /\ pc' = "create" /\ now' = now /\ db' = db
      /\ minuteP' = [d \in Devices |-> today[d] - minus[d]]
      /\ minus' = IF Midnight(now) THEN Zero ELSE today
      /\ today' = IF Midnight(now) THEN Zero ELSE today
  BY DEF Minute, dbVars
<1>2. LedgerClosed = [day |-> None, pulses |-> Zero]
  BY <1>1 DEF LedgerClosed, Writing
<1>3. LedgerDay = TableOf(now) /\ LedgerDay' = now.day
  BY <1>1 DEF LedgerDay, TickDue
<1>4. LedgerClosed' = [day |-> LedgerDay, pulses |-> LedgerOpen]
  BY <1>1, <1>3 DEF LedgerClosed, LedgerOpen, Writing, Running, TableOf, Midnight
<1>5. LedgerOpen' = Zero
  <2>1. \A d \in Devices : today'[d] - minus'[d] = 0
    BY <1>1 DEF PromptInv, TypeOK, Counts, Zero
  <2>2. QED
    BY <1>1, <2>1 DEF LedgerOpen, Running, Zero
<1>6. now.day \in Day \cap {TableOf(now), TableOf(now) + 1}
  BY DEF TableOf, PromptInv, TypeOK, Time, ATime, Day
<1>7. QED
  BY <1>1, <1>2, <1>3, <1>4, <1>5, <1>6
  DEF Ledger!CloseMinute, Ledger!Nil, Ledger!NoMinute, Zero

LEMMA DbEndRefines ==
  ASSUME PromptInv, DbEnd
  PROVE  Ledger!Post(logged)
<1>1. /\ pc = "end" /\ pc' = "idle" /\ now' = now /\ logged \in SUBSET Devices
      /\ today' = today /\ minus' = minus
      /\ txn.row = TableOf(now) /\ txn.written = Only(minuteP, logged)
  BY DEF DbEnd, PromptInv, TxnFollows, TypeOK, ioVars
<1>2. txn.row \in Day /\ txn.row # None
  BY <1>1, TableInDay, NoneAssumption DEF PromptInv, TypeOK, Day
<1>3. db' = [db EXCEPT ![txn.row] = Plus(@, txn.written)]
  BY <1>2 DEF DbEnd
<1>4. LedgerClosed = [day |-> TableOf(now), pulses |-> minuteP]
  BY <1>1 DEF LedgerClosed, Writing
<1>5. LedgerClosed # [day |-> None, pulses |-> Zero]
  BY <1>1, <1>2, <1>4
<1>6. LedgerClosed' = [day |-> None, pulses |-> Zero]
  BY <1>1 DEF LedgerClosed, Writing
<1>7. LedgerDay' = LedgerDay /\ LedgerOpen' = LedgerOpen
  BY <1>1 DEF LedgerDay, LedgerOpen, TickDue, Running
<1>8. db' = [db EXCEPT ![LedgerClosed.day] =
               [d \in Devices |-> @[d] + IF d \in logged THEN LedgerClosed.pulses[d] ELSE 0]]
  BY <1>1, <1>3, <1>4 DEF Plus, Only
<1>9. QED
  BY <1>5, <1>6, <1>7, <1>8 DEF Ledger!Post, Ledger!Nil, Ledger!NoMinute, Zero

LEMMA DbEndFailsRefines ==
  ASSUME PromptInv, DbEndFails
  PROVE  Ledger!Drop
<1>1. /\ pc = "end" /\ pc' = "idle" /\ now' = now /\ db' = db
      /\ today' = today /\ minus' = minus /\ now \in Time
  BY DEF DbEndFails, PromptInv, TypeOK, ioVars
<1>2. LedgerClosed.day \in Day /\ LedgerClosed.day # None
  BY <1>1, TableInDay, NoneAssumption DEF LedgerClosed, Writing, Day
<1>3. LedgerClosed' = [day |-> None, pulses |-> Zero]
  BY <1>1 DEF LedgerClosed, Writing
<1>4. LedgerDay' = LedgerDay /\ LedgerOpen' = LedgerOpen
  BY <1>1 DEF LedgerDay, LedgerOpen, TickDue, Running
<1>5. QED
  BY <1>1, <1>2, <1>3, <1>4 DEF Ledger!Drop, Ledger!Nil, Ledger!NoMinute, Zero

LEMMA StepRefines ==
  ASSUME PromptInv, SampledBefore, [Next]_vars
  PROVE  [Ledger!LedgerNext]_(Ledger!ledgerVars)
<1> USE DEF Ledger!LedgerNext, Ledger!ledgerVars
<1>1. CASE StartMain \/ Crash
  BY <1>1, RestartRefines
<1>2. ASSUME NEW d \in Devices, Collect(d) PROVE Ledger!LedgerNext
  BY <1>2, CollectRefines
<1>3. CASE Minute
  BY <1>3, MinuteRefines
<1>4. CASE DbEnd
  <2>1. logged \in SUBSET Devices
    BY DEF PromptInv, TypeOK
  <2>2. QED
    BY <1>4, <2>1, DbEndRefines
<1>5. CASE DbEndFails
  BY <1>5, DbEndFailsRefines
<1>6. CASE Sample
  BY <1>6, SampleRefines
<1>7. CASE UNCHANGED vars
  BY <1>7 DEF vars, mainVars, ioVars, dbVars, LedgerDay, LedgerOpen, LedgerClosed,
     TickDue, Running, Writing, TableOf, Midnight
<1>8. CASE \/ Tick \/ Configure \/ (\E d \in Devices : Flip(d) \/ Poll(d) \/ StorePort(d))
           \/ DetectEdges \/ DumpBegin \/ DumpEnd \/ (\E read : StartIO(read))
           \/ ReadIo \/ SameMinute \/ NewMinute
           \/ DbCreate \/ DbInsert \/ DbUpdate
  BY <1>8, StutterRefines
<1>9. QED
  BY <1>1, <1>2, <1>3, <1>4, <1>5, <1>6, <1>7, <1>8
  DEF Next, World, IoThread, Pass, DbWrite

\* A daemon that keeps up with its clock implements the ledger of days:
\* every minute's pulses are posted to its day at once, once or never.
THEOREM LedgerRefinement ==
  ASSUME Prompt
  PROVE  Spec => ImplementsLedger
<1>1. QED
  BY InitRefines, StepRefines, PromptCorrect, Sampled, PTL
  DEF Spec, ImplementsLedger, Ledger!LedgerSpec

=============================================================================
