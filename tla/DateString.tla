----------------------------- MODULE DateString -----------------------------
(***************************************************************************)
(* Wall-clock time inside the daemon. localtime fills one struct tm for    *)
(* the whole process, and two threads use it with no lock between them:    *)
(*                                                                         *)
(*   - main() keeps a pointer to that struct (mainTime), reads the minute  *)
(*     and the hour through it, and names the day table of powercalc.db    *)
(*     by get_date_string with shift 1;                                    *)
(*   - the io thread names the day table of nialm.db by get_date_string    *)
(*     with shift 0 whenever edge_detect finds an edge.                    *)
(*                                                                         *)
(* The C library serialises the calls of localtime, which writes the time  *)
(* of day before the date. time(), localtime() and the reading of a field  *)
(* are steps of their own. One name stands for each of the names a minute  *)
(* asks for.                                                               *)
(***************************************************************************)
EXTENDS Integers

CONSTANTS
  MinutesPerHour,   \* 60 in the program
  HoursPerDay,      \* 24 in the program
  DaysPerMonth,     \* months of one length: a date has two fields
  LastTime,         \* bound: the clock stops here
  Nobody

Threads == {"main", "io"}

ASSUME TimeAssumption ==
  /\ MinutesPerHour \in Nat /\ MinutesPerHour >= 2
  /\ HoursPerDay \in Nat /\ HoursPerDay >= 1
  /\ DaysPerMonth \in Nat /\ DaysPerMonth >= 1
  /\ LastTime \in Nat

ASSUME NobodyAssumption == Nobody \notin Threads

VARIABLES
  clock,     \* minutes since the epoch
  tm,        \* localtime's static struct
  libc,      \* the thread inside localtime
  pc,        \* pc[th]
  at,        \* at[th]: th's own time_t
  name,      \* name[th]: the day and the month th has read for a name
  writeMin,  \* main's write_min
  args,      \* the minute and the hour main has read for io.minute
  began,     \* history: began[th]: when th began its pass or call
  lastRow    \* history: the sample of main's last pass that wrote a row

vars == <<clock, tm, libc, pc, at, name, writeMin, args, began, lastRow>>

Minutes == MinutesPerHour * HoursPerDay
DayOf(t) == t \div Minutes
MinOf(t) == t % MinutesPerHour
HourOf(t) == (t \div MinutesPerHour) % HoursPerDay
Date(k) == [mday |-> k % DaysPerMonth, mon |-> k \div DaysPerMonth]
Broken(t) == [min |-> MinOf(t), hour |-> HourOf(t),
              mday |-> Date(DayOf(t)).mday, mon |-> Date(DayOf(t)).mon]

NoDate == [mday |-> -1, mon |-> -1]

Init ==
  /\ clock \in Minutes .. 2 * Minutes - 1
  /\ tm = Broken(clock)
  /\ libc = Nobody
  /\ pc = [th \in Threads |-> "idle"]
  /\ at = [th \in Threads |-> clock]
  /\ name = [th \in Threads |-> NoDate]
  /\ writeMin = MinOf(clock)
  /\ args = [min |-> 0, hour |-> 0]
  /\ began = [th \in Threads |-> clock]
  /\ lastRow = clock

Goto(th, label) == pc' = [pc EXCEPT ![th] = label]

\* No pass and no call spans more than one change of the minute (stalls are
\* the subject of PulseLog), and main begins a pass in every minute.
Tick ==
  /\ clock < LastTime
  /\ began["main"] = clock
  /\ pc["io"] = "idle" \/ began["io"] = clock
  /\ clock' = clock + 1
  /\ UNCHANGED <<tm, libc, pc, at, name, writeMin, args, began, lastRow>>

-----------------------------------------------------------------------------
(* localtime(&at[th]): "x" is where the caller goes on                     *)

\* where a thread inside localtime goes on: "fill" is main's call for
\* mainTime, "named" the call of get_date_string, "shifted" the one after
\* the shift
After == [fill |-> "test", named |-> "midnight", shifted |-> "mday"]

Enters(th) ==
  /\ pc[th] \in DOMAIN After /\ libc = Nobody
  /\ libc' = th
  /\ tm' = [tm EXCEPT !.min = MinOf(at[th]), !.hour = HourOf(at[th])]
  /\ UNCHANGED <<clock, pc, at, name, writeMin, args, began, lastRow>>

Leaves(th) ==
  /\ libc = th
  /\ libc' = Nobody
  /\ tm' = Broken(at[th])
  /\ Goto(th, After[pc[th]])
  /\ UNCHANGED <<clock, at, name, writeMin, args, began, lastRow>>

-----------------------------------------------------------------------------
(* get_date_string                                                         *)

\* time(&now)
AsksName(th) ==
  /\ at' = [at EXCEPT ![th] = clock]
  /\ Goto(th, "named")

\* (mutant of TestMidnight) the shift ignores the hour
TestAnyHour(th) ==
  /\ pc[th] = "midnight"
  /\ IF tm.min = 0 /\ th = "main"
       THEN at' = [at EXCEPT ![th] = @ - Minutes] /\ Goto(th, "shifted")
       ELSE UNCHANGED at /\ Goto(th, "mday")
  /\ UNCHANGED <<clock, tm, libc, name, writeMin, args, began, lastRow>>

TestMidnight(th) ==
  /\ pc[th] = "midnight"
  /\ IF tm.hour = 0 /\ tm.min = 0 /\ th = "main"
       THEN at' = [at EXCEPT ![th] = @ - 1] /\ Goto(th, "shifted")
       ELSE UNCHANGED at /\ Goto(th, "mday")
  /\ UNCHANGED <<clock, tm, libc, name, writeMin, args, began, lastRow>>

ReadDay(th) ==
  /\ pc[th] = "mday"
  /\ name' = [name EXCEPT ![th] = [mday |-> tm.mday, mon |-> -1]]
  /\ Goto(th, "mon")
  /\ UNCHANGED <<clock, tm, libc, at, writeMin, args, began, lastRow>>

ReadMonth(th) ==
  /\ pc[th] = "mon"
  /\ name' = [name EXCEPT ![th].mon = tm.mon]
  /\ Goto(th, "use")
  /\ UNCHANGED <<clock, tm, libc, at, writeMin, args, began, lastRow>>

\* the statement with that name is run
Uses(th) ==
  /\ pc[th] = "use"
  /\ Goto(th, "idle")
  /\ UNCHANGED <<clock, tm, libc, at, name, writeMin, args, began, lastRow>>

-----------------------------------------------------------------------------
(* The io thread and the main loop                                         *)

EdgeFound ==
  /\ pc["io"] = "idle"
  /\ began' = [began EXCEPT !["io"] = clock]
  /\ AsksName("io")
  /\ UNCHANGED <<clock, tm, libc, name, writeMin, args, lastRow>>

Sample ==
  /\ pc["main"] = "idle"
  /\ at' = [at EXCEPT !["main"] = clock]
  /\ began' = [began EXCEPT !["main"] = clock]
  /\ Goto("main", "fill")
  /\ UNCHANGED <<clock, tm, libc, name, writeMin, args, lastRow>>

\* (mutant of TestMinute) a minute is due when the new one is greater
TestGreater ==
  /\ pc["main"] = "test"
  /\ Goto("main", IF tm.min > writeMin THEN "store" ELSE "idle")
  /\ UNCHANGED <<clock, tm, libc, at, name, writeMin, args, began, lastRow>>

\* mainTime->tm_min != write_min
TestMinute ==
  /\ pc["main"] = "test"
  /\ Goto("main", IF tm.min # writeMin THEN "store" ELSE "idle")
  /\ UNCHANGED <<clock, tm, libc, at, name, writeMin, args, began, lastRow>>

StoreMinute ==
  /\ pc["main"] = "store"
  /\ writeMin' = tm.min
  /\ lastRow' = at["main"]
  /\ Goto("main", "hour")
  /\ UNCHANGED <<clock, tm, libc, at, name, args, began>>

ReadHour ==
  /\ pc["main"] = "hour"
  /\ args' = [args EXCEPT !.hour = tm.hour]
  /\ Goto("main", "min")
  /\ UNCHANGED <<clock, tm, libc, at, name, writeMin, began, lastRow>>

\* (mutant of ReadMin) minute and hour change places in the call
ReadMinSwapped ==
  /\ pc["main"] = "min"
  /\ args' = [min |-> args.hour, hour |-> tm.min]
  /\ Goto("main", "minute")
  /\ UNCHANGED <<clock, tm, libc, at, name, writeMin, began, lastRow>>

ReadMin ==
  /\ pc["main"] = "min"
  /\ args' = [args EXCEPT !.min = tm.min]
  /\ Goto("main", "minute")
  /\ UNCHANGED <<clock, tm, libc, at, name, writeMin, began, lastRow>>

\* io.minute(args) returns; io.db_write asks for its name
MinuteDone ==
  /\ pc["main"] = "minute"
  /\ AsksName("main")
  /\ UNCHANGED <<clock, tm, libc, name, writeMin, args, began, lastRow>>

Call(th) ==
  \/ Enters(th) \/ Leaves(th) \/ TestMidnight(th)
  \/ ReadDay(th) \/ ReadMonth(th) \/ Uses(th)

Next ==
  \/ Tick \/ EdgeFound \/ \E th \in Threads : Call(th)
  \/ Sample \/ TestMinute \/ StoreMinute \/ ReadHour \/ ReadMin \/ MinuteDone

Spec == Init /\ [][Next]_vars

-----------------------------------------------------------------------------
(* Properties                                                              *)

\* "A time record of its own, so that the main program's is not messed up":
\* io.minute is called with the minute and the hour main has sampled.
MainTimeItsOwn ==
  pc["main"] = "minute" =>
    args = [min |-> MinOf(at["main"]), hour |-> HourOf(at["main"])]

\* What the races can do to a name: each of its fields is that of a minute no
\* more than two before the call. A name is wrong only next to midnight, and
\* then mixes today and yesterday, though its fields need not be of one day.
NameMixesTwoDays ==
  \A th \in Threads : pc[th] = "use" =>
    LET near == {Date(k) : k \in DayOf(began[th] - 2) .. DayOf(clock)} IN
      /\ name[th].mday \in {d.mday : d \in near}
      /\ name[th].mon \in {d.mon : d \in near}

\* What the races can do to the main loop: write_min may be set to the minute
\* before or after, and a minute's row come late or not at all, but the last
\* row is never older than four minutes.
RowsKeepComing == clock - lastRow <= 4

\* What the races can do to the arguments of io.minute: minute and hour are
\* each those of the sample or of a minute next to it.
ArgsNearSample ==
  pc["main"] = "minute" =>
    LET near == at["main"] - 1 .. at["main"] + 1 IN
      /\ args.min \in {MinOf(t) : t \in near}
      /\ args.hour \in {HourOf(t) : t \in near}

=============================================================================
