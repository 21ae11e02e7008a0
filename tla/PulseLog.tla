------------------------------ MODULE PulseLog ------------------------------
(***************************************************************************)
(* Pulse accounting of the powercalc daemon: from a falling edge on a      *)
(* meter's GPIO port to a row of the day table on the memory card.         *)
(*                                                                         *)
(*   - the io thread (IO::pulsing, IO::pulsecollect) polls the ports and   *)
(*     counts falling edges in devicePulses_today under iolock;            *)
(*   - the main thread (main, IO::minute, IO::db_write) notices a new      *)
(*     minute, takes the pulses of the last minute, zeroes the counters at *)
(*     00:00 and writes one row in one SQLite transaction;                 *)
(*   - a start (IO::IO, IO::read_db) rebuilds today's count from the table *)
(*     of the day, as far as it can read it; a crash or a stop loses what  *)
(*     no row holds;                                                       *)
(*   - the server thread may hold iolock while it prints to a client, the  *)
(*     io thread while it stores a step in nialm.db.                       *)
(*                                                                         *)
(* The sum of a day's rows per device stands for the rows themselves:      *)
(* read_db only ever sums them.                                            *)
(***************************************************************************)
EXTENDS Integers

CONSTANTS
  Devices,          \* the rows of IO_DATA, i.e. the indices of ioVect
  MainMeter,        \* the one with index 0
  MinutesPerHour,   \* 60 in the program, small in TLC's runs
  HoursPerDay,      \* 24 in the program
  LastDay,          \* bound: the clock stops at the end of this day
  MaxEdges,         \* bound: falling edges per meter
  MaxCrashes,       \* bound: stops and crashes of the daemon
  MaxDumps,         \* bound: ring dumps the server sends under iolock
  Prompt,           \* TRUE: the main loop handles every minute within it
  None              \* no device, no table

ASSUME TimeAssumption ==
  /\ MinutesPerHour \in Nat /\ MinutesPerHour >= 2
  /\ HoursPerDay \in Nat /\ HoursPerDay >= 1
  /\ LastDay \in Nat

ASSUME BoundsAssumption ==
  /\ MaxEdges \in Nat
  /\ MaxCrashes \in Nat
  /\ MaxDumps \in Nat
  /\ Prompt \in BOOLEAN

ASSUME NoneAssumption == None \notin Devices /\ None \notin Int

VARIABLES
  (* the world outside *)
  clock,      \* the wall clock: what localtime(time()) shows
  level,      \* level[d]: the port of meter d
  cfg,        \* the devices config.db has with deviceActive = deviceLog = 1
  (* main thread *)
  pc,         \* where main() is
  now,        \* the time main() sampled last
  writeMin,   \* write_min
  logged,     \* the devices whose row in ioVect has deviceActive = deviceLog = 1
  (* ioVect, per device *)
  portState,  \* devicePortState
  today,      \* devicePulses_today
  minus,      \* devicePulses_minus_minute
  minuteP,    \* devicePulses_minute
  ioAt,       \* the device whose edge the io thread works on
  ioPc,       \* "poll", "count" the edge, or "store" the port's state
  (* the lock and the server thread *)
  iolock,     \* "free", "server" (a ring dump) or "io" (edge_detect)
  dumps,
  (* powercalc.db *)
  db,         \* db[day][d]: sum of the committed rows of the table of that day
  tables,     \* the day tables that exist
  txn,        \* the open transaction
  crashes,
  (* history *)
  edges,      \* falling edges at the port while the daemon runs
  billed,     \* pulses in committed rows
  lost,       \* pulses no row will ever hold
  memDay,     \* the day today and minus count for
  skipped,    \* pulses of memDay taken into a minute and not in a row
  unread      \* pulses in memDay's table that the start did not read

world == <<clock, level, cfg>>
mainVars == <<pc, now, writeMin, logged>>
ioVars == <<portState, today, minus, minuteP, ioAt, ioPc>>
serverVars == <<iolock, dumps>>
dbVars == <<db, tables, txn>>
history == <<edges, billed, lost, memDay, skipped, unread>>
vars == <<world, mainVars, ioVars, serverVars, dbVars, crashes, history>>

-----------------------------------------------------------------------------
(* Time, as struct tm shows it. The clock does not go back.                *)

Day == 0 .. LastDay

ATime == [day : Day, hour : 0 .. HoursPerDay - 1, min : 0 .. MinutesPerHour - 1]

\* (mutant of Midnight) the day's end written as 24:00
MidnightAs24(t) == t.hour = HoursPerDay /\ t.min = 0

\* the test of IO::minute and of get_date_string
Midnight(t) == t.hour = 0 /\ t.min = 0

\* The first day starts after 00:00: there is a day before every midnight.
Time == {t \in ATime : t.day = 0 => ~Midnight(t)}

Succ(t) ==
  IF t.min < MinutesPerHour - 1 THEN [t EXCEPT !.min = t.min + 1]
  ELSE IF t.hour < HoursPerDay - 1
  THEN [t EXCEPT !.min = 0, !.hour = t.hour + 1]
  ELSE [day |-> t.day + 1, hour |-> 0, min |-> 0]

IsLastMinute(t) ==
  t.day = LastDay /\ t.hour = HoursPerDay - 1 /\ t.min = MinutesPerHour - 1

\* (mutant of TableOf) the shift is forgotten
TableOfNow(t) == t.day

\* get_date_string(s, 1): at 00:00 one minute is taken off, which is the
\* day before; get_date_string(s, 0) is t.day itself.
TableOf(t) == IF Midnight(t) THEN t.day - 1 ELSE t.day

-----------------------------------------------------------------------------
Zero == [d \in Devices |-> 0]

Plus(f, g) == [d \in Devices |-> f[d] + g[d]]

Only(f, S) == [d \in Devices |-> IF d \in S THEN f[d] ELSE 0]

NoTxn == [made |-> None, row |-> None, written |-> Zero]

\* main() is past the constructors: the threads run
Running == pc \notin {"down", "boot"}

\* main() has taken the minute's pulses and has not ended the transaction
Writing == pc \in {"create", "insert", "update", "end"}

\* an edge that the io thread has seen and not counted, or sees at its next
\* poll
Pending(d) == IF ioAt = d THEN ioPc = "count" ELSE portState[d] = 1 /\ level[d] = 0

Init ==
  /\ clock \in {t \in Time : t.day = 0}
  /\ level \in [Devices -> {0, 1}]
  /\ cfg \in SUBSET Devices
  /\ pc = "down"
  /\ now = clock
  /\ writeMin = 0
  /\ logged = {}
  /\ portState = Zero
  /\ today = Zero /\ minus = Zero /\ minuteP = Zero
  /\ ioAt = None /\ ioPc = "poll"
  /\ iolock = "free" /\ dumps = 0
  /\ db = [k \in Day |-> Zero]
  /\ tables = {}
  /\ txn = NoTxn
  /\ crashes = 0
  /\ edges = Zero /\ billed = Zero /\ lost = Zero
  /\ memDay = 0 /\ skipped = Zero /\ unread = Zero

-----------------------------------------------------------------------------
(* The world: time, meters, the settings page                              *)

\* A prompt daemon has handled the current minute before the next one
\* begins; otherwise the main thread may stall anywhere: 30 s in every
\* SQLite call that meets a lock, in iolock while a client does not read,
\* or when the system sleeps or sets its clock forward.
Tick ==
  /\ ~IsLastMinute(clock)
  /\ Prompt => pc = "down" \/ (pc \in {"boot", "idle"} /\ clock = now)
  /\ clock' = Succ(clock)
  /\ UNCHANGED <<level, cfg, mainVars, ioVars, serverVars, dbVars, crashes, history>>

\* A meter changes its port. It is slower than the io thread's poll, which
\* sees every level, unless the thread waits for iolock behind a ring dump or
\* is still at work on an edge that it has counted.
Flip(d) ==
  LET falls == level[d] = 1
      unseen == \/ falls /\ (portState[d] = 0 \/ ioAt = d)
                \/ ~falls /\ portState[d] = 1 /\ ioAt # d
  IN
  /\ level[d] = portState[d] \/ ~Running
     \/ ioPc = "store" \/ (ioPc = "count" /\ iolock = "server")
  /\ falls => edges[d] < MaxEdges
  /\ level' = [level EXCEPT ![d] = 1 - @]
  /\ edges' = [edges EXCEPT ![d] = IF falls /\ Running THEN @ + 1 ELSE @]
  /\ lost' = [lost EXCEPT ![d] = IF unseen /\ Running THEN @ + 1 ELSE @]
  /\ UNCHANGED <<clock, cfg, mainVars, ioVars, serverVars, dbVars, crashes,
                 billed, memDay, skipped, unread>>

Configure ==
  /\ cfg' \in SUBSET Devices
  /\ UNCHANGED <<clock, level, mainVars, ioVars, serverVars, dbVars, crashes, history>>

-----------------------------------------------------------------------------
(* The io thread: IO::pulsing                                              *)

\* A poll that sees the port low after high goes to pulsecollect; any other
\* poll stores the level.
Poll(d) ==
  /\ Running /\ ioPc = "poll"
  /\ level[d] # portState[d]
  /\ IF level[d] = 0
       THEN ioAt' = d /\ ioPc' = "count" /\ UNCHANGED portState
       ELSE portState' = [portState EXCEPT ![d] = 1] /\ UNCHANGED <<ioAt, ioPc>>
  /\ UNCHANGED <<world, mainVars, today, minus, minuteP, serverVars, dbVars,
                 crashes, history>>

\* pulsecollect counts under iolock.
Collect(d) ==
  /\ Running /\ ioAt = d /\ ioPc = "count" /\ iolock = "free"
  /\ today' = [today EXCEPT ![d] = @ + 1]
  /\ ioPc' = "store"
  /\ UNCHANGED <<world, mainVars, portState, minus, minuteP, ioAt, serverVars,
                 dbVars, crashes, history>>

\* When the window is complete the value is computed and entered; the main
\* meter's goes to edge_detect, which holds iolock while it stores a step in
\* nialm.db, up to 30 s for each of two statements.
DetectEdges ==
  /\ Running /\ ioAt = MainMeter /\ ioPc = "store" /\ iolock = "free"
  /\ iolock' = "io"
  /\ UNCHANGED <<world, mainVars, ioVars, dumps, dbVars, crashes, history>>

\* Back in pulsing the port state becomes the level that was read before all
\* this, 0, whatever the port shows by now.
StorePort(d) ==
  /\ Running /\ ioAt = d /\ ioPc = "store"
  /\ portState' = [portState EXCEPT ![d] = 0]
  /\ ioAt' = None /\ ioPc' = "poll"
  /\ iolock' = IF iolock = "io" THEN "free" ELSE iolock
  /\ UNCHANGED <<world, mainVars, today, minus, minuteP, dumps, dbVars, crashes, history>>

-----------------------------------------------------------------------------
(* The server thread: a ring dump (type 2, 22, 3) prints and flushes to    *)
(* the client with iolock held.                                            *)

DumpBegin ==
  /\ Running /\ iolock = "free" /\ dumps < MaxDumps
  /\ iolock' = "server" /\ dumps' = dumps + 1
  /\ UNCHANGED <<world, mainVars, ioVars, dbVars, crashes, history>>

\* (mutant of DumpEnd) a branch that returns without the unlock
DumpKeepsLock ==
  /\ iolock = "server"
  /\ UNCHANGED vars

DumpEnd ==
  /\ iolock = "server"
  /\ iolock' = "free"
  /\ UNCHANGED <<dumps, world, mainVars, ioVars, dbVars, crashes, history>>

-----------------------------------------------------------------------------
(* Start, stop and crash                                                   *)

\* main() samples the minute before it constructs IO ...
StartMain ==
  /\ pc = "down"
  /\ now' = clock /\ writeMin' = clock.min
  /\ pc' = "boot"
  /\ UNCHANGED <<world, logged, ioVars, serverVars, dbVars, crashes, history>>

\* What read_db may make of the rows of a table. Each device has a SELECT of
\* its own, and no error is noticed: when the file does not open or the
\* statement does not compile (no such table, a lock) the counters stay at 0,
\* and a step that fails ends the loop like the last row, with the rows so
\* far. Only their sum is in db: any number up to it.
ReadBack(table) ==
  {f \in [Devices -> 0 .. MaxEdges] : \A d \in Devices : f[d] <= table[d]}

\* (mutant of StartIO) read_db asks for the date with db_write's shift
StartIOShifted(read) ==
  /\ pc = "boot" /\ read \in ReadBack(db[TableOf(clock)])
  /\ logged' = cfg
  /\ today' = read /\ minus' = read
  /\ minuteP' = Zero /\ portState' = Zero /\ ioAt' = None /\ ioPc' = "poll"
  /\ pc' = "idle"
  /\ memDay' = clock.day /\ skipped' = Zero
  /\ unread' = [d \in Devices |-> db[TableOf(clock)][d] - read[d]]
  /\ UNCHANGED <<world, now, writeMin, serverVars, dbVars, crashes, edges, billed, lost>>

\* ... whose constructor reads the settings, sums the rows of today's table
\* into both counters and starts the threads.
StartIO(read) ==
  /\ pc = "boot" /\ read \in ReadBack(db[clock.day])
  /\ logged' = cfg
  /\ today' = read /\ minus' = read
  /\ minuteP' = Zero /\ portState' = Zero /\ ioAt' = None /\ ioPc' = "poll"
  /\ pc' = "idle"
  /\ memDay' = clock.day /\ skipped' = Zero
  /\ unread' = [d \in Devices |-> db[clock.day][d] - read[d]]
  /\ UNCHANGED <<world, now, writeMin, serverVars, dbVars, crashes, edges, billed, lost>>

\* (mutant of Crash) without BEGIN and END the UPDATEs stay after a crash
CrashWithoutRollback ==
  /\ pc # "down" /\ crashes < MaxCrashes
  /\ crashes' = crashes + 1
  /\ pc' = "down" /\ iolock' = "free" /\ txn' = NoTxn
  /\ portState' = Zero /\ ioAt' = None /\ ioPc' = "poll"
  /\ today' = Zero /\ minus' = Zero /\ minuteP' = Zero
  /\ db' = IF txn.row = None THEN db ELSE [db EXCEPT ![txn.row] = Plus(@, txn.written)]
  /\ skipped' = Zero /\ unread' = Zero
  /\ UNCHANGED <<world, now, writeMin, logged, dumps, tables, edges, billed, lost, memDay>>

\* Power loss, a signal, or IO::stop, which writes nothing: SQLite rolls an
\* open transaction back, and what no row holds is gone.
Crash ==
  /\ pc # "down" /\ crashes < MaxCrashes
  /\ crashes' = crashes + 1
  /\ pc' = "down" /\ iolock' = "free" /\ txn' = NoTxn
  /\ portState' = Zero /\ ioAt' = None /\ ioPc' = "poll"
  /\ today' = Zero /\ minus' = Zero /\ minuteP' = Zero
  /\ lost' = [d \in Devices |-> lost[d]
               + (IF Running THEN today[d] - minus[d] ELSE 0)
               + (IF Running /\ Pending(d) THEN 1 ELSE 0)
               + (IF Writing THEN minuteP[d] ELSE 0)]
  /\ skipped' = Zero /\ unread' = Zero
  /\ UNCHANGED <<world, now, writeMin, logged, dumps, db, tables, edges, billed, memDay>>

-----------------------------------------------------------------------------
(* The main loop                                                           *)

\* time(&now); every fifth second the pass starts with read_io().
Sample ==
  /\ pc = "idle"
  /\ now' = clock
  /\ pc' \in {"readio", "check"}
  /\ UNCHANGED <<world, writeMin, logged, ioVars, serverVars, dbVars, crashes, history>>

\* read_io copies every row under iolock.
ReadIo ==
  /\ pc = "readio" /\ iolock = "free"
  /\ logged' = cfg
  /\ pc' = "check"
  /\ UNCHANGED <<world, now, writeMin, ioVars, serverVars, dbVars, crashes, history>>

SameMinute ==
  /\ pc = "check" /\ now.min = writeMin
  /\ pc' = "idle"
  /\ UNCHANGED <<world, now, writeMin, logged, ioVars, serverVars, dbVars, crashes, history>>

NewMinute ==
  /\ pc = "check" /\ now.min # writeMin
  /\ writeMin' = now.min
  /\ pc' = "tick"
  /\ UNCHANGED <<world, now, logged, ioVars, serverVars, dbVars, crashes, history>>

\* (mutant of Minute) devicePulses_minus_minute is only touched at 00:00
MinuteForgetsMinus ==
  /\ pc = "tick" /\ iolock = "free"
  /\ minuteP' = [d \in Devices |-> today[d] - minus[d]]
  /\ minus' = IF Midnight(now) THEN Zero ELSE minus
  /\ today' = IF Midnight(now) THEN Zero ELSE today
  /\ pc' = "create"
  /\ memDay' = IF Midnight(now) THEN now.day ELSE memDay
  /\ skipped' = IF Midnight(now) THEN Zero ELSE skipped
  /\ unread' = IF Midnight(now) THEN Zero ELSE unread
  /\ UNCHANGED <<world, now, writeMin, logged, portState, ioAt, ioPc, serverVars,
                 dbVars, crashes, edges, billed, lost>>

\* IO::minute(tm_min, tm_hour), all devices in one critical section
Minute ==
  /\ pc = "tick" /\ iolock = "free"
  /\ minuteP' = [d \in Devices |-> today[d] - minus[d]]
  /\ minus' = IF Midnight(now) THEN Zero ELSE today
  /\ today' = IF Midnight(now) THEN Zero ELSE today
  /\ pc' = "create"
  /\ memDay' = IF Midnight(now) THEN now.day ELSE memDay
  /\ skipped' = IF Midnight(now) THEN Zero ELSE skipped
  /\ unread' = IF Midnight(now) THEN Zero ELSE unread
  /\ UNCHANGED <<world, now, writeMin, logged, portState, ioAt, ioPc, serverVars,
                 dbVars, crashes, edges, billed, lost>>

\* BEGIN; CREATE TABLE and the ALTER TABLEs, whose errors are ignored: the
\* table of the day is there, with a column per device.
DbCreate ==
  /\ pc = "create"
  /\ txn' = [NoTxn EXCEPT !.made = TableOf(clock)]
  /\ pc' = "insert"
  /\ UNCHANGED <<world, now, writeMin, logged, ioVars, serverVars, db, tables, crashes, history>>

\* INSERT the row of this epoch. The name is taken from the clock anew; the
\* statement fails when that table does not exist.
DbInsert ==
  /\ pc = "insert"
  /\ LET t == TableOf(clock) IN
       txn' = [txn EXCEPT !.row = IF t \in tables \union {txn.made} THEN t ELSE None]
  /\ pc' = "update"
  /\ UNCHANGED <<world, now, writeMin, logged, ioVars, serverVars, db, tables, crashes, history>>

\* One UPDATE per logged device, in the table the clock names now: without
\* this epoch's row in it nothing is written. iolock only guards the reads.
DbUpdate ==
  /\ pc = "update" /\ iolock = "free"
  /\ txn' = [txn EXCEPT !.written = IF TableOf(clock) = txn.row
                                      THEN Only(minuteP, logged) ELSE Zero]
  /\ pc' = "end"
  /\ UNCHANGED <<world, now, writeMin, logged, ioVars, serverVars, db, tables, crashes, history>>

\* what this tick took and did not write, as long as the day is not over
Skips(written) ==
  [d \in Devices |-> IF Midnight(now) THEN skipped[d]
                     ELSE skipped[d] + minuteP[d] - written[d]]

Loses(written) == [d \in Devices |-> lost[d] + minuteP[d] - written[d]]

\* END; ow.db_write follows and touches none of this state.
DbEnd ==
  /\ pc = "end"
  /\ db' = IF txn.row = None THEN db
           ELSE [db EXCEPT ![txn.row] = Plus(@, txn.written)]
  /\ tables' = tables \union {txn.made}
  /\ txn' = NoTxn
  /\ pc' = "idle"
  /\ billed' = Plus(billed, txn.written)
  /\ lost' = Loses(txn.written) /\ skipped' = Skips(txn.written)
  /\ UNCHANGED <<world, now, writeMin, logged, ioVars, serverVars, crashes, edges,
                 memDay, unread>>

\* END meets a reader's lock for 30 s: its error is ignored and closing the
\* database rolls the transaction back.
DbEndFails ==
  /\ pc = "end"
  /\ txn' = NoTxn
  /\ pc' = "idle"
  /\ lost' = Loses(Zero) /\ skipped' = Skips(Zero)
  /\ UNCHANGED <<world, now, writeMin, logged, ioVars, serverVars, db, tables,
                 crashes, edges, billed, memDay, unread>>

World == Tick \/ Configure \/ \E d \in Devices : Flip(d)

IoThread ==
  DetectEdges \/ \E d \in Devices : Poll(d) \/ Collect(d) \/ StorePort(d)

Pass == Sample \/ ReadIo \/ SameMinute \/ NewMinute \/ Minute

DbWrite == DbCreate \/ DbInsert \/ DbUpdate \/ DbEnd \/ DbEndFails

Next ==
  \/ World \/ IoThread
  \/ DumpBegin \/ DumpEnd
  \/ StartMain \/ Crash
  \/ \E read \in [Devices -> 0 .. MaxEdges] : StartIO(read)
  \/ Pass \/ DbWrite

Spec == Init /\ [][Next]_vars

\* The scheduler runs every thread, and a client that asked for a dump reads
\* it; nothing is assumed of the clock, the meters or the settings page.
FairSpec ==
  /\ Spec
  /\ WF_vars(Pass \/ DbWrite)
  /\ WF_vars(IoThread)
  /\ WF_vars(DumpEnd)

-----------------------------------------------------------------------------
(* Properties                                                              *)

Counts == [Devices -> Nat]

\* The shape of the state. minus never passes today and a row never holds
\* more than its minute: nothing the code subtracts as ints is negative.
TypeOK ==
  /\ clock \in Time /\ now \in Time
  /\ level \in [Devices -> {0, 1}] /\ portState \in [Devices -> {0, 1}]
  /\ cfg \in SUBSET Devices /\ logged \in SUBSET Devices
  /\ pc \in {"down", "boot", "idle", "readio", "check", "tick",
             "create", "insert", "update", "end"}
  /\ writeMin \in 0 .. MinutesPerHour - 1
  /\ today \in Counts /\ minus \in Counts /\ minuteP \in Counts
  /\ \A d \in Devices : minus[d] <= today[d]
  /\ ioAt \in Devices \union {None} /\ ioPc \in {"poll", "count", "store"}
  /\ (ioPc = "poll" <=> ioAt = None) /\ (iolock = "io" => ioPc = "store")
  /\ ioPc # "poll" => Running
  /\ iolock \in {"free", "server", "io"} /\ dumps \in Nat /\ crashes \in Nat
  /\ db \in [Day -> Counts] /\ tables \in SUBSET Day
  /\ txn \in [made : Day \union {None}, row : Day \union {None}, written : Counts]
  /\ pc \in {"insert", "update", "end"} => txn.made # None
  /\ \A d \in Devices : txn.written[d] <= (IF pc = "end" THEN minuteP[d] ELSE 0)
  /\ edges \in Counts /\ billed \in Counts /\ lost \in Counts
  /\ memDay \in Day /\ skipped \in Counts /\ unread \in Counts

Balanced(d) ==
  edges[d] = billed[d] + lost[d]
    + (IF Running THEN today[d] - minus[d] ELSE 0)
    + (IF Running /\ Pending(d) THEN 1 ELSE 0)
    + (IF Writing THEN minuteP[d] ELSE 0)

\* Every falling edge of a meter is in exactly one place, whatever stalls,
\* fails or crashes: waiting at the port, in the minute that is being
\* counted, in the row that is being written, in a committed row, or lost in
\* one of the ways the code has of losing it. No pulse is billed twice.
PulseLedger == \A d \in Devices : Balanced(d)

\* the minute's pulses that belong to memDay and are not in its table yet
InFlight(d) == IF Writing /\ ~Midnight(now) THEN minuteP[d] ELSE 0

\* While the daemon keeps up with the clock, what it has counted up to the
\* last minute of today is what today's table holds, with the minutes whose
\* write failed or was not wanted, less what the start could not read. So a
\* restart (IO::read_db) that reads the whole table continues from the number
\* of the one before, but for those minutes; one that meets an error, which
\* it ignores, shows too little by just that, to the next 00:00 or restart:
\* no later minute adds to the error, and none makes it good.
TodayFromTable ==
  Running => \A d \in Devices :
    minus[d] + unread[d] = db[memDay][d] + skipped[d] + InFlight(d)

\* The counter shown as today's is today's: 00:00 never passes without the
\* reset of IO::minute ("the day changes").
DayCurrent ==
  pc = "idle" /\ now = clock => memDay = clock.day

\* "So that the pulse value goes to the right day": the row of a minute goes
\* to the table of the day that minute lies in, 00:00's to the day before.
RowInDayOfItsMinute ==
  pc = "end" /\ txn.written # Zero =>
    \A t \in ATime : Succ(t) = now => txn.row = t.day

\* A pass of the main loop ends: whoever asks for dumps, the minute is
\* written or the daemon is gone.
PassEnds == pc \notin {"down", "boot", "idle"} ~> pc \in {"down", "idle"}

=============================================================================
