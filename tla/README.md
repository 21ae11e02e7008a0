# deltaBox (IDEC): TLA+ models, model checking and proofs

deltaBox is a home energy monitor. A daemon (`powercalc`) on a small ARM board
polls the pulse outputs of electricity and water meters, turns pulses into
live power, minute rows and load steps, reads 1-Wire temperature sensors, and
serves the live data on a Unix socket; CGI programs and PHP pages show the data
and edit the settings. This directory models the logic of the daemon, of the
programs over its data and of the pages that act on its tables in TLA+, checks
it with TLC and proves its main invariants with TLAPS.

## 1. The system

| Component | Source | State | Operations | Talks to |
|---|---|---|---|---|
| Process life cycle | `powercalc.c`, `mnt/disk/powercalc.sh` | lock file with the pid, `MAIN_LOOP_ALIVE` | fork, lock, main loop, SIGTERM, `io.stop`, `ow.stop` | scripts (kill, restart) |
| Pulse accounting | `powercalc.c` 118-161, `io.c` 162-187, 350-413, 519-614, 1014-1203 | per meter `devicePortState`, `devicePulses_today`, `_minus_minute`, `_minute`; day tables `dYYYY_MM_DD` in powercalc.db | io thread counts; main loop takes the minute, resets the day, writes the row; start reads the day's rows back | `iolock`, powercalc.db |
| Wall-clock time | `boxfunctions.c` 610-658, `localtime` | one `struct tm` in libc, `write_min` | `get_date_string` with and without the midnight shift | main and io thread, no lock |
| Live value | `io.c` 577-725 | per meter `timerV[0..5]`, `i`, `e`, `deviceValueCalc` | `pulsecollect`, `pulsecalculate` | settings copied by `read_io` |
| Power curve and steps | `io.c` 727-820, 879-1012 | rings `x`, `y` of 512, `Check` marks, `delta` | `live_write` (median of 11), `edge_detect`, `nialm_db_write` | nialm.db |
| Interpolated curve | `io.c` 822-876 | ring `y_interp` of 256 | `interpolate` | server type 3 |
| Server thread | `io.c` 189-348 | request line, type, deviceId, descriptors | accept, answer types 1, 2, 22, 3, 4, close | CGI client, `iolock` |
| Settings reload | `io.c` 415-517, `ow.c` 149-241 | `ioVect`, `owVect` | resize, copy row by row | config.db, locks per row |
| 1-Wire | `ow.c` 55-1648 | `owVect`, OW_DATA, `ow_live`, `ow_N` columns | scan, `write_ow`, `buildSensorList`, `read_device`, `live_db_write`, `db_write` | config.db, live.db, powercalc.db, `owlock` |
| Clustering | `cluster.c` | arrays of one run | k-means, fuzzy, EM, pairing, genetic order | nialm.db |
| Client, statistics, archive | `socket_client.c`, `get_statistics.c`, `get_file_archive.c` | one CGI process each | queries | socket, powercalc.db |
| Web pages | `mnt/disk/home` | config.db, `/disk/users.txt` | forms | config.db, the scripts |

Threads: main (default scheduling), io and server (SCHED_RR 50), 1-Wire
(SCHED_OTHER). The two locks are `iolock` and `owlock`. Databases are the
shared state between processes; SQLite waits up to 30 s for a lock.

What is hard here:

- three threads share `ioVect`, some accesses locked and some not;
- time comes from the wall clock at many places, each asked anew, and at
  midnight the same minute has two dates (the minute 23:59-00:00 is stamped
  00:00 and belongs to the day before);
- every database error is ignored, so each one is a path on which the state in
  memory has moved and the file has not;
- the daemon may be killed or lose power at any step and rebuilds its state
  from what the file has;
- the server prints to its client with `iolock` held.

What makes the components correct:

- *pulse accounting*: no pulse is lost or billed twice but in the known ways;
  the count of today is that of the day's table, less what the start could not
  read; rows lie in their day; a pass ends;
- *time*: minute and hour of a pass are those that were sampled; a table's name
  is the date of the caller's minute;
- *live value*: pulses over exactly the time they took, of one load, positive,
  and coming;
- *steps*: each step of the load is handed to the database once, with its size,
  near its time;
- *interpolated curve*: one value per second, in order, on the line;
- *server*: closes its own descriptor only, answers the request it was sent,
  ends no client's wait by its own end;
- *process*: one daemon at a time, and one after a restart;
- *settings*: readers never see an element that is not a row of the table;
- *1-Wire*: a value is of the sensor it is stored with; one row per sensor; the
  registry seen from outside is that of a complete scan;
- *clustering*: a partition's means and counts are of its members; every
  cluster is in one device; random draws can end; a step's energy counts once;
- *archive*: each day once and in order, each row in one point.

`PROJECT.json` lists under "hazards" each place where one of these can go wrong
in a way a test would hardly reach, with the properties that cover it.

## 2. Modules

| Module | What it is |
|---|---|
| `PulseLog` | main loop, io thread, iolock, day tables, crashes: the core |
| `DayLedger` | what pulse accounting promises: a ledger of days |
| `PulseLogRefinement` | the mapping of `PulseLog` to `DayLedger` |
| `PulseLogProofs` | proofs about the core, and that it implements the ledger |
| `DateString`, `DateStringProofs` | the race on localtime's static struct |
| `PulseWindow` | the window of periods behind a live value |
| `EdgeDetect` | median filter and step detector on a ring |
| `Interpolation` | the ring of one-second values |
| `MeterProofs` | proofs about `PulseWindow` and `Interpolation` |
| `OneWire`, `OneWireProofs` | the 1-Wire thread, the registry of sensors, the page's swap |
| `SensorRegistry`, `OneWireRefinement` | the registry as other connections see it, and the mapping to it |
| `Server` | the server thread, the process's descriptors, the clients |
| `Lifecycle` | lock file, signal, stop, the script that restarts |
| `DaemonProofs` | proofs about `Server` and `Lifecycle` |
| `CMeans` | hard clustering of steps and the periods of clusters |
| `Genetic` | the search for devices and what it saves |
| `ClusterProofs` | proofs about `CMeans` and `Genetic` |
| `Energy` | the pairing of steps, against the page that maps clusters |
| `StepProofs` | proofs about `EdgeDetect` and `Energy` |
| `Archive`, `ArchiveProofs` | the days of a range and the points printed of them |
| `MCPulseLog`, `MCDateString`, `MCOneWire` | instances for TLC |
| `MCMeter`, `MCDaemon`, `MCBatch` | instances of several modules: see below |

`MCMeter` (`PulseWindow`, `EdgeDetect`, `Interpolation`), `MCDaemon` (`Server`,
`Lifecycle`) and `MCBatch` (`CMeans`, `Genetic`, `Energy`, `Archive`) hold
modules that share no state. What one hands to the other is chosen freely by
the receiver (any live value, any clusters), which is more than the sender can
produce. So a behaviour of these runs is one of one part, chosen at the start,
and the others stand still; the invariants are those of all parts.

### PulseLog

| Code | Model |
|---|---|
| `main` 118-127, `IO::IO`, `read_db` | `StartMain` (samples `write_min`), `StartIO` (both counters = what `ReadBack` lets `read_db` make of today's rows: their sum, or less when a database error goes unnoticed; threads start) |
| `main` 129-161 | `Sample`, `ReadIo` (nondeterministically: every fifth second), `SameMinute`, `NewMinute` |
| `IO::minute` | `Minute`: one critical section |
| `IO::db_write` | `DbCreate`, `DbInsert`, `DbUpdate`, `DbEnd` or `DbEndFails`: one step per time the clock is asked for a table's name |
| `get_date_string` | `TableOf` |
| `IO::pulsing` | `Poll`; `Collect`, the count of `pulsecollect`; `DetectEdges`, the main meter's step on its way to nialm.db with `iolock` held; `StorePort`, the end of the work (line 405) |
| `servering` types 2, 22, 3 | `DumpBegin`, `DumpEnd` |
| `IO::stop`, kill, power loss | `Crash`: an open transaction is rolled back |
| clock, meters, settings page | `Tick`, `Flip`, `Configure` |

`db[day][d]` is the sum of a day's rows because `read_db` only ever sums them.
The history variables `edges`, `billed`, `lost`, `skipped`, `memDay`, `unread` do
not influence any step; the ledger relates them. `lost` grows in exactly the ways
the model loses pulses: an edge that falls while the io thread waits for `iolock`
or is at work on an earlier one (its port state is stored only after the work of
`edge_detect` in nialm.db), the open minute at a crash, a row not written.
`unread` is what the last start did not get of the day's rows: `read_db` goes on
after a failed open (525) or prepare (551), and its loop (560) ends on an error as
on the last row, so that `today` may start at 0 or at a part. Nothing is billed
wrongly by that, for a minute is what `today` has gained since the last
(`PulseLedger`), but the number shown of the day is too small until midnight
(`TodayFromTable`). With `Prompt = TRUE` the clock does not
enter a new minute until the daemon has handled the current one; with FALSE the
main thread may stall between any two steps. The set of meters is fixed:
`ReadIo` replaces the settings of a row; resizing is not modelled (section 6).

### DayLedger

An abstract daemon with one table per day: pulses are counted for the day,
posted minute by minute, and a restart resumes from what was posted.
`PulseLogRefinement` maps `PulseLog` to it, and `ImplementsLedger` is its
specification under that mapping.

### DateString

`tm` is libc's struct; `localtime` fills minute and hour first and the date
after, in two steps, under libc's own lock. Each read of a field by main or by
`get_date_string` is a step. Unlike `PulseLog`, a pass and a call see at most
one change of the minute: what is left is the race.

### PulseWindow

Times are relative. `elapsed` is `timerV[2] - timerV[1]`, `t4` and `t5` are
`timerV[4]` and `timerV[5]`. The branches of `pulsecollect` are the actions
`First`, `Restart` ("Delta 1"), `Count`, `Complete` and `Cut` ("Delta 2");
`Calculate` is `pulsecalculate`. The value is kept as a pair, pulses and time;
the quotient, the dither and its cast to int are left out.

### EdgeDetect

`LiveWrite` is one live value of the main meter: `live_write` puts it into `x`,
its median into `y`, and `edge_detect` scans the last samples of `y` for a
stable level, a change and a stable level. `Starts`, `Ends`, `Unmarked`, `Mark`
and `Row` are the branches of the scan. The household is `Stay` and `Step`.

`Write` is `nialm_db_write`, and `nialm` lists its calls with the result of each
INSERT: the rows of the table are the calls that were "ok". The code sets the marks
(946-948) before it calls (951), and the call ignores the errors of its CREATE (983)
and INSERT (1004), as the constructor does those of opening the file. So a step
whose INSERT meets a lock of 30 s is lost for good. `StepsOnce` does not
say that each step has its row: it says that each is handed over once, at the
first sample that shows it, whatever became of the ones before. The INSERTs of
one sample share their result; `EdgeInv` (section 4) shows that a sample has at
most one.

### Interpolation

One `Enter` per live value, one `Put` per second of the inner loop, so that the
ring is looked at in the middle of a fill; `Quotient` is C's division, which
truncates to zero.

### OneWire

| Code | Model |
|---|---|
| `runOnewire` up to `Init1WireLan` | `Search`: any set of sensors, since they come and go and a search may end early |
| `write_ow` | `Deactivate`, `RegisterOne` per sensor, `End`; each return from its middle is `DeactivateFails` or `RegisterFails`, an ignored error of END is `EndFails` |
| `read_ow`, `read_size`, `buildSensorList` | `Build`; `BuildCountFails` and `BuildSelectFails` when another connection's lock stops one of the two statements |
| loop of `runOnewire`, `read_device` | `Read`, `Skip`, `AllRead` |
| `OW::db_write` | `Logs(n)`: what it would take from row n at any moment; it changes nothing here |
| `OW::OW`, end of the daemon | `Restart` |
| `submitData`, `crossSwap` (SETTINGS.class.php) | `LogWanted`; `SwapBegins`, `SwapReads`, `SwapWrites`, a step per statement |

`config_db` is one connection for the daemon's life, so a transaction that an
early return leaves open is continued by the next round. `draft` is the table
as that connection sees it, `registry` as all others do, `mode` how far its
lock has come; SQLite may also roll back on its own (`Rollback`). `leaked` is
the SELECT that the return at `ow.c` 1449 does not finalise: its read lock
stays to the end of the daemon, and no page writes config.db any more. A
temperature is the sensor it was read from. Left out: the live table, resizing
without `owlock`, a SELECT of one sensor that fails while the daemon holds the
write lock (only the disk can do that), a page that unticks a box.

`SensorRegistry` says that the table changes by whole rounds: after a round
exactly the sensors it found are active. `OneWireRefinement` substitutes the
committed table and the search's result.

### Server

| Code (`io.c` 189-348, `socket_client.c` 116-384) | Model |
|---|---|
| `accept` | `Accept`: the first connection of the queue, at the lowest free descriptor |
| `fgets`, `sscanf` | `ReadLine`: a line, or the end of the connection, which leaves the buffer as it was; `ReadFails` where the descriptor is not a connection any more |
| type 3 under `iolock` | `Lock`, `PrintLine` per line, `Printed` |
| `fclose(sockin)`, `fclose(sockout)`, `close(s2)` | `Close`, three times |
| SQLite and files of the other threads | `OpenFile`, `CloseFile` |
| `openSocket`, `type1`, `type3` of the client | `Connect`, `Ask`, `Finish`, `AskAgain` (a ring whose length is no power of two is asked for once more) |
| the web server ends a CGI process | `Leave` |

A line of an answer is the request it answers and the moment of the data. Types
2 and 22 are type 3 with rows left out, and type 4 is type 1. `gap` and `stolen`
are history: a file was opened between two closes of one number, and a close hit
something else than the server's connection. After a `gap` the code promises
nothing, and neither do the properties: its window is the few microseconds
between the three closes, but what follows is another thread's database closed
under it. A write to a client that has gone is SIGPIPE, which nobody handles: it
ends the daemon (`alive`).

### Lifecycle

Time runs in half seconds: `StopTime` 8 is the 4 s of `io.stop` and `ow.stop`,
`RestartTime` 10 the `sleep 5` of the script. `Passes` is how long the pass of
the main loop still goes on into which the signal falls. `refused` remembers
who was turned away by a process that was already ending, `slow` a pass that
leaves no room in the pause.

### CMeans

Doubles are exact fractions; the standard deviation is cut to an integer as in
the code. A start is any draw of `C` steps (the last step is never drawn, as in
the code); a start that does not improve the Davies-Bouldin index is cleared and
drawn again. `Judge` is the end of a pass, `CalcPeriods` matches steps. The
branches of `c_means` for the second improvement are `Draw` (clear) and
`LastPass` (keep).

### Genetic

A row of the population is a choice of columns; its quality is a sum of
doubles over them and any row may be best, so qualities are free numbers. One
generation stands for the 20000 between two devices: children only change the
qualities of the next one. `Weakest` is the list `Cross` replaces, `Candidates`
what its loop of `rand()` accepts. `Nc` is kept apart from the list `viite`, as in
the code (798-799); `Partition` says that they shrink together. `SaveToDb` is a
`savetodb` whose statements all succeed (section 6).

### Energy

`calcEnergy` reads the tables `devices` and `clusters` in one statement each;
`AddDevice`, `Assign`, `DeleteDevice` and `Unmap` are the page's statements
between and before them. Each step has any cluster of its sign, or cluster 0,
which `bayes` returns when no probability is above 0. `Pair` and `NoPair` are
the body of the loop over rising steps.

### Archive

A row is the pair of its day and place; a point is the sequence of rows summed
in it. One action is one day of the range, with the month's points printed
where the month changes.

## 3. Runs

| Run | Checks | Bounds, and why they are enough |
|---|---|---|
| `pulselog_prompt` | `PulseLedger`, `TodayFromTable`, `DayCurrent`, `RowInDayOfItsMinute`, `ImplementsLedger` | Three days of 2 x 2 minutes: two midnights, one of them after a day that was started at its 00:00; two edges (one in each of two minutes, or two in one), one crash at any step, one dump; a start may read anything up to the day's sum. |
| `pulselog_passes` | `PassEnds` | `FairSpec`, one meter, the main one, whose work holds `iolock` (the others only count), two edges, a stall anywhere, two dumps, so that one may follow on another. |
| `pulselog_midnight_row` | violation of `RowInDayOfItsMinute` | Without `Prompt`. |
| `datestring_races` | `NameMixesTwoDays`, `RowsKeepComing`, `ArgsNearSample` | Two hours of six minutes, so that the slack of four minutes is less than an hour; two midnights, one of them the end of a month. |
| `datestring_main_time` | violation of `MainTimeItsOwn` | The same instance. |
| `meter` | window: `ValueExact`, `OneLoad`, `PositiveTime`, `ValueComes` | Three loads with any two further apart than any delta; one set clock, longer than a window or shorter than a period, in both directions; a calculation time of several periods and of none. |
| | curve: `StepsOnce`, `EpochNear` | A ring of 16 that comes round twice (36 samples), three steps, any of whose INSERTs may fail, loads of 100 W and more that last at least 6 samples, the majority of the 11-tap median: with 5 a step can vanish in the filter. |
| | seconds: `SecondsInOrder`, `OnLine` | A ring of four seconds with gaps of up to nine, repeated and backward epochs. |
| `onewire_rounds` | `ReadsItsRow`, `OneRowPerSensor`, `LoggedUnderItsId`, `WholeRounds` | One known and two new sensors, so that a row in front of another is skipped and two new rows can change places; any two calls fail, enough for a row to be read from a transaction that is then rolled back. |
| `onewire_swaps` | `WholeRounds` | Two known sensors, one swap of the two rows (the other way round is a renaming, a row with itself changes nothing), one failed call, one restart. |
| `onewire_swap_done` | violation of `SwapExchanges` | As `onewire_swaps`. |
| `batch` | c_means: `Converged`, `PeriodIsMean` | Two to five steps of three sizes, two of them near each other, both signs; two clusters, so that one may be empty; four iterations settle five steps; two gaps, so that periods are uneven. |
| | genetic: `Partition`, `CrossDraws`, `WorstReplaced`, `SavedWhole` | Three clusters and the two impossible ones, so that rows outnumber columns; qualities of three sizes, so that all, some or none are equal; two devices. |
| | calcEnergy: `NestedPairs`, `CountedOnce`, `InRange` | Five steps, the fewest in which two pairs of one device can cross with a step to spare; periods that reach the next step and the next three; one request of the page at any moment, among them a fourth device. |
| | archive: `DaysInOrder`, `RowsKept`, `OnePeriod` | Years of three months with 2, 1 (2 in a leap year) and 2 days, three years around a leap year, ranges of up to six days, tables with no, one and two rows, points of two rows, of a day and of a month. |
| `unknown_device` | violation of `UnknownAddsNothing` | The least instance: the unmapped clusters of `batch`. |
| `daemon` | server: `OwnDescriptors`, `AnswerIsWhole`, `EndedByLeaver`, `Served` | Two clients of any kind, one of which may be ended; a ring of four lines, so that a broken answer may have a length (1 or 2) that the client takes for a whole one; three descriptors: a connection, a file and one to spare; two files opened one after the other. |
| | process: `OneDaemon`, `Restarted` | Two shells, three commands and three processes: a restart with another start or restart across it; passes within, at the edge of and beyond the second a restart leaves. |

The disagreements the violation runs show, each with the line it quotes, are in
`PROJECT.json` under "findings":

- the row of 23:59-00:00 may land in the new day's table although
  `get_date_string` takes care "so that the pulse value goes to the right day";
- "THREAD SAFETY" in `get_date_string`: the local pointer does not give it a
  struct of its own, and main's minute and hour are replaced under it (what the
  race does to a name, `NameMixesTwoDays` bounds);
- a swap of two sensors is reported done although a write met the daemon's
  transaction and was lost, which leaves one sensor's code in two rows;
- "an unknown device - do nothing": a step whose cluster has no device is paired
  all the same, and its energy is added to `devices[-1]`.

Limits that are not findings: without `Prompt` the daily reset is skipped when
the main thread sleeps through 00:00, so `DayCurrent` is claimed of a prompt
daemon only. With the clock set twice within two adjacent pulses, `PositiveTime`
fails: a set clock is rare and a pulse period short. It fails too with a
`deviceDelta` above 100 percent, which the settings page takes (three digits, 25
at first): a clock set back by less than the surplus makes a period that is
negative and still near enough to the one before to be summed. A restart does not always leave a daemon running: one whose pass
waits longer than a second for a lock outlives the pause, and the new process is
refused; `Restarted` says that this is the only way. The last month of a range
that is printed by months is held back and never printed, which `RowsKept`
allows for.

### Fairness

`FairSpec` of `PulseLog` has weak fairness of the main loop, of the io thread
and of the end of a ring dump. The first two are threads the kernel schedules
and that never wait for anything but `iolock` and SQLite, whose waits end after
30 s. `DumpEnd` says that a client reads what it asked for; a client that does
not stops the daemon, as the code stands. Nothing is assumed of the clock, the
meters or the settings page. Weak fairness is enough for main to get `iolock`
because dumps are bounded: an unbounded stream of clients would need strong
fairness, which a pthread mutex does not promise.

`SvFairness` of `Server` has weak fairness of the server thread (scheduled round
robin; it waits for a client's line or for the io thread, which gives the lock
back), of the close of a file that was opened, and of each client's request and
end: `socket_client` writes its request right after it has connected and reads
to the end, unless it is ended, which `Leave` does at any moment. Nothing is
assumed of arrivals, of the io thread's stores or of files being opened.

## 4. Proofs

All of these hold for every value of the constants.

`PulseLogProofs`:

- `TypeCorrect`, `LedgerCorrect`: `TypeOK` and `PulseLedger` for any stalls,
  crashes and failures. `PulseLedger` is inductive with `TypeOK` alone.
- `TodayCorrect`, `DayCorrect`, `RowCorrect`, under `ASSUME Prompt`. None of
  the three is inductive. The invariant is `PromptInv`: the type, the clock's
  distance from the last sample at each step of the pass (`ClockFollows`), the
  day the counters stand for (`DayFollows`), what is in the open transaction and
  which table it is for (`TxnFollows`), that no table holds anything of a day to
  come (`NothingFromTheFuture`: what makes the reset at 00:00 agree with an
  empty table) and `TodayFromTable` itself.

- `LedgerRefinement`: every prompt behaviour of `PulseLog` is one of
  `DayLedger`. Each action is a step of the ledger or a stutter; `PromptInv`
  supplies what the mapping needs.

`DateStringProofs`, for any calendar and clock: `NamesOfTwoDays` and
`ArgsStayNear` from `RaceInv`, which says at each step of the two threads how
far the shared struct (`TimeNear`, `DateNear`), the fields a thread has copied
from it (`NameNear`, `ArgsNear`) and the clock (`Spans`) may be from the minute
of its call; `RowsComing` from `RowInv`: `write_min` is the minute of the last
row or of one next to it, so that the test misses two changes of the minute and
never a third. With an hour of fewer than six minutes the test could take a
later minute for that of the last row.

`MeterProofs`, the window of periods:

- `ValuesExact` and `ValuesOfOneLoad` from `WindowInv`: the timers stand for
  true time as long as nothing disturbed the window (`Timer`, `Undisturbed`).
- `TimesPositive` from `ClockInv`: a period is negative only after the clock was
  set, so the one before it was a true one, and no period of zero or less is
  within 100 percent of a positive one (`CountedPositive`).
- `SteadyValues` from `SteadyInv`: a load restarts the window at most twice,
  and from then on every pulse is counted. The loads must differ by more than
  every delta: of loads that do not a window may hold two, and e is that of
  the first.

`MeterProofs`, the curve: `RingInOrder` from `RingInv`, which says in addition
what the ring holds in the middle of a fill (`Loop`) and before the first
(`Empty`); `CurveOnLine` from `OnCurve`: the second put last is on the line, and
C's division keeps it between the ends and puts the last one on the newer value.

`OneWireProofs`: `TypeCorrect` and `SensorsReadTheirRows`, with swaps, failures
and restarts unbounded. `ReadsItsRow` is not inductive: the invariant adds that
ids are dense (`Store`, `Vector`) and that, while the sensors are read, the
place of each active row's code in the list is the number of active rows before
it (`ListFits`); the lemmas on `Ordinal` count them. For a page
that swaps nothing (with `MaxSwaps > 0` both are false): `OneRowForever`, and
`LoggedForever`, whose invariant `LogInv` relates three views of a row, the
registry's, the open transaction's (`Draft`: it changes no sensor, and logs no
row that it added) and owVect's (`RowOf`: a value is of the sensor the
transaction has in that row, also across a rollback). `WholeRoundsForever`, with
swaps: every step is a step of `SensorRegistry` or leaves it alone. `RoundInv`
says what an open transaction may change of the registry (`Transaction`) and
that `write_ow` has written the part of the round it has come to (`Written`).

`ClusterProofs`, c_means and calcPeriods, for any steps and number of clusters:

- `ClustersOfMembers` (`MembersCounted`, a part of `Converged`) from `PassInv`:
  the last pass begins with counts of 0, each iteration leaves the means of the
  members, and the end of the pass adds the members to the counts.
- `PeriodsAreMeans`: the matching, a loop over used marks, gives each step the
  next one of its cluster (`MatchesAre`); a cluster has one match less than
  steps (`PairsCount`); the sum over the set of matches does not depend on the
  order the elements are taken in (`SumsAny`) and telescopes (`GapsAdd`).

`ClusterProofs`, the search, for any number of clusters: `SearchPartitions` (each
is in one device or waits for one, and there are as many columns as wait), `CrossCanDraw` (the loop of draws in `Cross`
always has two rows to end with) and `SearchIsSaved` (the table has each cluster
under the device that has it). The invariant adds that the rows to be replaced
are no more than half of the columns, which shrink while the population does not.
`ReplacesWeakest`: the k-th turn of `Cross` takes a row of the k-th largest
quality (`TurnTakes`), so the rows are those of the weakest; qualities are
positive and below `PreviousVal`, which the code starts from.

`ArchiveProofs`, for any calendar and tables: `EveryDayOnce`, from what each of
the nested loops of `genDateArr` lists (`MonthDays`, `YearDays`, `AllDays`);
`AllRowsKept` from `ReadInv`, the rows behind and the rows in hand;
`PointsOfOnePeriod` from `PeriodInv`, what `month_vector` holds and which month
it is of. The lemmas say what `FlattenSeq` yields (its members, their order and
how it splits). Of the calendar they assume only that a leap year's February has
one day more than another and that the years are without a gap.

`StepProofs`, the detector, for any ring, window and filter that fit together
(`FilterAssumption`) and any household whose loads outlast half the filter and
differ by more than the threshold (`StepAssumption`): `StepsFound` and
`EpochsNear` from `EdgeInv`. `StepsOnce` says too little to be inductive; the
invariant says what every slot of the two rings holds. In `x` it is the load of
its sample (`Curve`). In `y` it is the load of half a filter before (`Smooth`):
a load that lasts longer than that has more than half of the filter when it is
in its middle (`Majority`), and what more than half of a window is, is its
median (`MedianOfMost`). Marked in `y` are the samples from before the first
load and the two in front of each stored step, so the window's nearest position
is the only one that finds a step unmarked (`ScanQuiet`, `ScanFinds`), and a
slot that comes round has lost its mark. `Stored` are the steps that have passed
that position: they were written in this order, each with any result. The scans are a recursive function of the positions, which is
shown to exist (`ScansExist`).

`StepProofs`, the pairs, for any clusters, times, steps and requests: `PairsNested` and
`StepsCountedOnce` from `PairInv`, whose part `Filled` says that a pair leaves
no unused step of its device between its ends; `EnergyInRange` from `TableInv`,
which says what the mapping may name while the page is between its two
statements.

`DaemonProofs`, for any number of clients, descriptors, files, processes and
shells: `DescriptorsOwned` adds what the server's number is between its closes
(`FreeBetween`); `DaemonEndedByLeaver` adds that a connection has one place, in
the table or in the queue (`OnePlace`), and does not end while it has it
(`Lasts`), so that a client that is through is not one the server writes to;
`AnswersWhole` adds to both the account of lines: what is still to print, with
what the client has, is its answer (`PartOf`), of the moment the io thread
cannot leave while the ring is printed, and whole from the last line to the end
of the connection (`Full`);
`OneDaemonEver` adds that a process between its lock and its end is the holder;
`RestartsSucceed` adds what a shell knows of the daemon it has signalled
(`RestartInv`), so that only a slow last pass can refuse its launch.

What a recursive function computes cannot be had from an induction theorem,
which takes an operator as a parameter. The proofs take the least argument for
which the claim would fail instead (`LeastNat`), and derive from the function's
definition that it holds there; the same shows that the function exists.

Assumptions on constants are the named ASSUMEs of the modules, which the runs
evaluate. Most only give types; `StepAssumption` is a condition on the
household: a load shorter than half the filter vanishes in it, one that differs
by less than the threshold is meant to be passed over, and one of 0 W keeps old
marks. Some theorems need more, and say so in an ASSUME of their own:

- `Prompt` in four theorems of `PulseLogProofs` (above);
- `MaxSwaps = 0` in `OneRowForever` and `LoggedForever`;
- an hour of at least six minutes in `RowsComing`;
- a clock that is set at most once and deltas of at most 100 percent in
  `TimesPositive` and `SteadyValues`, and loads further apart than every delta
  in the latter. The run checks both properties under the same conditions.

Only model-checked:

- liveness (`PassEnds`, `Served`), which is out of this prover's reach;
- that the last pass of c_means ends in a fixed point (`FixedPoint`, the other
  part of `Converged`): it does if the iterations are enough for the data, which
  the program's 100 are not for all data.

## 5. Where it can grow

- The order of `stop()` and `ioVect.resize`, once the code defines what a reader
  then sees.
- `EdgeDetect` with loads of 0 W, where a slot's old mark survives the sample.

## 6. Not modelled

Of the 135,284 lines of C in the repository 116,000 are SQLite 3.6.19, 973 of
`ow.c` (from line 1651) are commented out, and `userial` is the bus driver of
Dallas/Maxim. The program's own code is some 8,000 lines, and what follows of
them has no state that a model could check:

- floating-point computation: the FFT and the Hann window of `socket_client.c`,
  fuzzy c-means, EM, `quality` and `Mutate` of `cluster.c`, the probabilities of
  `bayes`, the means and deviations of `get_statistics.c`, `read_factor`, the
  base power. Where their results steer a module they are free choices;
- output: headers, tables, graphs and pages, the matrices `cluster.c` prints;
- straight-line scripts at boot and from cron.

What has state and is left out, each with its reason:

- `ioVect.resize` and the reload between COUNT and SELECT, and the order of
  `stop()`: threads that read freed memory, undefined in C++;
- a pid file that keeps digits of a longer pid; `accept` that returns -1, which
  ends the server thread;
- the live table of the sensors, a copy of the active rows; how old a logged
  temperature may be, which no text bounds;
- errors of the statements of `savetodb` (`cluster.c` 1617-1747), which ignores
  those of the open, BEGIN, DROP, CREATE, INSERT and END. `SavedWhole` is about a
  save whose statements succeed; one whose DROP fails writes its rows behind the
  old ones, and one that misses an INSERT leaves a cluster out;
- a start whose `read_io` or COUNT fails: `IO::IO` goes on with no meters, and the
  next `read_io` makes ones that start at 0 without `read_db` (the components list
  has it with `ioVect.resize`);
- whether `c_means` ever finds two improvements: with one cluster it may not;
- `/disk/users.txt` and the forms that only write a row of config.db.
