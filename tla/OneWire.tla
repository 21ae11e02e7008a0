------------------------------ MODULE OneWire -------------------------------
(***************************************************************************)
(* The 1-Wire thread of the daemon (OW::runOnewire) and the registry of    *)
(* sensors, table OW_DATA of config.db.                                    *)
(*                                                                         *)
(* A round opens the bus, searches it, writes what it found to the         *)
(* registry in one transaction on a connection that lives as long as the   *)
(* daemon (write_ow), reads the registry back (read_ow), makes the list of *)
(* ROM codes to read (buildSensorList) and reads one sensor per active     *)
(* row. The main thread logs a row's value at any time; the settings page  *)
(* swaps two rows' sensors (crossSwap).                                    *)
(*                                                                         *)
(* A temperature is the sensor it was read from: the properties are about  *)
(* whose value is logged under which id. Names, types and limits are left   *)
(* out.                                                                    *)
(***************************************************************************)
EXTENDS Integers, FiniteSets

CONSTANTS
  Sensors,      \* the ROM codes (deviceHex) of sensors
  Known,        \* those the initial table holds, row by row: [0 .. n-1 -> Sensors]
  MaxFailures,  \* bound: calls of SQLite that fail
  MaxRestarts,  \* bound: restarts of the daemon
  MaxSwaps,     \* bound: swaps the settings page makes
  Swappable,    \* bound: the pairs of rows it swaps
  None,         \* no sensor: an empty deviceHex, a value of 0.0
  Bad           \* 85.0, the value of a sensor that was not read

\* rows 0, 1, 2, ...
Dense(S) == IsFiniteSet(S) /\ S = 0 .. Cardinality(S) - 1

ASSUME RegistryAssumption ==
  /\ Dense(DOMAIN Known) /\ DOMAIN Known # {}
  /\ Known \in [DOMAIN Known -> Sensors]
  /\ \A a, b \in DOMAIN Known : Known[a] = Known[b] => a = b

ASSUME BoundsAssumption ==
  /\ MaxFailures \in Nat /\ MaxRestarts \in Nat /\ MaxSwaps \in Nat

ASSUME ValuesAssumption == None \notin Sensors /\ Bad \notin Sensors /\ None # Bad

VARIABLES
  registry,   \* OW_DATA as every other connection sees it
  (* the daemon's connection to config.db *)
  mode,       \* how far the transaction it has open has come
  draft,      \* OW_DATA as the daemon's connection sees it
  leaked,     \* a SELECT was left unfinished: its read lock stays
  (* the 1-Wire thread *)
  pc,
  found,      \* sensor_vector: what the search found
  todo,       \* those of found that write_ow has still to write
  owVect,
  list,       \* sensor_list, the ROM codes to read, in order
  row,        \* the row of owVect the round has come to
  sensor,     \* the place in the list it has come to
  (* the settings page *)
  swap,
  (* how much of each bound is used up *)
  failures, restarts, swaps

connection == <<mode, draft, leaked>>
search == <<found, todo>>
scan == <<owVect, list, row, sensor>>
page == <<swap, swaps>>
counts == <<failures, restarts>>
vars == <<registry, connection, pc, search, scan, page, counts>>

-----------------------------------------------------------------------------
(* OW_DATA: a function from ids to rows                                    *)

Row == [hex : Sensors \union {None}, active : BOOLEAN, log : BOOLEAN]

\* SELECT deviceId ... WHERE deviceHex = h gives the first by id
Holder(t, h) ==
  CHOOSE id \in DOMAIN t : t[id].hex = h /\ \A o \in DOMAIN t : t[o].hex = h => id <= o

Holds(t, h) == \E id \in DOMAIN t : t[id].hex = h

\* INTEGER PRIMARY KEY: a new row has the largest id and one
NextId(t) == 1 + CHOOSE m \in DOMAIN t : \A id \in DOMAIN t : id <= m

AllInactive(t) == [id \in DOMAIN t |-> [t[id] EXCEPT !.active = FALSE]]

Insert(t, h) ==
  [id \in DOMAIN t \union {NextId(t)} |->
     IF id = NextId(t) THEN [hex |-> h, active |-> TRUE, log |-> FALSE] ELSE t[id]]

\* an old sensor is made active, a new one gets a row that is not logged
Register(t, h) ==
  IF Holds(t, h) THEN [t EXCEPT ![Holder(t, h)].active = TRUE] ELSE Insert(t, h)

\* the id of the n-th row that SELECT gives
NthId(t, n) ==
  CHOOSE id \in DOMAIN t : Cardinality({o \in DOMAIN t : o < id}) = n

-----------------------------------------------------------------------------
(* The daemon's transaction. "begun": BEGIN and no lock yet; "shared": it  *)
(* has read; "reserved": it has written; "pending": its END met a reader.  *)

Unlocked == mode \in {"closed", "begun"} /\ ~leaked

Rollback == mode' = "closed" /\ draft' = registry

NoRow == [hex |-> None, active |-> FALSE, log |-> FALSE]

NoSwap == [step |-> "none", a |-> 0, b |-> 0, rowA |-> NoRow, rowB |-> NoRow]

NewRow == [id |-> 0, hex |-> None, active |-> FALSE, log |-> FALSE, value |-> None, valid |-> FALSE]

\* row n of owVect after read_ow has copied row n of t: the value stays
Copied(t, n) ==
  LET id == NthId(t, n)
      old == IF n \in DOMAIN owVect THEN owVect[n] ELSE NewRow
  IN  [id |-> id, hex |-> t[id].hex, active |-> t[id].active, log |-> t[id].log,
       value |-> old.value, valid |-> old.valid]

Copy(t) == [n \in 0 .. Cardinality(DOMAIN t) - 1 |-> Copied(t, n)]

Fresh(t) ==
  [n \in 0 .. Cardinality(DOMAIN t) - 1 |->
     LET id == NthId(t, n)
     IN  [NewRow EXCEPT !.id = id, !.hex = t[id].hex, !.active = t[id].active,
                        !.log = t[id].log]]

Empty == [n \in {} |-> NewRow]

NoList == [k \in {} |-> None]

Init ==
  /\ registry = [id \in DOMAIN Known |-> [hex |-> Known[id], active |-> TRUE, log |-> TRUE]]
  /\ mode = "closed" /\ draft = registry /\ leaked = FALSE
  /\ pc = "open" /\ found = {} /\ todo = {}
  /\ owVect = Fresh(registry) /\ list = NoList /\ row = 0 /\ sensor = 0
  /\ swap = NoSwap /\ swaps = 0
  /\ failures = 0 /\ restarts = 0

Fails == failures < MaxFailures /\ failures' = failures + 1

Works == UNCHANGED failures

-----------------------------------------------------------------------------
(* The bus                                                                 *)

\* Sensors come and go, and a search that meets an error finds some of them
\* (Init1WireLan). A round that cannot open the bus ends without any of this.
Search ==
  /\ pc = "open"
  /\ found' \in SUBSET Sensors
  /\ todo' = found'
  /\ pc' = "deactivate"
  /\ UNCHANGED <<registry, connection, scan, page, counts>>

-----------------------------------------------------------------------------
(* write_ow. With its lock held a SELECT of one sensor's row can only fail *)
(* with the disk itself, which is left out.                                *)

\* (mutant of Deactivate) rows of sensors that are gone stay active
DeactivateNone ==
  /\ pc = "deactivate" /\ Works
  /\ draft' = draft
  /\ mode' = IF mode = "pending" THEN mode ELSE "reserved"
  /\ pc' = "register"
  /\ UNCHANGED <<registry, leaked, search, scan, page, restarts>>

\* BEGIN, which fails unnoticed when the last round left its transaction
\* open, and UPDATE ow_data SET deviceActive=0
Deactivate ==
  /\ pc = "deactivate" /\ Works
  /\ draft' = AllInactive(draft)
  /\ mode' = IF mode = "pending" THEN mode ELSE "reserved"
  /\ pc' = "register"
  /\ UNCHANGED <<registry, leaked, search, scan, page, restarts>>

\* The UPDATE fails and write_ow returns: another connection's lock leaves
\* the transaction as it is, a worse error has it rolled back.
DeactivateFails ==
  /\ pc = "deactivate" /\ Fails
  /\ \/ /\ mode \in {"closed", "begun", "shared"}
        /\ mode' = IF mode = "closed" THEN "begun" ELSE mode
        /\ UNCHANGED draft
     \/ Rollback
  /\ pc' = "build"
  /\ UNCHANGED <<registry, leaked, search, scan, page, restarts>>

\* (mutant of RegisterOne) every sensor is taken for a new one
RegisterAsNew(h) ==
  /\ pc = "register" /\ h \in todo /\ Works
  /\ draft' = Insert(draft, h)
  /\ todo' = todo \ {h}
  /\ UNCHANGED <<registry, mode, leaked, pc, found, scan, page, restarts>>

RegisterOne(h) ==
  /\ pc = "register" /\ h \in todo /\ Works
  /\ draft' = Register(draft, h)
  /\ todo' = todo \ {h}
  /\ UNCHANGED <<registry, mode, leaked, pc, found, scan, page, restarts>>

\* (mutant of RegisterFails) the error path ends the transaction
RegisterFailsAndEnds(h) ==
  /\ pc = "register" /\ h \in todo /\ Fails
  /\ registry' = draft /\ mode' = "closed"
  /\ leaked' = (leaked \/ Holds(draft, h))
  /\ pc' = "build"
  /\ UNCHANGED <<draft, search, scan, page, restarts>>

\* UPDATE or INSERT fails and write_ow returns without END; SQLite undoes
\* the statement or the whole transaction. The SELECT that found the row is
\* not finalised.
RegisterFails(h) ==
  /\ pc = "register" /\ h \in todo /\ Fails
  /\ UNCHANGED <<mode, draft>> \/ Rollback
  /\ leaked' = (leaked \/ Holds(draft, h))
  /\ pc' = "build"
  /\ UNCHANGED <<registry, search, scan, page, restarts>>

End ==
  /\ pc = "register" /\ todo = {} /\ Works
  /\ registry' = draft /\ mode' = "closed"
  /\ pc' = "build"
  /\ UNCHANGED <<draft, leaked, search, scan, page, restarts>>

\* END meets a reader for 30 s; its error is ignored and the transaction
\* stays open.
EndFails ==
  /\ pc = "register" /\ todo = {} /\ Fails
  /\ mode' = "pending"
  /\ pc' = "build"
  /\ UNCHANGED <<registry, draft, leaked, search, scan, page, restarts>>

-----------------------------------------------------------------------------
(* buildSensorList                                                         *)

\* how many rows of v before n are active
Ordinal(v, n) == Cardinality({m \in DOMAIN v : m < n /\ v[m].active})

\* the row that comes k-th among the active ones
Active(v, k) == CHOOSE n \in DOMAIN v : v[n].active /\ Ordinal(v, n) = k

\* (mutant of ListOf) the rows of sensors that are gone are listed too
ListOfAll(v) == [k \in DOMAIN v |-> v[v[k].id].hex]

\* The codes of the active rows, in order. sensor_ids holds ids, and they
\* are used as indices of owVect.
ListOf(v) ==
  [k \in 0 .. Cardinality({n \in DOMAIN v : v[n].active}) - 1 |-> v[v[Active(v, k)].id].hex]

BeginReading(v) ==
  /\ owVect' = v
  /\ list' = ListOf(v)
  /\ row' = 0 /\ sensor' = 0
  /\ found' = {} /\ todo' = {}
  /\ pc' = "read"
  /\ UNCHANGED <<registry, draft, leaked, page, restarts>>

\* read_ow copies row by row under owlock, of which main looks at one
Build ==
  /\ pc = "build" /\ Works
  /\ mode' = IF mode = "begun" THEN "shared" ELSE mode
  /\ BeginReading(Copy(draft))

\* COUNT meets a lock: its 0 makes owVect empty, whatever SELECT gives after
BuildCountFails ==
  /\ pc = "build" /\ Fails /\ Unlocked
  /\ UNCHANGED mode
  /\ BeginReading(Empty)

\* COUNT gives a number and SELECT meets a lock: new rows are not filled in
BuildSelectFails ==
  /\ pc = "build" /\ Fails /\ Unlocked
  /\ UNCHANGED mode
  /\ BeginReading([n \in 0 .. Cardinality(DOMAIN registry) - 1 |->
                     IF n \in DOMAIN owVect THEN owVect[n] ELSE NewRow])

-----------------------------------------------------------------------------
(* The sensors are read                                                    *)

\* read_device and the store under owlock
Read(value) ==
  /\ pc = "read" /\ row \in DOMAIN owVect /\ owVect[row].active
  /\ value \in {Bad, list[sensor]}
  /\ owVect' = [owVect EXCEPT ![row].value = value, ![row].valid = (value # Bad)]
  /\ row' = row + 1 /\ sensor' = sensor + 1
  /\ UNCHANGED <<registry, connection, pc, search, list, page, counts>>

Skip ==
  /\ pc = "read" /\ row \in DOMAIN owVect /\ ~owVect[row].active
  /\ row' = row + 1
  /\ UNCHANGED <<registry, connection, pc, search, owVect, list, sensor,
                 page, counts>>

\* The round ends; live_db_write copies the active rows to the live table.
AllRead ==
  /\ pc = "read" /\ row \notin DOMAIN owVect
  /\ list' = NoList /\ row' = 0 /\ sensor' = 0
  /\ pc' = "open"
  /\ UNCHANGED <<registry, connection, search, owVect, page, counts>>

\* The daemon ends and starts: SQLite rolls back, OW::OW reads the registry.
Restart ==
  /\ restarts < MaxRestarts
  /\ restarts' = restarts + 1
  /\ Rollback /\ leaked' = FALSE
  /\ pc' = "open" /\ found' = {} /\ todo' = {}
  /\ owVect' = Fresh(registry) /\ list' = NoList /\ row' = 0 /\ sensor' = 0
  /\ UNCHANGED <<registry, page, failures>>

-----------------------------------------------------------------------------
(* The settings page: submitData sets deviceLog, crossSwap reads two rows  *)
(* and writes both, each a statement of its own                            *)

SwapBegins(a, b) ==
  /\ a \in DOMAIN registry /\ b \in DOMAIN registry
  /\ swap.step \in {"none", "done"} /\ swaps < MaxSwaps
  /\ swaps' = swaps + 1
  /\ swap' = [step |-> "readA", a |-> a, b |-> b, rowA |-> NoRow, rowB |-> NoRow]
  /\ UNCHANGED <<registry, connection, pc, search, scan, counts>>

\* A pending END keeps readers out: then the page reads nothing, and goes on.
PageReads(id) == IF mode = "pending" THEN NoRow ELSE registry[id]

SwapReads ==
  /\ \/ swap.step = "readA"
        /\ swap' = [swap EXCEPT !.step = "readB", !.rowA = PageReads(swap.a)]
     \/ swap.step = "readB"
        /\ swap' = [swap EXCEPT !.step = "writeA", !.rowB = PageReads(swap.b)]
  /\ UNCHANGED <<registry, connection, pc, search, scan, swaps, counts>>

\* The page waits for the daemon's lock for a while; its error is ignored.
PageWrites(id, r) ==
  IF Unlocked
    THEN registry' = [registry EXCEPT ![id] = r] /\ draft' = registry'
    ELSE UNCHANGED <<registry, draft>>

\* submitData; a box that is ticked stays so in the runs
LogWanted(id) ==
  /\ Unlocked /\ ~registry[id].log
  /\ PageWrites(id, [registry[id] EXCEPT !.log = TRUE])
  /\ UNCHANGED <<mode, leaked, pc, search, scan, page, counts>>

SwapWrites ==
  /\ \/ /\ swap.step = "writeA"
        /\ PageWrites(swap.a, swap.rowB)
        /\ swap' = [swap EXCEPT !.step = "writeB"]
     \/ /\ swap.step = "writeB"
        /\ PageWrites(swap.b, swap.rowA)
        /\ swap' = [swap EXCEPT !.step = "done"]
  /\ UNCHANGED <<mode, leaked, pc, search, scan, swaps, counts>>

-----------------------------------------------------------------------------
(* main's db_write changes nothing here: at any moment it may take row n,   *)
(* copied under owlock, and put its value under its id in the day's table. *)

\* (mutant of Logs) db_write does not look at deviceLog
LogsUnwanted(n) == owVect[n].active /\ owVect[n].valid

Logs(n) == owVect[n].active /\ owVect[n].log /\ owVect[n].valid

-----------------------------------------------------------------------------
Thread ==
  \/ Search
  \/ Deactivate \/ DeactivateFails
  \/ \E h \in todo : RegisterOne(h) \/ RegisterFails(h)
  \/ End \/ EndFails
  \/ Build \/ BuildCountFails \/ BuildSelectFails
  \/ (\E value \in Sensors \union {None, Bad} : Read(value)) \/ Skip \/ AllRead

Page ==
  \/ \E pair \in Swappable : SwapBegins(pair[1], pair[2])
  \/ SwapReads \/ SwapWrites
  \/ \E id \in DOMAIN registry : LogWanted(id)

Next ==
  \/ Thread
  \/ Restart
  \/ Page

Spec == Init /\ [][Next]_vars

-----------------------------------------------------------------------------
(* Properties                                                              *)

Table(t) == Dense(DOMAIN t) /\ DOMAIN t # {} /\ t \in [DOMAIN t -> Row]

Value == Sensors \union {None, Bad}

\* The shape of the state. Ids are dense and in order, so that row n of
\* owVect has id n if it is active, and a list has a code per active row.
TypeOK ==
  /\ Table(registry) /\ Table(draft)
  /\ mode \in {"closed", "begun", "shared", "reserved", "pending"}
  /\ leaked \in BOOLEAN
  /\ pc \in {"open", "deactivate", "register", "build", "read"}
  /\ found \in SUBSET Sensors /\ todo \in SUBSET found
  /\ Dense(DOMAIN owVect)
  /\ owVect \in [DOMAIN owVect -> [id : Nat, hex : Sensors \union {None}, log : BOOLEAN,
                    active : BOOLEAN, value : Value, valid : BOOLEAN]]
  /\ \A n \in DOMAIN owVect : owVect[n].active => owVect[n].id = n
  /\ swap \in [step : {"none", "readA", "readB", "writeA", "writeB", "done"},
               a : Nat, b : Nat, rowA : Row, rowB : Row]
  /\ pc = "read" => row \in 0 .. Cardinality(DOMAIN owVect)
  /\ pc = "read" => sensor \in 0 .. Cardinality(DOMAIN list)

\* "The active sensors are now in the same order in sensor_list and in the
\* object": after its turn in a round, and until the next round reads the
\* registry, a row's valid value is of the sensor whose code the row has.
\* Failed calls, rows added, removed sensors and swaps do not shift the list.
ReadsItsRow ==
  \A n \in DOMAIN owVect :
    owVect[n].active /\ owVect[n].valid /\ ~(pc = "read" /\ row <= n)
      => owVect[n].value = owVect[n].hex

\* write_ow looks a sensor up before it inserts it, whatever an earlier round
\* left in the open transaction: no sensor gets a second row.
OneRowPerSensor ==
  \A t \in {registry, draft} : \A a, b \in DOMAIN t :
    t[a].hex = t[b].hex => a = b

\* Without swaps, what the day table gets under an id, at whatever moment, is
\* of the sensor the registry has under that id: the daemon reads rows of its
\* own unfinished transaction, but never logs under an id that may be taken
\* back and given to another sensor, since a new row is not logged until a
\* page has seen it.
LoggedUnderItsId ==
  \A n \in DOMAIN owVect : Logs(n) =>
    /\ owVect[n].id \in DOMAIN registry
    /\ owVect[n].value = registry[owVect[n].id].hex

\* "B's values are put into A", "A's values are put into B", "Cross-Swap
\* done": then each row has the code the other had.
SwapExchanges ==
  swap.step = "done" =>
    /\ registry[swap.a].hex = swap.rowB.hex
    /\ registry[swap.b].hex = swap.rowA.hex

=============================================================================
