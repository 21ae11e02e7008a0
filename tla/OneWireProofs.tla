--------------------------- MODULE OneWireProofs ---------------------------
(***************************************************************************)
(* Every row of owVect gets the value of its own sensor, for any sensors,  *)
(* failed calls, restarts and swaps: ids are dense and in order, so the     *)
(* id of an active row is its place, and the place of its code in the list *)
(* is the number of active rows before it. Without swaps no sensor gets a  *)
(* second row, and what is logged under an id is of that id's sensor.      *)
(***************************************************************************)
EXTENDS OneWireRefinement, FiniteSetTheorems, WellFoundedInduction, TLAPS

ActiveRows(v) == {n \in DOMAIN v : v[n].active}

VecRow == [id : Nat, hex : Sensors \union {None}, active : BOOLEAN, log : BOOLEAN,
           value : Value, valid : BOOLEAN]

\* owVect as the thread leaves it
Vector(v) ==
  /\ Dense(DOMAIN v)
  /\ v \in [DOMAIN v -> VecRow]
  /\ \A n \in DOMAIN v : v[n].active => v[n].id = n

\* While the sensors are read, the list has the code of each active row at
\* the place that the count of active rows gives.
ListFits ==
  pc = "read" =>
    /\ DOMAIN list = 0 .. Cardinality(ActiveRows(owVect)) - 1
    /\ \A n \in ActiveRows(owVect) : list[Ordinal(owVect, n)] = owVect[n].hex
    /\ sensor = Ordinal(owVect, row)

\* The table as everybody sees it. An open transaction only adds rows, so that
\* the rows a swap is about stay.
Store ==
  /\ Table(registry) /\ Table(draft) /\ DOMAIN registry \subseteq DOMAIN draft
  /\ mode \in {"closed", "begun", "shared", "reserved", "pending"}
  /\ leaked \in BOOLEAN
  /\ swap \in [step : {"none", "readA", "readB", "writeA", "writeB", "done"},
               a : Nat, b : Nat, rowA : Row, rowB : Row]
  /\ swap.step # "none" => swap.a \in DOMAIN registry /\ swap.b \in DOMAIN registry

Turn ==
  /\ pc \in {"open", "deactivate", "register", "build", "read"}
  /\ found \in SUBSET Sensors /\ todo \in SUBSET found

Scan ==
  /\ Vector(owVect)
  /\ pc = "read" => row \in 0 .. Cardinality(DOMAIN owVect)
  /\ ListFits
  /\ ReadsItsRow

ReadInv == Store /\ Turn /\ Scan

OneRow(t) == \A a, b \in DOMAIN t : t[a].hex = t[b].hex => a = b

RowInv == swap = NoSwap /\ OneRow(registry) /\ OneRow(draft)

-----------------------------------------------------------------------------
(* Dense sets of numbers                                                   *)

LEMMA Interval ==
  ASSUME NEW n \in Nat
  PROVE  /\ Dense(0 .. n - 1) /\ IsFiniteSet(0 .. n - 1)
         /\ Cardinality(0 .. n - 1) = n
  <1>1. IsFiniteSet(0 .. n - 1) /\ Cardinality(0 .. n - 1) = IF 0 > n - 1 THEN 0 ELSE n - 1 - 0 + 1
    BY FS_Interval
  <1>2. Cardinality(0 .. n - 1) = n
    BY <1>1
  <1> QED BY <1>1, <1>2 DEF Dense

LEMMA DenseSet ==
  ASSUME NEW S, Dense(S)
  PROVE  Cardinality(S) \in Nat /\ IsFiniteSet(S) /\ S = 0 .. Cardinality(S) - 1
  BY FS_CardinalityType DEF Dense

-----------------------------------------------------------------------------
(* The place of an active row                                              *)

LEMMA OrdinalType ==
  ASSUME NEW v, Dense(DOMAIN v), NEW n
  PROVE  /\ IsFiniteSet(ActiveRows(v)) /\ Cardinality(ActiveRows(v)) \in Nat
         /\ IsFiniteSet({m \in DOMAIN v : m < n /\ v[m].active})
         /\ Ordinal(v, n) \in Nat
         /\ Ordinal(v, n) <= Cardinality(ActiveRows(v))
  <1> DEFINE B == {m \in DOMAIN v : m < n /\ v[m].active}
  <1>1. IsFiniteSet(ActiveRows(v))
    BY FS_Subset, DenseSet DEF ActiveRows
  <1>2. B \in SUBSET ActiveRows(v)
    BY DEF ActiveRows
  <1>3. IsFiniteSet(B) /\ Cardinality(B) <= Cardinality(ActiveRows(v))
    BY <1>1, <1>2, FS_Subset
  <1> QED BY <1>1, <1>3, FS_CardinalityType DEF Ordinal

LEMMA OrdinalZero ==
  ASSUME NEW v, Dense(DOMAIN v)
  PROVE  Ordinal(v, 0) = 0
  <1>1. {m \in DOMAIN v : m < 0 /\ v[m].active} = {}
    BY DenseSet
  <1> QED BY <1>1, FS_EmptySet DEF Ordinal

LEMMA OrdinalNext ==
  ASSUME NEW v, Dense(DOMAIN v), NEW n \in DOMAIN v
  PROVE  Ordinal(v, n + 1) = IF v[n].active THEN Ordinal(v, n) + 1 ELSE Ordinal(v, n)
  <1> DEFINE B(k) == {m \in DOMAIN v : m < k /\ v[m].active}
  <1>1. DOMAIN v \subseteq Nat
    BY DenseSet
  <1>2. IsFiniteSet(B(n)) /\ Cardinality(B(n)) \in Nat
    BY OrdinalType DEF Ordinal
  <1>3. n \notin B(n)
    BY <1>1
  <1>4. CASE v[n].active
    <2>1. B(n + 1) = B(n) \union {n}
      BY <1>1, <1>4
    <2>2. Cardinality(B(n + 1)) = Cardinality(B(n)) + 1
      BY <2>1, <1>2, <1>3, FS_AddElement
    <2> QED BY <2>2, <1>4 DEF Ordinal
  <1>5. CASE ~v[n].active
    <2>1. B(n + 1) = B(n)
      BY <1>1, <1>5
    <2> QED BY <2>1, <1>5 DEF Ordinal
  <1> QED BY <1>4, <1>5

\* The active rows before a row, and the row, are among those before a later one.
LEMMA OrdinalGrows ==
  ASSUME NEW v, Dense(DOMAIN v), NEW m \in ActiveRows(v), NEW n \in DOMAIN v, m < n
  PROVE  Ordinal(v, m) < Ordinal(v, n)
  <1> DEFINE B(k) == {r \in DOMAIN v : r < k /\ v[r].active}
  <1>1. DOMAIN v \subseteq Nat /\ m \in DOMAIN v /\ v[m].active
    BY DenseSet DEF ActiveRows
  <1>2. IsFiniteSet(B(n)) /\ Cardinality(B(m + 1)) \in Nat /\ Cardinality(B(n)) \in Nat
    BY OrdinalType DEF Ordinal
  <1>3. B(m + 1) \in SUBSET B(n)
    BY <1>1
  <1>4. Cardinality(B(m + 1)) <= Cardinality(B(n))
    BY <1>2, <1>3, FS_Subset
  <1>5. Ordinal(v, m + 1) = Ordinal(v, m) + 1
    BY <1>1, OrdinalNext
  <1>6. Ordinal(v, m) \in Nat
    BY OrdinalType
  <1> QED BY <1>2, <1>4, <1>5, <1>6 DEF Ordinal

LEMMA OrdinalBelow ==
  ASSUME NEW v, Dense(DOMAIN v), NEW n \in ActiveRows(v)
  PROVE  Ordinal(v, n) \in 0 .. Cardinality(ActiveRows(v)) - 1
  <1>1. n \in DOMAIN v /\ v[n].active
    BY DEF ActiveRows
  <1>2. Ordinal(v, n + 1) = Ordinal(v, n) + 1
    BY <1>1, OrdinalNext
  <1>3. Ordinal(v, n + 1) <= Cardinality(ActiveRows(v))
    BY OrdinalType
  <1>4. Ordinal(v, n) \in Nat /\ Cardinality(ActiveRows(v)) \in Nat
    BY OrdinalType
  <1> QED BY <1>2, <1>3, <1>4

\* Active(v, k) is the row whose ordinal is k.
LEMMA ActiveOrdinal ==
  ASSUME NEW v, Dense(DOMAIN v), NEW n \in ActiveRows(v)
  PROVE  Active(v, Ordinal(v, n)) = n
  <1>1. \A m \in ActiveRows(v) : Ordinal(v, m) = Ordinal(v, n) => m = n
    <2> SUFFICES ASSUME NEW m \in ActiveRows(v), Ordinal(v, m) = Ordinal(v, n), m # n
                 PROVE  FALSE
      OBVIOUS
    <2>1. m \in DOMAIN v /\ n \in DOMAIN v /\ DOMAIN v \subseteq Nat
      BY DenseSet DEF ActiveRows
    <2>2. m < n \/ n < m
      BY <2>1
    <2>3. Ordinal(v, m) < Ordinal(v, n) \/ Ordinal(v, n) < Ordinal(v, m)
      BY <2>1, <2>2, OrdinalGrows
    <2>4. Ordinal(v, m) \in Nat
      BY OrdinalType
    <2> QED BY <2>3, <2>4
  <1>2. n \in DOMAIN v /\ v[n].active
    BY DEF ActiveRows
  <1> QED BY <1>1, <1>2 DEF Active, ActiveRows

\* buildSensorList puts the code of each active row where the reading loop
\* will look for it.
LEMMA ListOfFits ==
  ASSUME NEW v, Vector(v)
  PROVE  /\ DOMAIN ListOf(v) = 0 .. Cardinality(ActiveRows(v)) - 1
         /\ \A n \in ActiveRows(v) : ListOf(v)[Ordinal(v, n)] = v[n].hex
  <1>1. DOMAIN ListOf(v) = 0 .. Cardinality(ActiveRows(v)) - 1
    BY DEF ListOf, ActiveRows
  <1>2. ASSUME NEW n \in ActiveRows(v)
        PROVE  ListOf(v)[Ordinal(v, n)] = v[n].hex
    <2>1. Dense(DOMAIN v) /\ v[n].id = n
      BY DEF Vector, ActiveRows
    <2>2. Ordinal(v, n) \in 0 .. Cardinality(ActiveRows(v)) - 1
      BY <2>1, OrdinalBelow
    <2>3. ListOf(v)[Ordinal(v, n)] = v[v[Active(v, Ordinal(v, n))].id].hex
      BY <2>2 DEF ListOf, ActiveRows
    <2> QED BY <2>1, <2>3, ActiveOrdinal
  <1> QED BY <1>1, <1>2

-----------------------------------------------------------------------------
(* The table                                                               *)

\* SELECT gives row n as its n-th.
LEMMA NthIdOfDense ==
  ASSUME NEW t, Dense(DOMAIN t), NEW n \in DOMAIN t
  PROVE  NthId(t, n) = n
  <1>1. DOMAIN t = 0 .. Cardinality(DOMAIN t) - 1 /\ Cardinality(DOMAIN t) \in Nat
    BY DenseSet
  <1>2. ASSUME NEW id \in DOMAIN t
        PROVE  Cardinality({o \in DOMAIN t : o < id}) = id
    <2>1. {o \in DOMAIN t : o < id} = 0 .. id - 1 /\ id \in Nat
      BY <1>1
    <2> QED BY <2>1, Interval
  <1> QED BY <1>2 DEF NthId

LEMMA NextIdOfTable ==
  ASSUME NEW t, Table(t)
  PROVE  /\ NextId(t) = Cardinality(DOMAIN t) /\ NextId(t) \in Nat
         /\ NextId(t) \notin DOMAIN t
         /\ DOMAIN t \union {NextId(t)} = 0 .. NextId(t)
  <1> DEFINE c == Cardinality(DOMAIN t)
  <1>1. DOMAIN t = 0 .. c - 1 /\ c \in Nat /\ DOMAIN t # {}
    BY DenseSet DEF Table
  <1>2. c - 1 \in DOMAIN t /\ \A id \in DOMAIN t : id <= c - 1
    BY <1>1
  <1>3. \A m \in DOMAIN t : (\A id \in DOMAIN t : id <= m) => m = c - 1
    BY <1>1, <1>2
  <1>4. NextId(t) = 1 + (c - 1)
    BY <1>2, <1>3 DEF NextId
  <1> QED BY <1>1, <1>4

LEMMA AllInactiveTable ==
  ASSUME NEW t, Table(t)
  PROVE  Table(AllInactive(t))
  BY DEF Table, AllInactive, Row

LEMMA RegisterTable ==
  ASSUME NEW t, Table(t), NEW h \in Sensors
  PROVE  Table(Register(t, h))
  <1>1. CASE Holds(t, h)
    BY <1>1 DEF Register, Table, Row
  <1>2. CASE ~Holds(t, h)
    <2>1. Register(t, h) = Insert(t, h)
      BY <1>2 DEF Register
    <2>2. DOMAIN Insert(t, h) = 0 .. NextId(t)
      BY NextIdOfTable DEF Insert
    <2>3. Dense(0 .. NextId(t)) /\ 0 .. NextId(t) # {}
      <3>1. NextId(t) + 1 \in Nat /\ 0 .. NextId(t) = 0 .. (NextId(t) + 1) - 1 /\ 0 \in 0 .. NextId(t)
        BY NextIdOfTable
      <3> QED BY <3>1, Interval
    <2>4. [hex |-> h, active |-> TRUE, log |-> FALSE] \in Row
      BY DEF Row
    <2>5. Insert(t, h) \in [DOMAIN Insert(t, h) -> Row]
      BY <2>4, NextIdOfTable DEF Insert, Table
    <2> QED BY <2>1, <2>2, <2>3, <2>5 DEF Table
  <1> QED BY <1>1, <1>2

\* the place of a row among those read_ow has copied
LEMMA CopyVector ==
  ASSUME Vector(owVect), NEW t, Table(t)
  PROVE  Vector(Copy(t))
  <1>1. DOMAIN Copy(t) = DOMAIN t /\ DOMAIN t \subseteq Nat
    BY DenseSet DEF Copy, Table
  <1>2. ASSUME NEW n \in DOMAIN t
        PROVE  Copy(t)[n] \in VecRow /\ Copy(t)[n].id = n
    <2>1. NthId(t, n) = n /\ n \in Nat /\ t[n] \in Row
      BY <1>1, NthIdOfDense DEF Table
    <2>2. NewRow \in VecRow
      BY DEF NewRow, VecRow, Value
    <2> DEFINE old == IF n \in DOMAIN owVect THEN owVect[n] ELSE NewRow
    <2>3. old \in VecRow
      BY <2>2 DEF Vector
    <2>4. Copy(t)[n] = [id |-> n, hex |-> t[n].hex, active |-> t[n].active, log |-> t[n].log,
                        value |-> old.value, valid |-> old.valid]
      BY <2>1, <1>1 DEF Copy, Copied
    <2> QED BY <2>1, <2>3, <2>4 DEF VecRow, Row
  <1> QED BY <1>1, <1>2 DEF Vector, Copy, Table

LEMMA FreshVector ==
  ASSUME NEW t, Table(t)
  PROVE  Vector(Fresh(t)) /\ \A n \in DOMAIN Fresh(t) : ~Fresh(t)[n].valid
  <1>1. DOMAIN Fresh(t) = DOMAIN t /\ DOMAIN t \subseteq Nat
    BY DenseSet DEF Fresh, Table
  <1>2. ASSUME NEW n \in DOMAIN t
        PROVE  Fresh(t)[n] \in VecRow /\ Fresh(t)[n].id = n /\ ~Fresh(t)[n].valid
    <2>1. NthId(t, n) = n /\ n \in Nat /\ t[n] \in Row
      BY <1>1, NthIdOfDense DEF Table
    <2>2. Fresh(t)[n] = [NewRow EXCEPT !.id = n, !.hex = t[n].hex, !.active = t[n].active,
                                       !.log = t[n].log]
      BY <2>1, <1>1 DEF Fresh
    <2> QED BY <2>1, <2>2 DEF NewRow, VecRow, Row, Value
  <1> QED BY <1>1, <1>2 DEF Vector, Fresh, Table

-----------------------------------------------------------------------------
(* The invariant                                                           *)

LEMMA InvIsTyped == ReadInv => TypeOK
  <1> SUFFICES ASSUME ReadInv PROVE TypeOK
    OBVIOUS
  <1> USE DEF ReadInv
  <1>1. pc = "read" => sensor \in 0 .. Cardinality(DOMAIN list)
    <2> SUFFICES ASSUME pc = "read" PROVE sensor \in 0 .. Cardinality(DOMAIN list)
      OBVIOUS
    <2> DEFINE c == Cardinality(ActiveRows(owVect))
    <2>1. c \in Nat /\ Ordinal(owVect, row) \in Nat /\ Ordinal(owVect, row) <= c
      BY OrdinalType DEF Scan, Vector
    <2>2. DOMAIN list = 0 .. c - 1 /\ sensor = Ordinal(owVect, row)
      BY DEF Scan, ListFits
    <2>3. Cardinality(DOMAIN list) = c
      BY <2>1, <2>2, Interval
    <2> QED BY <2>1, <2>2, <2>3
  <1>2. owVect \in [DOMAIN owVect -> [id : Nat, hex : Sensors \union {None}, log : BOOLEAN,
                    active : BOOLEAN, value : Value, valid : BOOLEAN]]
    BY DEF Scan, Vector, VecRow
  <1>3. Dense(DOMAIN owVect) /\ \A n \in DOMAIN owVect : owVect[n].active => owVect[n].id = n
    BY DEF Scan, Vector
  <1>4. pc = "read" => row \in 0 .. Cardinality(DOMAIN owVect)
    BY DEF Scan
  <1> QED BY <1>1, <1>2, <1>3, <1>4 DEF Store, Turn, TypeOK

LEMMA TableWrite ==
  ASSUME NEW t, Table(t), NEW id, NEW r \in Row
  PROVE  Table([t EXCEPT ![id] = r])
  BY DEF Table

LEMMA InitInv == Init => ReadInv
  <1> SUFFICES ASSUME Init PROVE ReadInv
    OBVIOUS
  <1>1. Table(registry)
    BY RegistryAssumption DEF Init, Table, Row
  <1>2. NoSwap \in [step : {"none", "readA", "readB", "writeA", "writeB", "done"},
                    a : Nat, b : Nat, rowA : Row, rowB : Row]
    BY DEF NoSwap, NoRow, Row
  <1>3. Store
    BY <1>1, <1>2 DEF Init, Store, NoSwap
  <1>4. Turn
    BY DEF Init, Turn
  <1>5. Vector(owVect) /\ \A n \in DOMAIN owVect : ~owVect[n].valid
    BY <1>1, FreshVector DEF Init
  <1>6. Scan
    BY <1>5 DEF Init, Scan, ListFits, ReadsItsRow
  <1> QED BY <1>3, <1>4, <1>6 DEF ReadInv

LEMMA StoreStep ==
  ASSUME Store, Turn, Next
  PROVE  Store'
  <1>a. Table(registry) /\ Table(draft) /\ DOMAIN registry \subseteq DOMAIN draft
    BY DEF Store
  <1>1. CASE Search
    BY <1>1 DEF Search, Store, connection, page
  <1>2. CASE Deactivate
    <2>1. Table(draft') /\ DOMAIN draft' = DOMAIN draft
      BY <1>2, <1>a, AllInactiveTable DEF Deactivate, AllInactive
    <2> QED BY <1>2, <2>1 DEF Deactivate, Store, page
  <1>3. CASE DeactivateFails
    BY <1>3 DEF DeactivateFails, Rollback, Store, page
  <1>4. ASSUME NEW h \in todo, RegisterOne(h)
        PROVE  Store'
    <2>1. Table(draft')
      BY <1>4, <1>a, RegisterTable DEF RegisterOne, Turn
    <2>2. DOMAIN draft \subseteq DOMAIN draft'
      BY <1>4 DEF RegisterOne, Register, Insert
    <2> QED BY <1>4, <2>1, <2>2 DEF RegisterOne, Store, page
  <1>5. ASSUME NEW h \in todo, RegisterFails(h)
        PROVE  Store'
    <2>1. leaked' \in BOOLEAN
      BY <1>5 DEF RegisterFails, Store, Holds
    <2> QED BY <1>5, <2>1 DEF RegisterFails, Rollback, Store, page
  <1>6. CASE End
    BY <1>6 DEF End, Store, page
  <1>7. CASE EndFails
    BY <1>7 DEF EndFails, Store, page
  <1>8. CASE Build \/ BuildCountFails \/ BuildSelectFails
    BY <1>8 DEF Build, BuildCountFails, BuildSelectFails, BeginReading, Store, page
  <1>9. CASE (\E value \in Sensors \union {None, Bad} : Read(value)) \/ Skip \/ AllRead
    BY <1>9 DEF Read, Skip, AllRead, connection, Store, page
  <1>10. CASE Restart
    BY <1>10 DEF Restart, Rollback, Store, page
  <1>11. ASSUME NEW a, NEW b, SwapBegins(a, b)
         PROVE  Store'
    <2>1. a \in DOMAIN registry /\ b \in DOMAIN registry /\ a \in Nat /\ b \in Nat
      BY <1>11, DenseSet DEF SwapBegins, Store, Table
    <2>2. NoRow \in Row
      BY DEF NoRow, Row
    <2> QED BY <1>11, <2>1, <2>2 DEF SwapBegins, connection, Store
  <1>12. CASE SwapReads
    <2>1. ASSUME NEW id \in DOMAIN registry
          PROVE  PageReads(id) \in Row
      BY <1>a DEF PageReads, NoRow, Row, Table
    <2> QED BY <1>12, <2>1 DEF SwapReads, connection, Store
  <1>13. ASSUME NEW id \in DOMAIN registry, LogWanted(id)
         PROVE  Store'
    <2>1. [registry[id] EXCEPT !.log = TRUE] \in Row
      BY <1>a DEF Table, Row
    <2>2. Table([registry EXCEPT ![id] = [registry[id] EXCEPT !.log = TRUE]])
      BY <1>a, <2>1, TableWrite
    <2> QED BY <1>13, <2>2 DEF LogWanted, PageWrites, Store, page
  <1>14. CASE SwapWrites
    <2>1. Table([registry EXCEPT ![swap.a] = swap.rowB]) /\ Table([registry EXCEPT ![swap.b] = swap.rowA])
      BY <1>a, TableWrite DEF Store
    <2> QED BY <1>14, <2>1 DEF SwapWrites, PageWrites, Store
  <1> QED BY <1>1, <1>2, <1>3, <1>4, <1>5, <1>6, <1>7, <1>8, <1>9, <1>10, <1>11, <1>12,
             <1>13, <1>14 DEF Next, Thread, Page

LEMMA TurnStep ==
  ASSUME Turn, Next
  PROVE  Turn'
  <1>1. CASE Thread
    BY <1>1 DEF Thread, Search, Deactivate, DeactivateFails, RegisterOne, RegisterFails, End,
                EndFails, Build, BuildCountFails, BuildSelectFails, BeginReading, Read, Skip,
                AllRead, search, Turn
  <1>2. CASE Restart
    BY <1>2 DEF Restart, Turn
  <1>3. CASE Page
    BY <1>3 DEF Page, SwapBegins, SwapReads, SwapWrites, LogWanted, search, Turn
  <1> QED BY <1>1, <1>2, <1>3 DEF Next

\* What a round starts to read is in order, whatever read_ow has copied.
LEMMA BeginScan ==
  ASSUME NEW v, Vector(v), BeginReading(v)
  PROVE  Scan'
  <1>1. owVect' = v /\ list' = ListOf(v) /\ row' = 0 /\ sensor' = 0 /\ pc' = "read"
    BY DEF BeginReading
  <1>2. Ordinal(v, 0) = 0
    BY OrdinalZero DEF Vector
  <1>3. ListFits'
    BY <1>1, <1>2, ListOfFits DEF ListFits, ActiveRows, Ordinal
  <1>4. Cardinality(DOMAIN v) \in Nat /\ DOMAIN v \subseteq Nat
    BY DenseSet DEF Vector
  <1>5. ReadsItsRow'
    BY <1>1, <1>4 DEF ReadsItsRow
  <1> QED BY <1>1, <1>3, <1>4, <1>5 DEF Scan, Vector

\* A step that leaves the vector alone, outside the reading of the sensors.
LEMMA ScanStays ==
  ASSUME Scan, UNCHANGED scan, pc' # "read" \/ pc' = pc, pc # "read" \/ pc' = pc
  PROVE  Scan'
  BY DEF Scan, scan, Vector, ListFits, ReadsItsRow, ActiveRows, Ordinal

LEMMA EmptyVector == Vector(Empty)
  <1>1. DOMAIN Empty = {} /\ {} = 0 .. 0 - 1
    BY DEF Empty
  <1>2. Dense({})
    BY <1>1, Interval
  <1> QED BY <1>1, <1>2 DEF Vector, Empty

LEMMA LongerVector ==
  ASSUME Scan, Table(registry)
  PROVE  Vector([n \in 0 .. Cardinality(DOMAIN registry) - 1 |->
                   IF n \in DOMAIN owVect THEN owVect[n] ELSE NewRow])
  <1>1. NewRow \in VecRow /\ ~NewRow.active
    BY DEF NewRow, VecRow, Value
  <1>2. Dense(0 .. Cardinality(DOMAIN registry) - 1)
    BY DenseSet, Interval DEF Table
  <1> QED BY <1>1, <1>2 DEF Scan, Vector

\* The value of an active row is of the sensor at its place in the list.
LEMMA ReadStep ==
  ASSUME Scan, NEW value \in Sensors \union {None, Bad}, Read(value)
  PROVE  Scan'
  <1>1. pc = "read" /\ pc' = "read" /\ row \in DOMAIN owVect /\ owVect[row].active
        /\ row' = row + 1 /\ sensor' = sensor + 1 /\ list' = list
    BY DEF Read
  <1>2. Vector(owVect) /\ Dense(DOMAIN owVect)
    BY DEF Scan, Vector
  <1>3. DOMAIN owVect = 0 .. Cardinality(DOMAIN owVect) - 1 /\ Cardinality(DOMAIN owVect) \in Nat
    BY <1>2, DenseSet
  <1>4. sensor = Ordinal(owVect, row) /\ list[Ordinal(owVect, row)] = owVect[row].hex
    BY <1>1 DEF Scan, ListFits, ActiveRows
  <1>5. value = Bad \/ value = owVect[row].hex
    BY <1>4 DEF Read
  <1>6. /\ DOMAIN owVect' = DOMAIN owVect
        /\ \A n \in DOMAIN owVect : n # row => owVect'[n] = owVect[n]
        /\ owVect'[row] = [owVect[row] EXCEPT !.value = value, !.valid = (value # Bad)]
    BY <1>1 DEF Read
  <1>7. /\ owVect'[row] \in VecRow
        /\ owVect'[row].id = owVect[row].id /\ owVect'[row].hex = owVect[row].hex
        /\ owVect'[row].active = owVect[row].active
        /\ owVect'[row].value = value /\ owVect'[row].valid = (value # Bad)
    <2>1. owVect[row] \in VecRow
      BY <1>1, <1>2 DEF Vector
    <2>2. (value # Bad) \in BOOLEAN
      OBVIOUS
    <2> QED BY <1>6, <2>1, <2>2 DEF VecRow, Value
  <1>8. Vector(owVect)'
    <2>1. owVect' = [n \in DOMAIN owVect' |-> owVect'[n]]
      BY <1>1 DEF Read
    <2> QED BY <1>2, <1>6, <1>7, <2>1 DEF Vector
  <1>9. \A n \in DOMAIN owVect : owVect'[n].active = owVect[n].active /\ owVect'[n].hex = owVect[n].hex
    BY <1>6, <1>7
  <1>10. ActiveRows(owVect)' = ActiveRows(owVect) /\ \A n : Ordinal(owVect', n) = Ordinal(owVect, n)
    BY <1>6, <1>9 DEF ActiveRows, Ordinal
  <1>11. ListFits'
    <2>1. Ordinal(owVect, row + 1) = Ordinal(owVect, row) + 1
      BY <1>1, <1>2, OrdinalNext
    <2>2. \A n \in ActiveRows(owVect) : n \in DOMAIN owVect /\ owVect'[n].hex = owVect[n].hex
      BY <1>9 DEF ActiveRows
    <2>3. sensor' = Ordinal(owVect', row')
      BY <1>1, <1>4, <1>10, <2>1
    <2>4. \A n \in ActiveRows(owVect)' : list'[Ordinal(owVect', n)] = owVect'[n].hex
      BY <1>1, <1>10, <2>2 DEF Scan, ListFits
    <2>5. DOMAIN list' = 0 .. Cardinality(ActiveRows(owVect)') - 1
      BY <1>1, <1>10 DEF Scan, ListFits
    <2> QED BY <2>3, <2>4, <2>5 DEF ListFits
  <1>12. ReadsItsRow'
    <2> SUFFICES ASSUME NEW n \in DOMAIN owVect, owVect'[n].active, owVect'[n].valid, ~(row' <= n)
                 PROVE  owVect'[n].value = owVect'[n].hex
      BY <1>1, <1>6 DEF ReadsItsRow
    <2>1. CASE n = row
      BY <1>5, <1>7, <2>1
    <2>2. CASE n # row
      <3>1. ~(row <= n)
        BY <1>1, <1>3, <2>2
      <3> QED BY <1>6, <2>2, <3>1 DEF Scan, ReadsItsRow
    <2> QED BY <2>1, <2>2
  <1>13. row' \in 0 .. Cardinality(DOMAIN owVect')
    BY <1>1, <1>3, <1>6
  <1> QED BY <1>8, <1>11, <1>12, <1>13 DEF Scan

LEMMA ScanStep ==
  ASSUME ReadInv, Next
  PROVE  Scan'
  <1>a. Scan /\ Table(draft) /\ Table(registry) /\ Vector(owVect)
    BY DEF ReadInv, Store, Scan
  <1>1. CASE Search \/ Deactivate \/ DeactivateFails \/ End \/ EndFails
    BY <1>1, <1>a, ScanStays DEF Search, Deactivate, DeactivateFails, End, EndFails
  <1>2. CASE \E h \in todo : RegisterOne(h) \/ RegisterFails(h)
    BY <1>2, <1>a, ScanStays DEF RegisterOne, RegisterFails
  <1>3. CASE Build
    BY <1>3, <1>a, CopyVector, BeginScan DEF Build
  <1>4. CASE BuildCountFails
    BY <1>4, EmptyVector, BeginScan DEF BuildCountFails
  <1>5. CASE BuildSelectFails
    BY <1>5, <1>a, LongerVector, BeginScan DEF BuildSelectFails
  <1>6. CASE \E value \in Sensors \union {None, Bad} : Read(value)
    BY <1>6, <1>a, ReadStep
  <1>7. CASE Skip
    <2>1. pc = "read" /\ row \in DOMAIN owVect /\ ~owVect[row].active /\ row' = row + 1
      BY <1>7 DEF Skip
    <2>2. DOMAIN owVect = 0 .. Cardinality(DOMAIN owVect) - 1 /\ Cardinality(DOMAIN owVect) \in Nat
      BY <1>a, DenseSet DEF Vector
    <2>3. Ordinal(owVect, row + 1) = Ordinal(owVect, row)
      BY <1>a, <2>1, OrdinalNext DEF Vector
    <2>4. ListFits'
      BY <1>7, <1>a, <2>1, <2>3 DEF Skip, Scan, ListFits, ActiveRows, Ordinal
    <2>5. ReadsItsRow'
      <3> SUFFICES ASSUME NEW n \in DOMAIN owVect, owVect[n].active, owVect[n].valid, ~(row' <= n)
                   PROVE  owVect[n].value = owVect[n].hex
        BY <1>7 DEF Skip, ReadsItsRow
      <3>1. n # row /\ ~(row <= n)
        BY <2>1, <2>2
      <3> QED BY <1>a, <3>1 DEF Scan, ReadsItsRow
    <2>6. row' \in 0 .. Cardinality(DOMAIN owVect)
      BY <2>1, <2>2
    <2> QED BY <1>7, <1>a, <2>4, <2>5, <2>6 DEF Skip, Scan, Vector
  <1>8. CASE AllRead
    <2>1. ReadsItsRow'
      <3>1. row = Cardinality(DOMAIN owVect) /\ DOMAIN owVect = 0 .. Cardinality(DOMAIN owVect) - 1
            /\ Cardinality(DOMAIN owVect) \in Nat
        BY <1>8, <1>a, DenseSet DEF AllRead, Scan, Vector
      <3>2. \A n \in DOMAIN owVect : ~(row <= n)
        BY <3>1
      <3> QED BY <1>8, <1>a, <3>2 DEF AllRead, Scan, ReadsItsRow
    <2> QED BY <1>8, <1>a, <2>1 DEF AllRead, Scan, Vector, ListFits
  <1>9. CASE Restart
    <2>1. Vector(Fresh(registry)) /\ \A n \in DOMAIN Fresh(registry) : ~Fresh(registry)[n].valid
      BY <1>a, FreshVector
    <2>2. owVect' = Fresh(registry) /\ pc' = "open"
      BY <1>9 DEF Restart
    <2> QED BY <2>1, <2>2 DEF Scan, Vector, ListFits, ReadsItsRow
  <1>10. CASE Page
    BY <1>10, <1>a, ScanStays DEF Page, SwapBegins, SwapReads, SwapWrites, LogWanted
  <1> QED BY <1>1, <1>2, <1>3, <1>4, <1>5, <1>6, <1>7, <1>8, <1>9, <1>10 DEF Next, Thread

LEMMA InvStep == ReadInv /\ [Next]_vars => ReadInv'
  <1>1. ASSUME ReadInv, Next
        PROVE  ReadInv'
    BY <1>1, StoreStep, TurnStep, ScanStep DEF ReadInv
  <1>2. ASSUME ReadInv, UNCHANGED vars
        PROVE  ReadInv'
    <2>1. Store'
      BY <1>2 DEF vars, connection, page, ReadInv, Store
    <2>2. Turn'
      <3>1. pc' = pc /\ found' = found /\ todo' = todo
        BY <1>2 DEF vars, search
      <3> QED BY <1>2, <3>1 DEF ReadInv, Turn
    <2>3. Scan'
      BY <1>2, ScanStays DEF vars, ReadInv
    <2> QED BY <2>1, <2>2, <2>3 DEF ReadInv
  <1> QED BY <1>1, <1>2

LEMMA InvAlways == Spec => []ReadInv
  BY InitInv, InvStep, PTL DEF Spec

-----------------------------------------------------------------------------
(* The theorems                                                            *)

\* The state keeps its shape: ids of the registry, and the rows of owVect, stay
\* dense and in order through failed calls, rollbacks, restarts and swaps, and
\* the reading loop never leaves owVect or the list (write_ow, read_ow,
\* runOnewire).
THEOREM TypeCorrect == Spec => []TypeOK
  BY InvAlways, InvIsTyped, PTL

\* A valid value is of the sensor whose code its row has (buildSensorList and
\* the loop of runOnewire agree on the order of the active sensors).
THEOREM SensorsReadTheirRows == Spec => []ReadsItsRow
  <1>1. ReadInv => ReadsItsRow
    BY DEF ReadInv, Scan
  <1> QED BY <1>1, InvAlways, PTL

-----------------------------------------------------------------------------
(* One row per sensor                                                      *)

LEMMA RegisterOneRow ==
  ASSUME NEW t, Table(t), OneRow(t), NEW h
  PROVE  OneRow(Register(t, h))
  <1>1. CASE Holds(t, h)
    <2>1. DOMAIN Register(t, h) = DOMAIN t /\ \A id \in DOMAIN t : Register(t, h)[id].hex = t[id].hex
      BY <1>1 DEF Register, Table, Row
    <2> QED BY <2>1 DEF OneRow
  <1>2. CASE ~Holds(t, h)
    <2>1. Register(t, h) = Insert(t, h) /\ NextId(t) \notin DOMAIN t
      BY <1>2, NextIdOfTable DEF Register
    <2>2. DOMAIN Insert(t, h) = DOMAIN t \union {NextId(t)}
          /\ Insert(t, h)[NextId(t)].hex = h
          /\ \A id \in DOMAIN t : Insert(t, h)[id] = t[id]
      BY <2>1 DEF Insert
    <2> QED BY <1>2, <2>1, <2>2 DEF OneRow, Holds
  <1> QED BY <1>1, <1>2

LEMMA RowStep ==
  ASSUME MaxSwaps = 0, ReadInv, swaps = 0, RowInv, Next
  PROVE  RowInv' /\ swaps' = 0
  <1>a. Table(registry) /\ Table(draft) /\ OneRow(registry) /\ OneRow(draft)
    BY DEF ReadInv, Store, RowInv
  <1>1. CASE Search
    BY <1>1 DEF Search, RowInv, OneRow, connection, page
  <1>2. CASE Deactivate
    <2>1. \A id \in DOMAIN draft : AllInactive(draft)[id].hex = draft[id].hex
      BY <1>a DEF AllInactive, Table, Row
    <2>2. OneRow(draft')
      BY <1>2, <1>a, <2>1 DEF Deactivate, AllInactive, OneRow
    <2> QED BY <1>2, <2>2 DEF Deactivate, RowInv, OneRow, page
  <1>3. CASE DeactivateFails
    BY <1>3 DEF DeactivateFails, Rollback, RowInv, OneRow, page
  <1>4. ASSUME NEW h \in todo, RegisterOne(h)
        PROVE  RowInv' /\ swaps' = 0
    BY <1>4, <1>a, RegisterOneRow DEF RegisterOne, RowInv, page
  <1>5. ASSUME NEW h \in todo, RegisterFails(h)
        PROVE  RowInv' /\ swaps' = 0
    BY <1>5 DEF RegisterFails, Rollback, RowInv, OneRow, page
  <1>6. CASE End \/ EndFails
    BY <1>6 DEF End, EndFails, RowInv, OneRow, page
  <1>7. CASE Build \/ BuildCountFails \/ BuildSelectFails
    BY <1>7 DEF Build, BuildCountFails, BuildSelectFails, BeginReading, RowInv, OneRow, page
  <1>8. CASE (\E value \in Sensors \union {None, Bad} : Read(value)) \/ Skip \/ AllRead
    BY <1>8 DEF Read, Skip, AllRead, RowInv, OneRow, connection, page
  <1>9. CASE Restart
    BY <1>9 DEF Restart, Rollback, RowInv, OneRow, page
  <1>10. ASSUME NEW id \in DOMAIN registry, LogWanted(id)
         PROVE  RowInv' /\ swaps' = 0
    <2> DEFINE r == [registry EXCEPT ![id] = [registry[id] EXCEPT !.log = TRUE]]
    <2>1. DOMAIN r = DOMAIN registry /\ \A o \in DOMAIN registry : r[o].hex = registry[o].hex
      BY <1>a DEF Table, Row
    <2>2. OneRow(r)
      BY <1>a, <2>1 DEF OneRow
    <2>3. registry' = r /\ draft' = r /\ UNCHANGED page
      BY <1>10 DEF LogWanted, PageWrites
    <2> QED BY <2>2, <2>3 DEF RowInv, page
  <1>11. ~SwapReads /\ ~SwapWrites /\ \A a, b : ~SwapBegins(a, b)
    BY DEF RowInv, NoSwap, SwapReads, SwapWrites, SwapBegins
  <1> QED BY <1>1, <1>2, <1>3, <1>4, <1>5, <1>6, <1>7, <1>8, <1>9, <1>10, <1>11
          DEF Next, Thread, Page

\* As long as the settings page swaps nothing, no sensor gets a second row,
\* whatever an open transaction holds from earlier rounds (write_ow looks up
\* before it inserts, on the connection that has the transaction).
THEOREM OneRowForever ==
  ASSUME MaxSwaps = 0
  PROVE  Spec => []OneRowPerSensor
  <1> DEFINE Inv == ReadInv /\ RowInv /\ swaps = 0
  <1>1. Init => Inv
    <2> SUFFICES ASSUME Init PROVE RowInv /\ swaps = 0
      BY InitInv
    <2>1. OneRow(registry)
      BY RegistryAssumption DEF Init, OneRow
    <2> QED BY <2>1 DEF Init, RowInv
  <1>2. Inv /\ [Next]_vars => Inv'
    <2>1. ASSUME Inv, Next
          PROVE  Inv'
      BY <2>1, RowStep, InvStep
    <2>2. ASSUME Inv, UNCHANGED vars
          PROVE  Inv'
      BY <2>2, InvStep DEF vars, connection, page, RowInv, OneRow
    <2> QED BY <2>1, <2>2
  <1>3. Inv => OneRowPerSensor
    BY DEF RowInv, OneRow, OneRowPerSensor
  <1> QED BY <1>1, <1>2, <1>3, PTL DEF Spec

-----------------------------------------------------------------------------
(* What is logged                                                          *)

\* An open transaction changes no row's sensor, adds rows that are not
\* logged, and has changed nothing before it has the lock.
Draft ==
  /\ \A id \in DOMAIN registry : draft[id].hex = registry[id].hex
  /\ \A id \in DOMAIN draft \ DOMAIN registry : ~draft[id].log
  /\ mode \in {"closed", "begun"} => draft = registry

\* What a row of owVect holds is of the sensor the transaction has in that
\* row. After a rollback, and until read_ow has run, a row may be left that
\* the table has no more; it is not logged.
RowOf(n) ==
  /\ n \in DOMAIN draft =>
       /\ owVect[n].active => owVect[n].hex = draft[n].hex
       /\ owVect[n].valid => owVect[n].value = draft[n].hex
  /\ pc # "build" /\ (owVect[n].active \/ owVect[n].valid) => n \in DOMAIN draft
  /\ owVect[n].active /\ owVect[n].log => n \in DOMAIN registry

Locked == pc = "register" => mode \notin {"closed", "begun"}

LogInv ==
  /\ swap = NoSwap /\ swaps = 0
  /\ Draft /\ Locked
  /\ \A n \in DOMAIN owVect : RowOf(n)

LEMMA FreshRow ==
  ASSUME NEW t, Table(t), NEW n \in DOMAIN Fresh(t)
  PROVE  /\ n \in DOMAIN t /\ Fresh(t)[n].hex = t[n].hex /\ ~Fresh(t)[n].valid
  <1>1. DOMAIN Fresh(t) = DOMAIN t
    BY DenseSet DEF Fresh, Table
  <1>2. NthId(t, n) = n
    BY <1>1, NthIdOfDense DEF Table
  <1> QED BY <1>1, <1>2 DEF Fresh, NewRow

LEMMA CopyRow ==
  ASSUME NEW t, Table(t), NEW n \in DOMAIN Copy(t)
  PROVE  /\ n \in DOMAIN t /\ Copy(t)[n].hex = t[n].hex /\ Copy(t)[n].log = t[n].log
         /\ Copy(t)[n].valid => /\ n \in DOMAIN owVect /\ owVect[n].valid
                                /\ Copy(t)[n].value = owVect[n].value
  <1>1. DOMAIN Copy(t) = DOMAIN t
    BY DenseSet DEF Copy, Table
  <1>2. NthId(t, n) = n
    BY <1>1, NthIdOfDense DEF Table
  <1>3. Copy(t)[n] = Copied(t, n)
    BY DEF Copy
  <1> QED BY <1>1, <1>2, <1>3 DEF Copied, NewRow

LEMMA LogInit == Init => LogInv
  <1> SUFFICES ASSUME Init PROVE LogInv
    OBVIOUS
  <1>1. Table(registry)
    BY InitInv DEF ReadInv, Store
  <1>2. Draft
    BY DEF Init, Draft
  <1>3. ASSUME NEW n \in DOMAIN owVect PROVE RowOf(n)
    BY <1>1, <1>3, FreshRow DEF Init, RowOf
  <1>4. Locked
    BY DEF Init, Locked
  <1> QED BY <1>2, <1>3, <1>4 DEF Init, LogInv

\* a step that leaves owVect and the draft's sensors alone
LEMMA RowsStay ==
  ASSUME LogInv, owVect' = owVect, DOMAIN draft' = DOMAIN draft,
         \A id \in DOMAIN draft : draft'[id].hex = draft[id].hex,
         DOMAIN registry \subseteq DOMAIN registry',
         pc' # "build" => pc # "build"
  PROVE  (\A n \in DOMAIN owVect : RowOf(n))'
  BY DEF LogInv, RowOf

\* The transaction is rolled back, and read_ow runs next.
LEMMA RolledBack ==
  ASSUME LogInv, Store, Rollback, registry' = registry, owVect' = owVect, pc' = "build"
  PROVE  Draft' /\ (\A n \in DOMAIN owVect : RowOf(n))'
  BY DEF LogInv, Draft, RowOf, Rollback, Store

\* write_ow
LEMMA LogWrite ==
  ASSUME LogInv, Store, Turn,
         Search \/ Deactivate \/ DeactivateFails
         \/ (\E h \in todo : RegisterOne(h) \/ RegisterFails(h)) \/ End \/ EndFails
  PROVE  LogInv'
  <1>a. Draft /\ Table(registry) /\ Table(draft) /\ DOMAIN registry \subseteq DOMAIN draft
        /\ swap = NoSwap /\ swaps = 0
    BY DEF LogInv, Store
  <1>b. draft \in [DOMAIN draft -> Row]
    BY <1>a DEF Table
  <1>1. CASE Search
    <2>1. /\ UNCHANGED <<registry, mode, draft, owVect, swap, swaps>>
          /\ pc' = "deactivate" /\ pc # "build"
      BY <1>1 DEF Search, connection, scan, page
    <2> QED BY <2>1, <1>a DEF LogInv, Draft, RowOf, Locked
  <1>2. CASE Deactivate
    <2>1. /\ draft' = AllInactive(draft) /\ mode' \in {"pending", "reserved"}
          /\ UNCHANGED <<registry, owVect, swap, swaps>> /\ pc' # "build" /\ pc # "build"
      BY <1>2 DEF Deactivate, scan, page
    <2>2. /\ DOMAIN draft' = DOMAIN draft
          /\ \A id \in DOMAIN draft : draft'[id].hex = draft[id].hex /\ draft'[id].log = draft[id].log
      BY <1>b, <2>1 DEF AllInactive, Row
    <2>3. Draft'
      BY <1>a, <2>1, <2>2 DEF Draft
    <2>4. (\A n \in DOMAIN owVect : RowOf(n))'
      BY <2>1, <2>2, RowsStay
    <2> QED BY <1>a, <2>1, <2>3, <2>4 DEF LogInv, Locked
  <1>3. CASE DeactivateFails
    <2>1. UNCHANGED <<registry, owVect, swap, swaps>> /\ pc' = "build"
      BY <1>3 DEF DeactivateFails, scan, page
    <2>2. CASE Rollback
      BY <1>a, <2>1, <2>2, RolledBack DEF LogInv, Locked
    <2>3. CASE draft' = draft /\ mode \in {"closed", "begun", "shared"}
               /\ mode' = IF mode = "closed" THEN "begun" ELSE mode
      BY <1>a, <2>1, <2>3 DEF LogInv, Draft, RowOf, Locked
    <2> QED BY <1>3, <2>2, <2>3 DEF DeactivateFails
  <1>4. ASSUME NEW h \in todo, RegisterOne(h) PROVE LogInv'
    <2>1. /\ draft' = Register(draft, h) /\ mode' = mode /\ pc' = pc /\ pc = "register"
          /\ UNCHANGED <<registry, owVect, swap, swaps>>
      BY <1>4 DEF RegisterOne, scan, page
    <2>2. mode \notin {"closed", "begun"}
      BY <2>1 DEF LogInv, Locked
    <2>3. CASE Holds(draft, h)
      <3>1. /\ DOMAIN draft' = DOMAIN draft
            /\ \A id \in DOMAIN draft : draft'[id].hex = draft[id].hex /\ draft'[id].log = draft[id].log
        BY <1>b, <2>1, <2>3 DEF Register, Row
      <3>2. Draft'
        BY <1>a, <2>1, <2>2, <3>1 DEF Draft
      <3>3. (\A n \in DOMAIN owVect : RowOf(n))'
        BY <2>1, <3>1, RowsStay
      <3> QED BY <1>a, <2>1, <2>2, <3>2, <3>3 DEF LogInv, Locked
    <2>4. CASE ~Holds(draft, h)
      <3> DEFINE new == NextId(draft)
      <3>1. new \notin DOMAIN draft
        BY <1>a, NextIdOfTable
      <3>2. /\ DOMAIN draft' = DOMAIN draft \union {new} /\ ~draft'[new].log
            /\ \A id \in DOMAIN draft : draft'[id] = draft[id]
        BY <2>1, <2>4, <3>1 DEF Register, Insert
      <3>3. Draft'
        BY <1>a, <2>1, <2>2, <3>2 DEF Draft
      <3>4. (\A n \in DOMAIN owVect : RowOf(n))'
        BY <2>1, <3>1, <3>2 DEF LogInv, RowOf
      <3> QED BY <1>a, <2>1, <2>2, <3>3, <3>4 DEF LogInv, Locked
    <2> QED BY <2>3, <2>4
  <1>5. ASSUME NEW h \in todo, RegisterFails(h) PROVE LogInv'
    <2>1. UNCHANGED <<registry, owVect, swap, swaps>> /\ pc' = "build"
      BY <1>5 DEF RegisterFails, scan, page
    <2>2. CASE Rollback
      BY <1>a, <2>1, <2>2, RolledBack DEF LogInv, Locked
    <2>3. CASE UNCHANGED <<mode, draft>>
      BY <1>a, <2>1, <2>3 DEF LogInv, Draft, RowOf, Locked
    <2> QED BY <1>5, <2>2, <2>3 DEF RegisterFails
  <1>6. CASE End
    BY <1>6, <1>a DEF End, LogInv, Draft, RowOf, scan, page, Locked
  <1>7. CASE EndFails
    BY <1>7, <1>a DEF EndFails, LogInv, Draft, RowOf, scan, page, Locked
  <1> QED BY <1>1, <1>2, <1>3, <1>4, <1>5, <1>6, <1>7

\* read_ow: the rows that are read next are those of the draft
LEMMA LogBuild ==
  ASSUME LogInv, ReadInv, Build \/ BuildCountFails \/ BuildSelectFails
  PROVE  LogInv'
  <1>a. Draft /\ Table(registry) /\ Table(draft) /\ DOMAIN registry \subseteq DOMAIN draft
        /\ swap = NoSwap /\ swaps = 0
    BY DEF LogInv, ReadInv, Store
  <1>b. /\ UNCHANGED <<registry, draft, swap, swaps>> /\ pc' = "read"
        /\ mode' = mode \/ (mode = "begun" /\ mode' = "shared")
    BY DEF Build, BuildCountFails, BuildSelectFails, BeginReading, page
  <1>1. Draft'
    BY <1>a, <1>b DEF Draft
  <1>2. ASSUME NEW n \in DOMAIN owVect' PROVE RowOf(n)'
    <2>1. CASE Build
      <3>1. owVect' = Copy(draft)
        BY <2>1 DEF Build, BeginReading
      <3>2. /\ n \in DOMAIN draft
            /\ owVect'[n].hex = draft[n].hex /\ owVect'[n].log = draft[n].log
            /\ owVect'[n].valid => /\ n \in DOMAIN owVect /\ owVect[n].valid
                                   /\ owVect'[n].value = owVect[n].value
        BY <1>a, <1>2, <3>1, CopyRow
      <3>3. owVect'[n].valid => owVect'[n].value = draft[n].hex
        BY <3>2 DEF LogInv, RowOf
      <3>4. owVect'[n].log => n \in DOMAIN registry
        BY <1>a, <3>2 DEF Draft
      <3> QED BY <1>b, <3>2, <3>3, <3>4 DEF RowOf
    <2>2. CASE BuildCountFails
      BY <1>2, <2>2 DEF BuildCountFails, BeginReading, Empty
    <2>3. CASE BuildSelectFails
      <3>1. owVect' = [m \in 0 .. Cardinality(DOMAIN registry) - 1 |->
                         IF m \in DOMAIN owVect THEN owVect[m] ELSE NewRow]
        BY <2>3 DEF BuildSelectFails, BeginReading
      <3>2. DOMAIN registry = 0 .. Cardinality(DOMAIN registry) - 1
        BY <1>a, DenseSet DEF Table
      <3>3. n \in DOMAIN registry /\ n \in DOMAIN draft
        BY <1>2, <1>a, <3>1, <3>2
      <3>4. CASE n \in DOMAIN owVect
        <4>1. owVect'[n] = owVect[n]
          BY <3>1, <3>2, <3>3, <3>4
        <4> QED BY <1>b, <3>3, <3>4, <4>1 DEF LogInv, RowOf
      <3>5. CASE n \notin DOMAIN owVect
        <4>1. owVect'[n] = NewRow
          BY <3>1, <3>2, <3>3, <3>5
        <4> QED BY <1>b, <3>3, <4>1 DEF NewRow, RowOf
      <3> QED BY <3>4, <3>5
    <2> QED BY <2>1, <2>2, <2>3
  <1> QED BY <1>a, <1>b, <1>1, <1>2 DEF LogInv, Locked

LEMMA LogRead ==
  ASSUME LogInv, ReadInv, NEW value \in Sensors \union {None, Bad}, Read(value)
  PROVE  LogInv'
  <1>1. /\ pc = "read" /\ row \in DOMAIN owVect /\ owVect[row].active
        /\ owVect' = [owVect EXCEPT ![row].value = value, ![row].valid = (value # Bad)]
        /\ UNCHANGED <<registry, mode, draft, pc, swap, swaps>>
    BY DEF Read, connection, page
  <1>2. list[sensor] = owVect[row].hex
    BY <1>1 DEF ReadInv, Scan, ListFits, ActiveRows
  <1>3. value = Bad \/ value = owVect[row].hex
    BY <1>2 DEF Read
  <1>4. owVect[row] \in VecRow
    BY <1>1 DEF ReadInv, Scan, Vector
  <1>5. /\ DOMAIN owVect' = DOMAIN owVect
        /\ \A n \in DOMAIN owVect \ {row} : owVect'[n] = owVect[n]
        /\ owVect'[row].active /\ owVect'[row].hex = owVect[row].hex
        /\ owVect'[row].log = owVect[row].log
        /\ owVect'[row].value = value /\ owVect'[row].valid = (value # Bad)
    <2>1. owVect' = [owVect EXCEPT ![row] = [owVect[row] EXCEPT !.value = value, !.valid = (value # Bad)]]
      BY <1>1
    <2>2. row \in DOMAIN owVect /\ owVect[row].active
      BY <1>1
    <2> DEFINE r == [owVect[row] EXCEPT !.value = value, !.valid = (value # Bad)]
    <2>3. /\ r.active /\ r.hex = owVect[row].hex /\ r.log = owVect[row].log
          /\ r.value = value /\ r.valid = (value # Bad)
      BY <1>4, <2>2 DEF VecRow
    <2>4. /\ DOMAIN owVect' = DOMAIN owVect /\ owVect'[row] = r
          /\ \A n \in DOMAIN owVect \ {row} : owVect'[n] = owVect[n]
      BY <2>1, <2>2
    <2> QED BY <2>3, <2>4
  <1>6. ASSUME NEW n \in DOMAIN owVect'
        PROVE  RowOf(n)'
    <2>1. RowOf(n)
      BY <1>5, <1>6 DEF LogInv
    <2>2. CASE n = row
      <3>1. /\ n \in DOMAIN draft /\ owVect[n].hex = draft[n].hex
            /\ owVect[n].log => n \in DOMAIN registry
        BY <1>1, <2>1, <2>2 DEF RowOf
      <3>2. /\ owVect'[n].hex = owVect[n].hex /\ owVect'[n].log = owVect[n].log
            /\ owVect'[n].valid => owVect'[n].value = owVect[n].hex
        BY <1>3, <1>5, <2>2
      <3> QED BY <1>1, <3>1, <3>2 DEF RowOf
    <2>3. CASE n # row
      <3>1. owVect'[n] = owVect[n]
        BY <1>5, <1>6, <2>3
      <3> QED BY <1>1, <2>1, <3>1 DEF RowOf
    <2> QED BY <2>2, <2>3
  <1> QED BY <1>1, <1>6 DEF LogInv, Draft, Locked

LEMMA LogPage ==
  ASSUME LogInv, Store, NEW id \in DOMAIN registry, LogWanted(id)
  PROVE  LogInv'
  <1> DEFINE r == [registry EXCEPT ![id] = [registry[id] EXCEPT !.log = TRUE]]
  <1>1. /\ registry' = r /\ draft' = r /\ draft = registry
        /\ UNCHANGED <<mode, pc, owVect, swap, swaps>>
    BY DEF LogWanted, PageWrites, Unlocked, scan, page, LogInv, Draft
  <1>2. registry[id] \in Row
    BY DEF Store, Table
  <1>3. /\ DOMAIN r = DOMAIN registry
        /\ \A o \in DOMAIN registry : r[o].hex = registry[o].hex
    BY <1>2 DEF Row
  <1>4. Draft'
    BY <1>1 DEF Draft
  <1>5. (\A n \in DOMAIN owVect : RowOf(n))'
    BY <1>1, <1>3, RowsStay
  <1> QED BY <1>1, <1>4, <1>5 DEF LogInv, Locked

LEMMA LogRestart ==
  ASSUME LogInv, Store, Restart
  PROVE  LogInv'
  <1>1. /\ draft' = registry /\ mode' = "closed" /\ pc' = "open" /\ owVect' = Fresh(registry)
        /\ UNCHANGED <<registry, swap, swaps>>
    BY DEF Restart, Rollback, page
  <1>2. ASSUME NEW n \in DOMAIN owVect'
        PROVE  RowOf(n)'
    <2>1. n \in DOMAIN registry /\ owVect'[n].hex = registry[n].hex /\ ~owVect'[n].valid
      BY <1>1, <1>2, FreshRow DEF Store
    <2> QED BY <1>1, <2>1 DEF RowOf
  <1>3. Draft'
    BY <1>1 DEF Draft
  <1> QED BY <1>1, <1>2, <1>3 DEF LogInv, Locked

LEMMA LogStep ==
  ASSUME LogInv, ReadInv, Next, MaxSwaps = 0
  PROVE  LogInv'
  <1>a. Store /\ Turn
    BY DEF ReadInv
  <1>1. CASE Search \/ Deactivate \/ DeactivateFails
             \/ (\E h \in todo : RegisterOne(h) \/ RegisterFails(h)) \/ End \/ EndFails
    BY <1>1, <1>a, LogWrite
  <1>2. CASE Build \/ BuildCountFails \/ BuildSelectFails
    BY <1>2, LogBuild
  <1>3. CASE \E value \in Sensors \union {None, Bad} : Read(value)
    BY <1>3, LogRead
  <1>4. CASE Skip \/ AllRead
    BY <1>4 DEF Skip, AllRead, LogInv, Draft, RowOf, Locked, connection, page
  <1>5. CASE Restart
    BY <1>5, <1>a, LogRestart
  <1>6. CASE \E id \in DOMAIN registry : LogWanted(id)
    BY <1>6, <1>a, LogPage
  <1>7. ~SwapReads /\ ~SwapWrites /\ \A a, b : ~SwapBegins(a, b)
    BY DEF LogInv, NoSwap, SwapReads, SwapWrites, SwapBegins
  <1> QED BY <1>1, <1>2, <1>3, <1>4, <1>5, <1>6, <1>7 DEF Next, Thread, Page

\* As long as the settings page swaps nothing, what main logs under an id is
\* of the sensor the registry has under it, in the middle of a round, with a
\* transaction left open, after a rollback or a restart: a row of write_ow's
\* own transaction is not logged before a page has seen it, and owVect keeps
\* the values of rows whose sensor is the same.
THEOREM LoggedForever ==
  ASSUME MaxSwaps = 0
  PROVE  Spec => []LoggedUnderItsId
  <1> DEFINE Inv == ReadInv /\ LogInv
  <1>1. Init => Inv
    BY InitInv, LogInit
  <1>2. Inv /\ [Next]_vars => Inv'
    <2>1. ASSUME Inv, Next
          PROVE  Inv'
      BY <2>1, LogStep, InvStep
    <2>2. ASSUME Inv, UNCHANGED vars
          PROVE  Inv'
      <3>1. LogInv'
        BY <2>2 DEF vars, connection, scan, page, LogInv, Draft, RowOf, Locked
      <3> QED BY <2>2, <3>1, InvStep
    <2> QED BY <2>1, <2>2
  <1>3. Inv => LoggedUnderItsId
    <2> SUFFICES ASSUME Inv, NEW n \in DOMAIN owVect, Logs(n)
                 PROVE  /\ owVect[n].id \in DOMAIN registry
                        /\ owVect[n].value = registry[owVect[n].id].hex
      BY DEF LoggedUnderItsId
    <2>1. owVect[n].active /\ owVect[n].log /\ owVect[n].valid /\ owVect[n].id = n
      BY DEF Logs, ReadInv, Scan, Vector
    <2>2. n \in DOMAIN registry /\ n \in DOMAIN draft /\ draft[n].hex = registry[n].hex
      BY <2>1 DEF LogInv, RowOf, Draft, ReadInv, Store
    <2> QED BY <2>1, <2>2 DEF LogInv, RowOf
  <1> QED BY <1>1, <1>2, <1>3, PTL DEF Spec

-----------------------------------------------------------------------------
(* The registry changes by whole rounds                                    *)

\* An open transaction changes nothing of an old row but whether it is active,
\* and what it adds are sensors that have no other row and are not logged.
Transaction ==
  /\ \A id \in DOMAIN registry :
       draft[id].hex = registry[id].hex /\ draft[id].log = registry[id].log
  /\ \A id \in DOMAIN draft \ DOMAIN registry :
       /\ draft[id].hex \in Sensors /\ ~draft[id].log
       /\ \A o \in DOMAIN draft : draft[o].hex = draft[id].hex => o = id
  /\ mode \in {"closed", "begun"} => draft = registry

\* What write_ow has written so far is the part of the round it has come to.
Written ==
  pc = "register" =>
    /\ \A id \in DOMAIN draft : draft[id].active => draft[id].hex \in found \ todo
    /\ \A s \in found \ todo : \E id \in DOMAIN draft :
         /\ draft[id].hex = s /\ draft[id].active
         /\ \A o \in DOMAIN draft \ {id} : draft[o].hex = s => ~draft[o].active

RoundInv ==
  /\ Transaction /\ Locked /\ Written
  /\ pc = "deactivate" => todo = found
  /\ swaps \in Nat /\ (swaps > 0 => MaxSwaps > 0) /\ (swap.step # "none" => swaps > 0)

\* SELECT of a sensor's row finds one if there is one.
LEMMA HolderOf ==
  ASSUME NEW t, Table(t), NEW h, Holds(t, h)
  PROVE  Holder(t, h) \in DOMAIN t /\ t[Holder(t, h)].hex = h
  <1> DEFINE S == {id \in DOMAIN t : t[id].hex = h}
  <1>1. S \subseteq Nat /\ S # {}
    BY DenseSet DEF Holds, Table
  <1>2. PICK m \in S : \A o \in S : ~(<<o, m>> \in OpToRel(<, Nat))
    BY <1>1, NatLessThanWellFounded, WFMin
  <1>3. \A o \in S : m <= o
    <2> SUFFICES ASSUME NEW o \in S, o < m PROVE FALSE
      BY <1>1
    <2>1. <<o, m>> \in Nat \X Nat /\ <<o, m>>[1] < <<o, m>>[2]
      BY <1>1
    <2>2. <<o, m>> \in OpToRel(<, Nat)
      BY <2>1, Zenon DEF OpToRel
    <2> QED BY <1>2, <2>2
  <1>4. m \in DOMAIN t /\ t[m].hex = h /\ \A o \in DOMAIN t : t[o].hex = h => m <= o
    BY <1>3
  <1> QED BY <1>4 DEF Holder

\* Register makes one row of the sensor active, and changes no other row.
LEMMA RegisterRows ==
  ASSUME NEW t, Table(t), NEW h \in Sensors
  PROVE  \E id :
           /\ id \in DOMAIN t \/ ~Holds(t, h)
           /\ DOMAIN Register(t, h) = DOMAIN t \union {id}
           /\ Register(t, h)[id].hex = h /\ Register(t, h)[id].active
           /\ \A o \in DOMAIN t \ {id} : Register(t, h)[o] = t[o]
           /\ id \in DOMAIN t => t[id].hex = h /\ Register(t, h)[id].log = t[id].log
           /\ id \notin DOMAIN t => ~Register(t, h)[id].log
  <1>1. CASE Holds(t, h)
    <2> DEFINE id == Holder(t, h)
    <2>1. id \in DOMAIN t /\ t[id].hex = h /\ t[id] \in Row
      BY <1>1, HolderOf DEF Table
    <2>2. Register(t, h) = [t EXCEPT ![id] = [t[id] EXCEPT !.active = TRUE]]
      BY <1>1 DEF Register
    <2> HIDE DEF id
    <2>3. /\ Register(t, h)[id] = [t[id] EXCEPT !.active = TRUE]
          /\ DOMAIN Register(t, h) = DOMAIN t
          /\ \A o \in DOMAIN t \ {id} : Register(t, h)[o] = t[o]
      BY <2>1, <2>2
    <2>4. DOMAIN t = DOMAIN t \union {id}
      BY <2>1
    <2> QED BY <2>1, <2>3, <2>4 DEF Row
  <1>2. CASE ~Holds(t, h)
    <2> DEFINE id == NextId(t)
    <2>1. id \notin DOMAIN t
      BY NextIdOfTable
    <2>2. Register(t, h) = Insert(t, h)
      BY <1>2 DEF Register
    <2>3. /\ DOMAIN Register(t, h) = DOMAIN t \union {id}
          /\ Register(t, h)[id] = [hex |-> h, active |-> TRUE, log |-> FALSE]
          /\ \A o \in DOMAIN t : Register(t, h)[o] = t[o]
      BY <2>1, <2>2 DEF Insert
    <2> HIDE DEF id
    <2> QED BY <1>2, <2>1, <2>3
  <1> QED BY <1>1, <1>2

LEMMA RoundRegister ==
  ASSUME Store, Turn, RoundInv, NEW h \in todo, RegisterOne(h)
  PROVE  RoundInv'
  <1>1. /\ pc = "register" /\ pc' = pc /\ draft' = Register(draft, h) /\ todo' = todo \ {h}
        /\ UNCHANGED <<registry, mode, found, swap, swaps>>
    BY DEF RegisterOne, page
  <1>2. Table(draft) /\ h \in Sensors /\ h \in found /\ todo \subseteq found
    BY DEF Store, Turn
  <1>3. PICK id :
           /\ id \in DOMAIN draft \/ ~Holds(draft, h)
           /\ DOMAIN draft' = DOMAIN draft \union {id}
           /\ draft'[id].hex = h /\ draft'[id].active
           /\ \A o \in DOMAIN draft \ {id} : draft'[o] = draft[o]
           /\ id \in DOMAIN draft => draft[id].hex = h /\ draft'[id].log = draft[id].log
           /\ id \notin DOMAIN draft => ~draft'[id].log
    BY <1>1, <1>2, RegisterRows
  <1>4. \A o \in DOMAIN draft : draft'[o].hex = draft[o].hex /\ draft'[o].log = draft[o].log
    BY <1>3
  <1>5. mode \notin {"closed", "begun"}
    BY <1>1 DEF RoundInv, Locked
  <1>6. Transaction'
    <2>1. DOMAIN registry \subseteq DOMAIN draft
      BY DEF Store
    <2>2. \A o \in DOMAIN registry :
            draft'[o].hex = registry[o].hex /\ draft'[o].log = registry[o].log
      BY <1>4, <2>1 DEF RoundInv, Transaction
    <2>3. ASSUME NEW n \in DOMAIN draft' \ DOMAIN registry
          PROVE  /\ draft'[n].hex \in Sensors /\ ~draft'[n].log
                 /\ \A o \in DOMAIN draft' : draft'[o].hex = draft'[n].hex => o = n
      <3>1. CASE n \in DOMAIN draft
        <4>1. /\ draft[n].hex \in Sensors /\ ~draft[n].log
              /\ \A o \in DOMAIN draft : draft[o].hex = draft[n].hex => o = n
          BY <2>3, <3>1, <1>1 DEF RoundInv, Transaction
        <4>2. id \notin DOMAIN draft => draft[n].hex # h
          BY <1>3, <3>1 DEF Holds
        <4> QED BY <1>3, <1>4, <3>1, <4>1, <4>2
      <3>2. CASE n \notin DOMAIN draft
        <4>1. n = id /\ \A o \in DOMAIN draft : draft[o].hex # h
          BY <1>3, <2>3, <3>2 DEF Holds
        <4> QED BY <1>2, <1>3, <1>4, <3>2, <4>1
      <3> QED BY <3>1, <3>2
    <2> QED BY <1>1, <1>5, <2>2, <2>3 DEF Transaction
  <1>7. Written'
    <2>a. /\ \A o \in DOMAIN draft : draft[o].active => draft[o].hex \in found \ todo
          /\ \A s \in found \ todo : \E o \in DOMAIN draft :
               /\ draft[o].hex = s /\ draft[o].active
               /\ \A q \in DOMAIN draft \ {o} : draft[q].hex = s => ~draft[q].active
      BY <1>1 DEF RoundInv, Written
    <2>1. ASSUME NEW o \in DOMAIN draft', draft'[o].active
          PROVE  draft'[o].hex \in found \ (todo \ {h})
      BY <1>2, <1>3, <2>a, <2>1
    <2>2. ASSUME NEW s \in found \ (todo \ {h})
          PROVE  \E o \in DOMAIN draft' :
                   /\ draft'[o].hex = s /\ draft'[o].active
                   /\ \A q \in DOMAIN draft' \ {o} : draft'[q].hex = s => ~draft'[q].active
      <3>1. CASE s = h
        <4>1. \A q \in DOMAIN draft' \ {id} : draft'[q].hex = h => ~draft'[q].active
          BY <1>3, <2>a
        <4> QED BY <1>3, <3>1, <4>1
      <3>2. CASE s # h
        <4>1. PICK o \in DOMAIN draft :
                /\ draft[o].hex = s /\ draft[o].active
                /\ \A q \in DOMAIN draft \ {o} : draft[q].hex = s => ~draft[q].active
          BY <2>2, <2>a, <3>2
        <4>2. o # id
          BY <1>3, <3>2, <4>1
        <4> QED BY <1>3, <3>2, <4>1, <4>2
      <3> QED BY <3>1, <3>2
    <2> QED BY <1>1, <2>1, <2>2 DEF Written
  <1> QED BY <1>1, <1>5, <1>6, <1>7 DEF RoundInv, Locked

LEMMA RoundWrite ==
  ASSUME Store, Turn, RoundInv, Search \/ Deactivate \/ DeactivateFails
         \/ (\E h \in todo : RegisterOne(h) \/ RegisterFails(h)) \/ End \/ EndFails
  PROVE  RoundInv'
  <1>a. Table(draft) /\ DOMAIN registry \subseteq DOMAIN draft
    BY DEF Store
  <1>1. CASE Search
    BY <1>1 DEF Search, RoundInv, Transaction, Locked, Written, connection, page
  <1>2. CASE Deactivate
    <2>1. /\ draft' = AllInactive(draft) /\ mode' \in {"pending", "reserved"}
          /\ pc = "deactivate" /\ pc' = "register"
          /\ UNCHANGED <<registry, found, todo, swap, swaps>>
      BY <1>2 DEF Deactivate, search, page
    <2>2. /\ DOMAIN draft' = DOMAIN draft
          /\ \A id \in DOMAIN draft : /\ draft'[id].hex = draft[id].hex
                                      /\ draft'[id].log = draft[id].log /\ ~draft'[id].active
      BY <1>a, <2>1 DEF AllInactive, Table, Row
    <2>3. Transaction'
      BY <1>a, <2>1, <2>2 DEF RoundInv, Transaction
    <2>4. Written'
      BY <2>1, <2>2 DEF RoundInv, Written
    <2> QED BY <2>1, <2>3, <2>4 DEF RoundInv, Locked
  <1>3. CASE DeactivateFails
    BY <1>3 DEF DeactivateFails, Rollback, RoundInv, Transaction, Locked, Written, page
  <1>4. ASSUME NEW h \in todo, RegisterFails(h) PROVE RoundInv'
    BY <1>4 DEF RegisterFails, Rollback, RoundInv, Transaction, Locked, Written, page
  <1>5. CASE End \/ EndFails
    BY <1>5 DEF End, EndFails, RoundInv, Transaction, Locked, Written, page
  <1> QED BY <1>1, <1>2, <1>3, <1>4, <1>5, RoundRegister

LEMMA RoundPage ==
  ASSUME Store, RoundInv, Page
  PROVE  RoundInv'
  <1>1. ASSUME NEW a, NEW b, SwapBegins(a, b) PROVE RoundInv'
    <2>1. /\ UNCHANGED <<registry, mode, draft, pc, found, todo>> /\ swaps' = swaps + 1
          /\ swaps < MaxSwaps
      BY <1>1 DEF SwapBegins, connection, search
    <2>2. swaps' \in Nat /\ swaps' > 0 /\ MaxSwaps > 0
      BY <2>1, BoundsAssumption DEF RoundInv
    <2> QED BY <2>1, <2>2 DEF RoundInv, Transaction, Locked, Written
  <1>2. ASSUME SwapReads \/ SwapWrites \/ \E id \in DOMAIN registry : LogWanted(id)
        PROVE  RoundInv'
    <2>1. /\ UNCHANGED <<mode, pc, found, todo, swaps>>
          /\ swap'.step # "none" => swap.step # "none"
      BY <1>2 DEF SwapReads, SwapWrites, LogWanted, connection, search, page
    <2>2. \/ UNCHANGED <<registry, draft>>
          \/ draft' = registry' /\ mode \in {"closed", "begun"}
      BY <1>2 DEF SwapReads, SwapWrites, LogWanted, PageWrites, Unlocked, connection
    <2>3. CASE UNCHANGED <<registry, draft>>
      BY <2>1, <2>3 DEF RoundInv, Transaction, Locked, Written
    <2>4. CASE draft' = registry' /\ mode \in {"closed", "begun"}
      <3>1. pc # "register"
        BY <2>4 DEF RoundInv, Locked
      <3> QED BY <2>1, <2>4, <3>1 DEF RoundInv, Transaction, Locked, Written
    <2> QED BY <2>2, <2>3, <2>4
  <1> QED BY <1>1, <1>2 DEF Page

LEMMA RoundStep == ReadInv /\ RoundInv /\ [Next]_vars => RoundInv'
  <1> SUFFICES ASSUME ReadInv, RoundInv, [Next]_vars PROVE RoundInv'
    OBVIOUS
  <1>a. Store /\ Turn
    BY DEF ReadInv
  <1>1. CASE Build \/ BuildCountFails \/ BuildSelectFails
    BY <1>1 DEF Build, BuildCountFails, BuildSelectFails, BeginReading, RoundInv, Transaction,
                Locked, Written, page
  <1>2. CASE (\E value \in Sensors \union {None, Bad} : Read(value)) \/ Skip \/ AllRead
    BY <1>2 DEF Read, Skip, AllRead, RoundInv, Transaction, Locked, Written, connection, search, page
  <1>3. CASE Restart
    BY <1>3 DEF Restart, Rollback, RoundInv, Transaction, Locked, Written, page
  <1>4. CASE UNCHANGED vars
    BY <1>4 DEF vars, RoundInv, Transaction, Locked, Written, connection, search, page
  <1> QED BY <1>a, <1>1, <1>2, <1>3, <1>4, RoundWrite, RoundPage DEF Next, Thread

LEMMA RoundInit == Init => RoundInv
  BY DEF Init, RoundInv, Transaction, Locked, Written, NoSwap

\* END makes the whole round visible.
LEMMA EndRefines ==
  ASSUME Store, RoundInv, End
  PROVE  Registry!Round
  <1>1. /\ pc = "register" /\ todo = {} /\ registry' = draft /\ found' = found
        /\ DOMAIN registry \subseteq DOMAIN draft /\ Table(registry) /\ Table(draft)
    BY DEF End, search, Store
  <1>2. ASSUME NEW id \in DOMAIN registry
        PROVE  draft[id] = [registry[id] EXCEPT !.active = draft[id].active]
    <2>1. registry[id] \in Row /\ draft[id] \in Row
      BY <1>1, <1>2 DEF Table
    <2>2. draft[id].hex = registry[id].hex /\ draft[id].log = registry[id].log
      BY <1>2 DEF RoundInv, Transaction
    <2> QED BY <2>1, <2>2 DEF Row
  <1>3. /\ \A id \in DOMAIN draft : draft[id].active => draft[id].hex \in found
        /\ \A s \in found : \E id \in DOMAIN draft :
             /\ draft[id].hex = s /\ draft[id].active
             /\ \A o \in DOMAIN draft \ {id} : draft[o].hex = s => ~draft[o].active
    BY <1>1 DEF RoundInv, Written
  <1> QED BY <1>1, <1>2, <1>3 DEF Registry!Round, RoundInv, Transaction

\* Only the page writes the registry between two rounds, row by row.
LEMMA PageRefines ==
  ASSUME Store, RoundInv, Page
  PROVE  Registry!RegistryNext \/ UNCHANGED <<registry, found>>
  <1>1. CASE (\E a, b : SwapBegins(a, b)) \/ SwapReads
    BY <1>1 DEF SwapBegins, SwapReads, search
  <1>2. ASSUME NEW id \in DOMAIN registry, LogWanted(id)
        PROVE  Registry!WantLog(id)
    <2>1. /\ registry' = [registry EXCEPT ![id] = [registry[id] EXCEPT !.log = TRUE]]
          /\ found' = found
      BY <1>2 DEF LogWanted, PageWrites, search
    <2> QED BY <2>1 DEF Registry!WantLog
  <1>3. ASSUME SwapWrites
        PROVE  \/ UNCHANGED <<registry, found>>
               \/ MaxSwaps > 0 /\ \E id \in DOMAIN registry : Registry!PageWrite(id)
    <2>1. /\ found' = found /\ swap.step # "none"
          /\ \/ registry' = registry
             \/ \E id \in {swap.a, swap.b} : \E r : registry' = [registry EXCEPT ![id] = r]
      BY <1>3 DEF SwapWrites, PageWrites, search
    <2>2. MaxSwaps > 0 /\ {swap.a, swap.b} \subseteq DOMAIN registry
      BY <2>1 DEF RoundInv, Store
    <2> QED BY <2>1, <2>2 DEF Registry!PageWrite
  <1> QED BY <1>1, <1>2, <1>3 DEF Page, Registry!RegistryNext

LEMMA StepRefines ==
  ASSUME ReadInv, RoundInv, [Next]_vars
  PROVE  [Registry!RegistryNext]_<<registry, found>>
  <1>a. Store
    BY DEF ReadInv
  <1>1. CASE Search \/ Build \/ BuildCountFails \/ BuildSelectFails \/ Restart
    <2>1. found' \in SUBSET Sensors /\ registry' = registry
      BY <1>1 DEF Search, Build, BuildCountFails, BuildSelectFails, BeginReading, Restart
    <2> QED BY <2>1 DEF Registry!Search, Registry!RegistryNext
  <1>2. CASE End
    BY <1>a, <1>2, EndRefines DEF Registry!RegistryNext
  <1>3. CASE \/ Deactivate \/ DeactivateFails \/ EndFails \/ Skip \/ AllRead
             \/ \E h \in todo : RegisterOne(h) \/ RegisterFails(h)
             \/ \E value \in Sensors \union {None, Bad} : Read(value)
    BY <1>3 DEF Deactivate, DeactivateFails, EndFails, Skip, AllRead, RegisterOne, RegisterFails,
                Read, search
  <1>4. CASE Page
    BY <1>a, <1>4, PageRefines
  <1>5. CASE UNCHANGED vars
    BY <1>5 DEF vars, search
  <1> QED BY <1>1, <1>2, <1>3, <1>4, <1>5 DEF Next, Thread

\* The settings page sees whole rounds only, for any sensors, table, failed
\* calls, restarts and swaps: the daemon implements the abstract registry.
\* A round's transaction may stay open over many rounds that fail.
THEOREM WholeRoundsForever == Spec => WholeRounds
  <1>1. Init => Registry!RegistryInit
    BY RegistryAssumption DEF Init, Registry!RegistryInit
  <1> QED BY <1>1, RoundInit, RoundStep, StepRefines, InvAlways, PTL
          DEF Spec, WholeRounds, Registry!RegistrySpec

=============================================================================
