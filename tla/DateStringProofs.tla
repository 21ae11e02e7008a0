-------------------------- MODULE DateStringProofs -------------------------
(***************************************************************************)
(* What the races on localtime's struct can do, for clocks of any length:  *)
(* the invariant says how far the minute a field is of lies from the       *)
(* thread that reads it. Time of day and date each are of one minute, the  *)
(* one a caller of localtime has asked for, and no caller is more than a   *)
(* minute behind the clock when it asks.                                   *)
(***************************************************************************)
EXTENDS DateString, TLAPS

CallLabels == {"idle", "named", "midnight", "shifted", "mday", "mon", "use"}
PassLabels == {"fill", "test", "store", "hour", "min", "minute"}

Shape ==
  /\ clock \in Int /\ lastRow \in Int /\ writeMin \in Int
  /\ tm \in [min : Int, hour : Int, mday : Int, mon : Int]
  /\ pc \in [Threads -> CallLabels \union PassLabels]
  /\ pc["io"] \notin PassLabels \union {"shifted"}
  /\ at \in [Threads -> Int] /\ began \in [Threads -> Int]
  /\ name \in [Threads -> [mday : Int, mon : Int]]
  /\ args \in [min : Int, hour : Int]
  /\ libc # Nobody => libc \in Threads /\ pc[libc] \in {"fill", "named", "shifted"}

\* How far a thread may be behind the clock, and its time_t behind itself.
Spans ==
  /\ began["main"] \in clock - 1 .. clock
  /\ pc["main"] \in PassLabels => at["main"] = began["main"]
  /\ pc["main"] \in {"named", "midnight"} => at["main"] \in began["main"] .. clock
  /\ pc["main"] = "shifted" => at["main"] \in began["main"] - 1 .. clock
  /\ pc["io"] # "idle" => began["io"] \in clock - 1 .. clock /\ at["io"] = began["io"]

\* The time of day in the struct is of a minute next to main's sample.
TimeNear ==
  pc["main"] \in {"test", "store", "hour", "min"} =>
    \E t \in began["main"] - 1 .. clock : tm.min = MinOf(t) /\ tm.hour = HourOf(t)

\* The date in the struct is of a minute no more than two before the call.
DateNear(th) ==
  pc[th] \in {"midnight", "shifted", "mday", "mon"} =>
    \E t \in began[th] - 2 .. clock : tm.mday = Date(DayOf(t)).mday /\ tm.mon = Date(DayOf(t)).mon

NameNear(th) ==
  /\ pc[th] \in {"mon", "use"} =>
       \E t \in began[th] - 2 .. clock : name[th].mday = Date(DayOf(t)).mday
  /\ pc[th] = "use" => \E t \in began[th] - 2 .. clock : name[th].mon = Date(DayOf(t)).mon

ArgsNear ==
  /\ pc["main"] \in {"min", "minute"} =>
       \E t \in began["main"] - 1 .. clock : args.hour = HourOf(t)
  /\ pc["main"] = "minute" => \E t \in began["main"] - 1 .. clock : args.min = MinOf(t)

RaceInv ==
  /\ Shape /\ Spans /\ TimeNear /\ ArgsNear
  /\ \A th \in Threads : DateNear(th) /\ NameNear(th)

-----------------------------------------------------------------------------
LEMMA CallPlaces ==
  /\ DOMAIN After = {"fill", "named", "shifted"}
  /\ After["fill"] = "test" /\ After["named"] = "midnight" /\ After["shifted"] = "mday"
  BY DEF After

LEMMA BrokenType ==
  ASSUME NEW t \in Int
  PROVE  /\ Broken(t) \in [min : Int, hour : Int, mday : Int, mon : Int]
         /\ Broken(t).min = MinOf(t) /\ Broken(t).hour = HourOf(t)
         /\ Broken(t).mday = Date(DayOf(t)).mday /\ Broken(t).mon = Date(DayOf(t)).mon
         /\ MinOf(t) \in Int /\ HourOf(t) \in Int
  <1>1. Minutes \in Nat \ {0}
    BY TimeAssumption DEF Minutes
  <1>2. t \div MinutesPerHour \in Int /\ t \div Minutes \in Int
    BY <1>1, TimeAssumption
  <1>3. MinOf(t) \in Int /\ HourOf(t) \in Int /\ DayOf(t) \in Int
    BY <1>1, <1>2, TimeAssumption DEF MinOf, HourOf, DayOf
  <1>4. DayOf(t) % DaysPerMonth \in Int /\ DayOf(t) \div DaysPerMonth \in Int
    BY <1>3, TimeAssumption
  <1> QED BY <1>3, <1>4 DEF Broken, Date

LEMMA RaceInit == Init => RaceInv
  <1> SUFFICES ASSUME Init PROVE RaceInv
    OBVIOUS
  <1>1. clock \in Int
    BY TimeAssumption DEF Init, Minutes
  <1>2. Shape
    BY <1>1, BrokenType DEF Init, Shape, Threads, CallLabels, PassLabels, NoDate
  <1> QED BY <1>1, <1>2 DEF Init, RaceInv, Spans, TimeNear, ArgsNear, DateNear, NameNear, Threads,
                            PassLabels

\* the clock goes on: what lies in a span before still does
LEMMA RaceTick == RaceInv /\ Tick => RaceInv'
  <1> SUFFICES ASSUME RaceInv, Tick PROVE RaceInv'
    OBVIOUS
  <1>1. /\ clock \in Int /\ clock' = clock + 1 /\ began["main"] = clock
        /\ pc["io"] = "idle" \/ began["io"] = clock
        /\ UNCHANGED <<tm, libc, pc, at, name, writeMin, args, began, lastRow>>
    BY DEF Tick, RaceInv, Shape
  <1>2. Shape'
    BY <1>1 DEF RaceInv, Shape
  <1>3. Spans'
    BY <1>1 DEF RaceInv, Spans, Shape, Threads
  <1>4. \A x \in Int : \A t \in x .. clock : t \in x .. clock'
    BY <1>1
  <1>5. began["main"] - 1 \in Int /\ \A th \in Threads : began[th] - 2 \in Int
    BY DEF RaceInv, Shape, Threads
  <1>6. TimeNear' /\ ArgsNear'
    BY <1>1, <1>4, <1>5 DEF RaceInv, TimeNear, ArgsNear
  <1>7. ASSUME NEW th \in Threads PROVE DateNear(th)' /\ NameNear(th)'
    BY <1>1, <1>4, <1>5 DEF RaceInv, DateNear, NameNear
  <1> QED BY <1>2, <1>3, <1>6, <1>7 DEF RaceInv

\* A thread inside localtime has asked for a minute near its call's begin.
LEMMA AskedNear ==
  ASSUME RaceInv, NEW th \in Threads, pc[th] \in {"fill", "named", "shifted"}
  PROVE  /\ at[th] \in Int
         /\ \A o \in Threads : at[th] \in began[o] - 2 .. clock \/ pc[o] = "idle"
         /\ pc["main"] \in {"test", "store", "hour", "min"} =>
              at[th] \in began["main"] - 1 .. clock
         /\ pc[th] = "fill" => th = "main" /\ at[th] \in began["main"] - 1 .. clock
  <1>1. th = "main" \/ th = "io"
    BY DEF Threads
  <1>2. /\ clock \in Int /\ at["main"] \in Int /\ at["io"] \in Int
        /\ began["main"] \in Int /\ began["io"] \in Int
    BY DEF RaceInv, Shape, Threads
  <1>3. CASE th = "main"
    BY <1>2, <1>3 DEF RaceInv, Shape, Spans, Threads, PassLabels
  <1>4. CASE th = "io"
    BY <1>2, <1>4 DEF RaceInv, Shape, Spans, Threads, PassLabels
  <1> QED BY <1>1, <1>3, <1>4

LEMMA RaceLibc ==
  ASSUME RaceInv, NEW th \in Threads, Enters(th) \/ Leaves(th)
  PROVE  RaceInv'
  <1>a. /\ Shape /\ Spans /\ TimeNear /\ ArgsNear /\ Nobody \notin Threads
        /\ \A o \in Threads : DateNear(o) /\ NameNear(o)
    BY NobodyAssumption DEF RaceInv
  <1>1. pc[th] \in {"fill", "named", "shifted"}
    BY <1>a, CallPlaces DEF Enters, Leaves, Shape
  <1>2. /\ at[th] \in Int
        /\ \A o \in Threads : at[th] \in began[o] - 2 .. clock \/ pc[o] = "idle"
        /\ pc["main"] \in {"test", "store", "hour", "min"} =>
             at[th] \in began["main"] - 1 .. clock
        /\ pc[th] = "fill" => th = "main" /\ at[th] \in began["main"] - 1 .. clock
    BY <1>1, AskedNear
  <1>3. UNCHANGED <<clock, at, name, writeMin, args, began, lastRow>>
    BY DEF Enters, Leaves
  <1>4. CASE Enters(th)
    <2>1. /\ tm' = [tm EXCEPT !.min = MinOf(at[th]), !.hour = HourOf(at[th])]
          /\ libc' = th /\ pc' = pc
      BY <1>4 DEF Enters
    <2>2. /\ tm' \in [min : Int, hour : Int, mday : Int, mon : Int]
          /\ tm'.min = MinOf(at[th]) /\ tm'.hour = HourOf(at[th])
          /\ tm'.mday = tm.mday /\ tm'.mon = tm.mon
      BY <1>2, <1>a, <2>1, BrokenType DEF Shape
    <2>3. Shape'
      BY <1>a, <1>1, <1>3, <2>1, <2>2 DEF Shape
    <2>4. Spans' /\ ArgsNear' /\ \A o \in Threads : DateNear(o)' /\ NameNear(o)'
      BY <1>a, <1>3, <2>1, <2>2 DEF Spans, ArgsNear, DateNear, NameNear
    <2>5. TimeNear'
      BY <1>2, <1>3, <2>1, <2>2 DEF TimeNear
    <2> QED BY <2>3, <2>4, <2>5 DEF RaceInv
  <1>5. CASE Leaves(th)
    <2>1. tm' = Broken(at[th]) /\ libc' = Nobody /\ pc' = [pc EXCEPT ![th] = After[pc[th]]]
      BY <1>5 DEF Leaves, Goto
    <2>2. /\ tm' \in [min : Int, hour : Int, mday : Int, mon : Int]
          /\ tm'.min = MinOf(at[th]) /\ tm'.hour = HourOf(at[th])
          /\ tm'.mday = Date(DayOf(at[th])).mday /\ tm'.mon = Date(DayOf(at[th])).mon
      BY <1>2, <2>1, BrokenType
    <2>3. /\ pc[th] = "fill" => pc'[th] = "test"
          /\ pc[th] = "named" => pc'[th] = "midnight"
          /\ pc[th] = "shifted" => pc'[th] = "mday"
          /\ \A o \in Threads \ {th} : pc'[o] = pc[o]
      BY <1>a, <2>1, CallPlaces DEF Shape
    <2>4. Shape'
      BY <1>a, <1>1, <1>3, <2>1, <2>2, <2>3 DEF Shape, CallLabels, PassLabels, Threads
    <2>5. Spans'
      BY <1>a, <1>1, <1>3, <2>3 DEF Shape, Spans, PassLabels, Threads
    <2>6. TimeNear'
      BY <1>1, <1>2, <1>3, <2>2, <2>3 DEF TimeNear, Threads
    <2>7. ArgsNear'
      BY <1>a, <1>1, <1>3, <2>3 DEF ArgsNear, Threads
    <2>8. ASSUME NEW o \in Threads PROVE DateNear(o)'
      <3>1. pc'[o] # "idle" => pc[o] # "idle"
        BY <1>1, <2>3
      <3> QED BY <1>2, <1>3, <2>2, <3>1 DEF DateNear
    <2>9. ASSUME NEW o \in Threads PROVE NameNear(o)'
      BY <1>a, <1>1, <1>3, <2>3 DEF NameNear
    <2> QED BY <2>4, <2>5, <2>6, <2>7, <2>8, <2>9 DEF RaceInv
  <1> QED BY <1>4, <1>5

LEMMA RaceNaming ==
  ASSUME RaceInv, NEW th \in Threads,
         TestMidnight(th) \/ ReadDay(th) \/ ReadMonth(th) \/ Uses(th)
  PROVE  RaceInv'
  <1>a. /\ Shape /\ Spans /\ TimeNear /\ ArgsNear
        /\ \A o \in Threads : DateNear(o) /\ NameNear(o)
    BY DEF RaceInv
  <1>b. /\ th \in {"main", "io"} /\ clock \in Int /\ pc[th] \in CallLabels
        /\ UNCHANGED <<clock, tm, libc, writeMin, args, began, lastRow>>
        /\ \A o \in Threads : at[o] \in Int /\ began[o] \in Int
    BY <1>a DEF TestMidnight, ReadDay, ReadMonth, Uses, Shape, CallLabels, Threads
  <1>1. CASE TestMidnight(th)
    <2>1. /\ pc[th] = "midnight" /\ name' = name
          /\ \/ th = "main" /\ at' = [at EXCEPT ![th] = @ - 1] /\ pc' = [pc EXCEPT ![th] = "shifted"]
             \/ at' = at /\ pc' = [pc EXCEPT ![th] = "mday"]
      BY <1>1 DEF TestMidnight, Goto
    <2>2. /\ pc'[th] \in {"shifted", "mday"} /\ (pc'[th] = "shifted" => th = "main")
          /\ \A o \in Threads \ {th} : pc'[o] = pc[o] /\ at'[o] = at[o]
          /\ at'[th] = at[th] \/ (th = "main" /\ at'[th] = at[th] - 1)
          /\ pc'[th] = "mday" => at'[th] = at[th]
      BY <1>a, <2>1 DEF Shape
    <2>3. Shape'
      <3>1. at' \in [Threads -> Int] /\ pc' \in [Threads -> CallLabels \union PassLabels]
        BY <1>a, <1>b, <2>1 DEF Shape, CallLabels
      <3>2. /\ pc'["io"] \notin PassLabels \union {"shifted"}
            /\ libc' # Nobody => libc' \in Threads /\ pc'[libc'] \in {"fill", "named", "shifted"}
        BY <1>a, <1>b, <2>1, <2>2 DEF Shape, PassLabels, Threads
      <3> QED BY <1>a, <1>b, <2>1, <3>1, <3>2 DEF Shape
    <2>4. Spans'
      <3>1. CASE th = "main"
        BY <1>a, <1>b, <2>1, <2>2, <3>1 DEF Spans, PassLabels, Threads
      <3>2. CASE th = "io"
        BY <1>a, <1>b, <2>1, <2>2, <3>2 DEF Spans, PassLabels, Threads
      <3> QED BY <1>b, <3>1, <3>2
    <2>5. TimeNear' /\ ArgsNear'
      BY <1>a, <1>b, <2>2 DEF TimeNear, ArgsNear, Threads
    <2>6. ASSUME NEW o \in Threads PROVE DateNear(o)' /\ NameNear(o)'
      BY <1>a, <1>b, <2>1, <2>2 DEF DateNear, NameNear
    <2> QED BY <2>3, <2>4, <2>5, <2>6 DEF RaceInv
  <1>2. CASE ReadDay(th)
    <2>1. /\ pc[th] = "mday" /\ pc' = [pc EXCEPT ![th] = "mon"] /\ at' = at
          /\ name' = [name EXCEPT ![th] = [mday |-> tm.mday, mon |-> -1]]
      BY <1>2 DEF ReadDay, Goto
    <2>2. /\ pc'[th] = "mon" /\ name'[th].mday = tm.mday
          /\ \A o \in Threads \ {th} : pc'[o] = pc[o] /\ name'[o] = name[o]
      BY <1>a, <2>1 DEF Shape
    <2>3. Shape'
      BY <1>a, <1>b, <2>1, <2>2 DEF Shape, CallLabels, PassLabels, Threads
    <2>4. Spans'
      BY <1>a, <1>b, <2>1, <2>2 DEF Spans, PassLabels, Threads
    <2>5. TimeNear' /\ ArgsNear'
      BY <1>a, <1>b, <2>2 DEF TimeNear, ArgsNear, Threads
    <2>6. ASSUME NEW o \in Threads PROVE DateNear(o)' /\ NameNear(o)'
      BY <1>a, <1>b, <2>1, <2>2 DEF DateNear, NameNear
    <2> QED BY <2>3, <2>4, <2>5, <2>6 DEF RaceInv
  <1>3. CASE ReadMonth(th)
    <2>1. /\ pc[th] = "mon" /\ pc' = [pc EXCEPT ![th] = "use"] /\ at' = at
          /\ name' = [name EXCEPT ![th].mon = tm.mon]
      BY <1>3 DEF ReadMonth, Goto
    <2>2. /\ pc'[th] = "use" /\ name'[th].mday = name[th].mday /\ name'[th].mon = tm.mon
          /\ \A o \in Threads \ {th} : pc'[o] = pc[o] /\ name'[o] = name[o]
      BY <1>a, <2>1 DEF Shape
    <2>3. Shape'
      BY <1>a, <1>b, <2>1, <2>2 DEF Shape, CallLabels, PassLabels, Threads
    <2>4. Spans'
      BY <1>a, <1>b, <2>1, <2>2 DEF Spans, PassLabels, Threads
    <2>5. TimeNear' /\ ArgsNear'
      BY <1>a, <1>b, <2>2 DEF TimeNear, ArgsNear, Threads
    <2>6. ASSUME NEW o \in Threads PROVE DateNear(o)' /\ NameNear(o)'
      BY <1>a, <1>b, <2>1, <2>2 DEF DateNear, NameNear
    <2> QED BY <2>3, <2>4, <2>5, <2>6 DEF RaceInv
  <1>4. CASE Uses(th)
    <2>1. pc[th] = "use" /\ pc' = [pc EXCEPT ![th] = "idle"] /\ at' = at /\ name' = name
      BY <1>4 DEF Uses, Goto
    <2>2. pc'[th] = "idle" /\ \A o \in Threads \ {th} : pc'[o] = pc[o]
      BY <1>a, <2>1 DEF Shape
    <2>3. Shape'
      BY <1>a, <1>b, <2>1, <2>2 DEF Shape, CallLabels, PassLabels, Threads
    <2>4. Spans'
      BY <1>a, <1>b, <2>1, <2>2 DEF Spans, PassLabels, Threads
    <2>5. TimeNear' /\ ArgsNear'
      BY <1>a, <1>b, <2>2 DEF TimeNear, ArgsNear, Threads
    <2>6. ASSUME NEW o \in Threads PROVE DateNear(o)' /\ NameNear(o)'
      BY <1>a, <1>b, <2>1, <2>2 DEF DateNear, NameNear
    <2> QED BY <2>3, <2>4, <2>5, <2>6 DEF RaceInv
  <1> QED BY <1>1, <1>2, <1>3, <1>4

\* a call or a pass begins, or io.minute is done and asks for its name
LEMMA RaceBegins ==
  ASSUME RaceInv, EdgeFound \/ Sample \/ MinuteDone
  PROVE  RaceInv'
  <1>a. /\ Shape /\ Spans /\ TimeNear /\ ArgsNear /\ clock \in Int
        /\ \A o \in Threads : DateNear(o) /\ NameNear(o)
    BY DEF RaceInv, Shape
  <1>b. "main" \in Threads /\ "io" \in Threads
    BY DEF Threads
  <1> DEFINE Begins(th) ==
               /\ (th = "io" /\ EdgeFound) \/ (th = "main" /\ (Sample \/ MinuteDone))
               /\ UNCHANGED <<clock, tm, libc, name, writeMin, args, lastRow>>
               /\ at' = [at EXCEPT ![th] = clock]
  <1>c. Begins("io") \/ Begins("main")
    <2>1. CASE EdgeFound
      BY <2>1 DEF EdgeFound, AsksName
    <2>2. CASE Sample
      BY <2>2 DEF Sample
    <2>3. CASE MinuteDone
      BY <2>3 DEF MinuteDone, AsksName
    <2> QED BY <2>1, <2>2, <2>3
  <1>1. PICK th \in Threads : Begins(th)
    BY <1>b, <1>c
  <1>2. /\ pc[th] \in {"idle", "minute"} /\ pc'[th] \in {"fill", "named"}
        /\ pc'[th] = "fill" => th = "main"
        /\ pc' = [pc EXCEPT ![th] = pc'[th]]
        /\ \A o \in Threads \ {th} : pc'[o] = pc[o]
    BY <1>a, <1>1 DEF EdgeFound, Sample, MinuteDone, AsksName, Goto, Shape
  <1>3. /\ began' \in [Threads -> Int]
        /\ began'[th] = clock \/ (th = "main" /\ pc["main"] = "minute" /\ began' = began)
        /\ \A o \in Threads \ {th} : began'[o] = began[o]
    BY <1>a, <1>1 DEF EdgeFound, Sample, MinuteDone, Shape
  <1>4. Shape'
    <2>1. at' \in [Threads -> Int] /\ pc' \in [Threads -> CallLabels \union PassLabels]
      BY <1>a, <1>1, <1>2 DEF Shape, CallLabels, PassLabels
    <2>2. /\ pc'["io"] \notin PassLabels \union {"shifted"}
          /\ libc' # Nobody => libc' \in Threads /\ pc'[libc'] \in {"fill", "named", "shifted"}
      BY <1>a, <1>1, <1>2 DEF Shape, PassLabels, Threads
    <2> QED BY <1>a, <1>1, <1>3, <2>1, <2>2 DEF Shape
  <1>5. Spans'
    <2>1. at'[th] = clock /\ \A o \in Threads \ {th} : at'[o] = at[o]
      BY <1>a, <1>1 DEF Shape
    <2>2. CASE th = "io"
      BY <1>a, <1>1, <1>2, <1>3, <2>1, <2>2 DEF Spans, PassLabels, Threads, EdgeFound
    <2>3. CASE th = "main" /\ Sample
      <3>1. pc'["main"] = "fill" /\ began'["main"] = clock
        BY <1>a, <2>3 DEF Sample, Goto, Shape, Threads
      <3> QED BY <1>a, <1>1, <1>2, <1>3, <2>1, <2>3, <3>1 DEF Spans, PassLabels, Threads
    <2>4. CASE th = "main" /\ MinuteDone
      <3>1. pc'["main"] = "named" /\ began' = began
        BY <1>a, <2>4 DEF MinuteDone, AsksName, Goto, Shape, Threads
      <3>2. began["main"] \in Int
        BY <1>a DEF Shape, Threads
      <3> QED BY <1>a, <1>1, <1>2, <2>1, <2>4, <3>1, <3>2 DEF Spans, PassLabels, Threads
    <2> QED BY <1>1, <2>2, <2>3, <2>4
  <1>6. TimeNear' /\ ArgsNear'
    BY <1>a, <1>1, <1>2, <1>3 DEF TimeNear, ArgsNear, Threads
  <1>7. ASSUME NEW o \in Threads PROVE DateNear(o)' /\ NameNear(o)'
    BY <1>a, <1>1, <1>2, <1>3 DEF DateNear, NameNear
  <1> QED BY <1>4, <1>5, <1>6, <1>7 DEF RaceInv

\* main reads the minute and the hour through its pointer
LEMMA RaceReads ==
  ASSUME RaceInv, TestMinute \/ StoreMinute \/ ReadHour \/ ReadMin
  PROVE  RaceInv'
  <1>a. /\ Shape /\ Spans /\ TimeNear /\ ArgsNear /\ clock \in Int /\ "main" \in Threads
        /\ \A o \in Threads : DateNear(o) /\ NameNear(o)
    BY DEF RaceInv, Shape, Threads
  <1>1. UNCHANGED <<clock, tm, libc, at, name, began>>
    BY DEF TestMinute, StoreMinute, ReadHour, ReadMin
  <1>2. /\ pc["main"] \in {"test", "store", "hour", "min"}
        /\ pc'["main"] \in {"store", "idle", "hour", "min", "minute"}
        /\ pc'["main"] \in {"min", "minute"} => pc["main"] \in {"hour", "min"}
        /\ pc' = [pc EXCEPT !["main"] = pc'["main"]]
        /\ \A o \in Threads \ {"main"} : pc'[o] = pc[o]
    BY <1>a DEF TestMinute, StoreMinute, ReadHour, ReadMin, Goto, Shape
  <1>3. /\ writeMin' \in Int /\ lastRow' \in Int /\ args' \in [min : Int, hour : Int]
    BY <1>a DEF TestMinute, StoreMinute, ReadHour, ReadMin, Shape
  <1>4. Shape'
    <2>1. pc' \in [Threads -> CallLabels \union PassLabels]
      BY <1>a, <1>2 DEF Shape, CallLabels, PassLabels
    <2>2. /\ pc'["io"] \notin PassLabels \union {"shifted"}
          /\ libc' # Nobody => libc' \in Threads /\ pc'[libc'] \in {"fill", "named", "shifted"}
      BY <1>a, <1>1, <1>2 DEF Shape, PassLabels, Threads
    <2> QED BY <1>a, <1>1, <1>3, <2>1, <2>2 DEF Shape
  <1>5. Spans'
    BY <1>a, <1>1, <1>2 DEF Spans, PassLabels, Threads
  <1>6. TimeNear'
    BY <1>a, <1>1, <1>2 DEF TimeNear
  <1>7. ArgsNear'
    <2>1. CASE TestMinute \/ StoreMinute
      BY <1>a, <2>1 DEF ArgsNear, TestMinute, StoreMinute, Goto, Shape
    <2>2. CASE ReadHour
      <3>1. pc'["main"] = "min" /\ args'.hour = tm.hour /\ pc["main"] = "hour"
        BY <1>a, <2>2 DEF ReadHour, Goto, Shape
      <3> QED BY <1>a, <1>1, <3>1 DEF ArgsNear, TimeNear
    <2>3. CASE ReadMin
      <3>1. /\ pc'["main"] = "minute" /\ args'.hour = args.hour /\ args'.min = tm.min
            /\ pc["main"] = "min"
        BY <1>a, <2>3 DEF ReadMin, Goto, Shape
      <3> QED BY <1>a, <1>1, <3>1 DEF ArgsNear, TimeNear
    <2> QED BY <2>1, <2>2, <2>3
  <1>8. ASSUME NEW o \in Threads PROVE DateNear(o)' /\ NameNear(o)'
    BY <1>a, <1>1, <1>2 DEF DateNear, NameNear
  <1> QED BY <1>4, <1>5, <1>6, <1>7, <1>8 DEF RaceInv

LEMMA RaceNext == RaceInv /\ [Next]_vars => RaceInv'
  <1> SUFFICES ASSUME RaceInv, [Next]_vars PROVE RaceInv'
    OBVIOUS
  <1>1. CASE Tick
    BY <1>1, RaceTick
  <1>2. CASE \E th \in Threads : Call(th)
    BY <1>2, RaceLibc, RaceNaming DEF Call
  <1>3. CASE EdgeFound \/ Sample \/ MinuteDone
    BY <1>3, RaceBegins
  <1>4. CASE TestMinute \/ StoreMinute \/ ReadHour \/ ReadMin
    BY <1>4, RaceReads
  <1>5. CASE UNCHANGED vars
    BY <1>5 DEF vars, RaceInv, Shape, Spans, TimeNear, ArgsNear, DateNear, NameNear
  <1> QED BY <1>1, <1>2, <1>3, <1>4, <1>5 DEF Next

LEMMA RaceAlways == Spec => []RaceInv
  <1> QED BY RaceInit, RaceNext, PTL DEF Spec

-----------------------------------------------------------------------------
(* Names and arguments                                                     *)

LEMMA DayBetween ==
  ASSUME NEW s \in Int, NEW u \in Int, NEW t \in s .. u
  PROVE  DayOf(t) \in DayOf(s) .. DayOf(u)
  <1>1. Minutes \in Nat \ {0}
    BY TimeAssumption DEF Minutes
  <1>2. \A q \in Nat \ {0} : \A x, y \in Int : x <= y => x \div q \in Int /\ x \div q <= y \div q
    OBVIOUS
  <1> QED BY <1>1, <1>2 DEF DayOf

(* get_date_string, on whatever threads are inside localtime: each field   *)
(* of a table's name is the date of a minute between two before the call   *)
(* and now, so that a name is wrong at most by a day, and only next to     *)
(* midnight.                                                               *)
THEOREM NamesOfTwoDays == Spec => []NameMixesTwoDays
  <1>1. RaceInv => NameMixesTwoDays
    <2> SUFFICES ASSUME RaceInv, NEW th \in Threads, pc[th] = "use"
                 PROVE  LET near == {Date(k) : k \in DayOf(began[th] - 2) .. DayOf(clock)} IN
                          /\ name[th].mday \in {d.mday : d \in near}
                          /\ name[th].mon \in {d.mon : d \in near}
      BY DEF NameMixesTwoDays
    <2>1. PICK t \in began[th] - 2 .. clock : name[th].mday = Date(DayOf(t)).mday
      BY DEF RaceInv, NameNear
    <2>2. PICK u \in began[th] - 2 .. clock : name[th].mon = Date(DayOf(u)).mon
      BY DEF RaceInv, NameNear
    <2>3. began[th] - 2 \in Int /\ clock \in Int
      BY DEF RaceInv, Shape
    <2>4. /\ DayOf(t) \in DayOf(began[th] - 2) .. DayOf(clock)
          /\ DayOf(u) \in DayOf(began[th] - 2) .. DayOf(clock)
      BY <2>3, DayBetween
    <2> QED BY <2>1, <2>2, <2>4
  <1> QED BY <1>1, RaceAlways, PTL

(* main() reads the minute and the hour it gives to io.minute through the  *)
(* struct the io thread overwrites: each is that of the minute main has    *)
(* sampled, or of a minute next to it.                                     *)
THEOREM ArgsStayNear == Spec => []ArgsNearSample
  <1>1. RaceInv => ArgsNearSample
    <2> SUFFICES ASSUME RaceInv, pc["main"] = "minute" PROVE ArgsNearSample
      BY DEF ArgsNearSample
    <2>1. /\ began["main"] \in Int /\ clock \in Int /\ at["main"] = began["main"]
          /\ clock <= began["main"] + 1
      BY DEF RaceInv, Shape, Spans, Threads, PassLabels
    <2>2. \A t \in began["main"] - 1 .. clock : t \in at["main"] - 1 .. at["main"] + 1
      BY <2>1
    <2>3. /\ \E t \in began["main"] - 1 .. clock : args.hour = HourOf(t)
          /\ \E t \in began["main"] - 1 .. clock : args.min = MinOf(t)
      BY DEF RaceInv, ArgsNear
    <2> QED BY <2>2, <2>3 DEF ArgsNearSample
  <1> QED BY <1>1, RaceAlways, PTL

-----------------------------------------------------------------------------
(* Rows                                                                    *)

\* write_min is the minute of the last row or of one next to it, so that the
\* test misses two changes of the minute and never a third.
RowInv ==
  /\ \E w \in lastRow - 1 .. lastRow + 1 : writeMin = MinOf(w)
  /\ began["main"] - lastRow \in 0 .. 3
  /\ pc["main"] = "idle" => began["main"] - lastRow <= 2
  /\ pc["main"] \notin {"idle", "fill", "test", "store"} => lastRow = began["main"]

LEMMA MinutesDiffer ==
  ASSUME NEW w \in Int, NEW t \in Int, 0 < t - w, t - w < MinutesPerHour
  PROVE  MinOf(t) # MinOf(w)
  <1>1. MinutesPerHour \in Nat \ {0}
    BY TimeAssumption
  <1>2. \A x \in Int : /\ x \div MinutesPerHour \in Int
                       /\ x = MinutesPerHour * (x \div MinutesPerHour) + (x % MinutesPerHour)
    BY <1>1
  <1>3. SUFFICES ASSUME t % MinutesPerHour = w % MinutesPerHour PROVE FALSE
    BY DEF MinOf
  <1>4. PICK k \in Int : t - w = MinutesPerHour * k
    <2>1. t - w = MinutesPerHour * (t \div MinutesPerHour - w \div MinutesPerHour)
      BY <1>1, <1>2, <1>3
    <2> QED BY <1>2, <2>1
  <1> QED BY <1>1, <1>4

LEMMA RowStep ==
  ASSUME MinutesPerHour >= 6, RaceInv, RowInv, [Next]_vars
  PROVE  RowInv'
  <1>a. /\ Shape /\ Spans /\ TimeNear /\ "main" \in Threads
        /\ began["main"] \in Int /\ lastRow \in Int /\ clock \in Int /\ MinutesPerHour \in Int
        /\ began["main"] \in clock - 1 .. clock
    BY TimeAssumption DEF RaceInv, Shape, Spans, Threads
  <1>1. CASE Tick \/ UNCHANGED vars
    BY <1>1 DEF Tick, vars, RowInv
  <1>2. CASE EdgeFound \/ Call("io")
    <2>1. UNCHANGED <<writeMin, lastRow>>
      BY <1>2 DEF EdgeFound, Call, Enters, Leaves, TestMidnight, ReadDay, ReadMonth, Uses
    <2>2. began'["main"] = began["main"]
      BY <1>a, <1>2 DEF EdgeFound, Call, Enters, Leaves, TestMidnight, ReadDay, ReadMonth, Uses, Shape
    <2>3. pc'["main"] = pc["main"]
      BY <1>a, <1>2 DEF EdgeFound, AsksName, Goto, Call, Enters, Leaves, TestMidnight, ReadDay,
                        ReadMonth, Uses, Shape
    <2> QED BY <2>1, <2>2, <2>3 DEF RowInv
  <1>3. CASE Call("main")
    <2>1. UNCHANGED <<writeMin, lastRow, began>>
      BY <1>3 DEF Call, Enters, Leaves, TestMidnight, ReadDay, ReadMonth, Uses
    <2>2. CASE Enters("main")
      BY <2>1, <2>2 DEF Enters, RowInv
    <2>3. CASE Leaves("main")
      <3>1. /\ pc["main"] \in {"fill", "named", "shifted"}
            /\ pc'["main"] = After[pc["main"]]
        BY <1>a, <2>3, NobodyAssumption DEF Leaves, Goto, Shape
      <3> QED BY <2>1, <3>1, CallPlaces DEF RowInv
    <2>4. CASE TestMidnight("main") \/ ReadDay("main") \/ ReadMonth("main") \/ Uses("main")
      <3>1. /\ pc["main"] \in {"midnight", "mday", "mon", "use"}
            /\ pc'["main"] \in {"shifted", "mday", "mon", "use", "idle"}
        BY <1>a, <2>4 DEF TestMidnight, ReadDay, ReadMonth, Uses, Goto, Shape
      <3> QED BY <1>a, <2>1, <3>1 DEF RowInv
    <2> QED BY <1>3, <2>2, <2>3, <2>4 DEF Call
  <1>4. CASE Sample
    <2>1. /\ pc["main"] = "idle" /\ pc'["main"] = "fill" /\ began'["main"] = clock
          /\ UNCHANGED <<writeMin, lastRow>>
      BY <1>a, <1>4 DEF Sample, Goto, Shape
    <2> QED BY <1>a, <2>1 DEF RowInv
  <1>5. CASE TestMinute
    <2>1. /\ pc["main"] = "test" /\ pc'["main"] = IF tm.min # writeMin THEN "store" ELSE "idle"
          /\ UNCHANGED <<writeMin, lastRow, began>>
      BY <1>a, <1>5 DEF TestMinute, Goto, Shape
    <2>2. PICK t \in began["main"] - 1 .. clock : tm.min = MinOf(t)
      BY <1>a, <2>1 DEF TimeNear
    <2>3. PICK w \in lastRow - 1 .. lastRow + 1 : writeMin = MinOf(w)
      BY DEF RowInv
    <2>4. CASE tm.min # writeMin
      BY <2>1, <2>4 DEF RowInv
    <2>5. CASE tm.min = writeMin
      <3>1. began["main"] - lastRow \in 0 .. 3
        BY DEF RowInv
      <3>2. ASSUME began["main"] - lastRow > 2 PROVE FALSE
        <4>1. t \in Int /\ w \in Int /\ 0 < t - w /\ t - w < MinutesPerHour
          BY <1>a, <3>1, <3>2
        <4> QED BY <2>2, <2>3, <2>5, <4>1, MinutesDiffer
      <3>3. began["main"] - lastRow <= 2
        BY <1>a, <3>2
      <3> QED BY <2>1, <2>5, <3>3 DEF RowInv
    <2> QED BY <2>4, <2>5
  <1>6. CASE StoreMinute
    <2>1. /\ pc["main"] = "store" /\ pc'["main"] = "hour" /\ began' = began
          /\ writeMin' = tm.min /\ lastRow' = at["main"] /\ at["main"] = began["main"]
      BY <1>a, <1>6 DEF StoreMinute, Goto, Shape, Spans, PassLabels
    <2>2. PICK t \in began["main"] - 1 .. clock : tm.min = MinOf(t)
      BY <1>a, <2>1 DEF TimeNear
    <2>3. t \in lastRow' - 1 .. lastRow' + 1 /\ writeMin' = MinOf(t)
      BY <1>a, <2>1, <2>2
    <2> QED BY <1>a, <2>1, <2>3 DEF RowInv
  <1>7. CASE ReadHour \/ ReadMin \/ MinuteDone
    <2>1. /\ pc["main"] \in {"hour", "min", "minute"} /\ pc'["main"] \in {"min", "minute", "named"}
          /\ UNCHANGED <<writeMin, lastRow, began>>
      BY <1>a, <1>7 DEF ReadHour, ReadMin, MinuteDone, AsksName, Goto, Shape
    <2> QED BY <2>1 DEF RowInv
  <1>8. (\E th \in Threads : Call(th)) => Call("main") \/ Call("io")
    BY DEF Threads
  <1> QED BY <1>1, <1>2, <1>3, <1>4, <1>5, <1>6, <1>7, <1>8 DEF Next

(* main() compares the minute in the struct with write_min and stores it   *)
(* in a second reading: the io thread may change it before the one and     *)
(* between the two, and then a row is late or left out. With an hour of    *)
(* sixty minutes, or any of at least six, the last row is never older than *)
(* four minutes.                                                           *)
THEOREM RowsComing ==
  ASSUME MinutesPerHour >= 6
  PROVE  Spec => []RowsKeepComing
  <1>1. Init => RowInv
    <2> SUFFICES ASSUME Init PROVE RowInv
      OBVIOUS
    <2>1. /\ clock \in Int /\ lastRow = clock /\ began["main"] = clock /\ writeMin = MinOf(clock)
          /\ pc["main"] = "idle"
      BY TimeAssumption DEF Init, Minutes, Threads
    <2>2. clock \in lastRow - 1 .. lastRow + 1 /\ began["main"] - lastRow = 0
      BY <2>1
    <2> QED BY <2>1, <2>2 DEF RowInv
  <1>2. RaceInv /\ RowInv /\ [Next]_vars => RowInv'
    BY RowStep
  <1>3. RaceInv /\ RowInv => RowsKeepComing
    <2> SUFFICES ASSUME RaceInv, RowInv PROVE RowsKeepComing
      OBVIOUS
    <2>1. /\ clock \in Int /\ lastRow \in Int /\ began["main"] \in clock - 1 .. clock
          /\ began["main"] - lastRow \in 0 .. 3
      BY DEF RaceInv, Shape, Spans, RowInv
    <2> QED BY <2>1 DEF RowsKeepComing
  <1> QED BY <1>1, <1>2, <1>3, RaceAlways, PTL DEF Spec

=============================================================================
