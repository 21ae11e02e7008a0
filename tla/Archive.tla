------------------------------- MODULE Archive ------------------------------
(***************************************************************************)
(* The archive CGI program: the days between two dates (genDateArr), and   *)
(* the points it prints of one graph, day by day or month by month         *)
(* (readPrintData, vectorRead, vectorPrint).                               *)
(*                                                                         *)
(* A row of a day's table is the pair of the day's place and the row's     *)
(* place; a point is the sequence of the rows that are summed in it.       *)
(***************************************************************************)
EXTENDS Integers, Sequences, SequencesExt

CONSTANTS
  Length,      \* dates: the days of each month; February is the second
  LeapLength,  \* 29: the days of a leap year's February
  Years,       \* the years a date may have: an interval
  MaxDays,     \* bound: days of a range
  MaxRows,     \* bound: rows of a day's table
  Day,         \* 1440: minutes, and rows, of a day
  Resolutions  \* f_reso: minutes of a point; above Day, a month

ASSUME ArchiveAssumption ==
  /\ Length \in Seq(Nat \ {0}) /\ Len(Length) >= 2 /\ LeapLength = Length[2] + 1
  /\ Years \subseteq Nat /\ \A g, h \in Years : g .. h \subseteq Years
  /\ MaxDays \in Nat \ {0} /\ MaxRows \in Nat
  /\ Day \in Nat \ {0} /\ Resolutions \subseteq Nat \ {0}

VARIABLES
  start, end,   \* the dates asked for
  dateArr,      \* the days between them
  reso,         \* Rundata.f_reso
  rows,         \* how many rows the table of each day has; 0: or no table
  day,          \* x: the place in dateArr
  month,        \* month_vector
  lastMonth,    \* last_month
  out           \* the points printed

arVars == <<start, end, dateArr, reso, rows, day, month, lastMonth, out>>

-----------------------------------------------------------------------------
(* genDateArr                                                              *)

Leap(h) == (h % 4 = 0 /\ h % 100 # 0) \/ h % 400 = 0

\* dates[2] is set in a leap year and stays so for the years after it.
Days(i, h) ==
  IF i = 2 /\ \E y \in start.y .. h : Leap(y) THEN LeapLength ELSE Length[i]

\* (mutant of FirstMonth) every year begins with the first year's month
FirstMonthSame(h) == start.m

FirstMonth(h) == IF h = start.y THEN start.m ELSE 1
LastMonth(h)  == IF h = end.y THEN end.m ELSE Len(Length)

DaysOfMonth(i, h) ==
  LET first == IF i = start.m /\ h = start.y THEN start.d ELSE 1
      last  == IF i = end.m /\ h = end.y THEN end.d ELSE Days(i, h)
  IN  [j \in 1 .. last - first + 1 |-> [d |-> first + j - 1, m |-> i, y |-> h]]

DaysOfYear(h) ==
  FlattenSeq([k \in 1 .. LastMonth(h) - FirstMonth(h) + 1 |-> DaysOfMonth(FirstMonth(h) + k - 1, h)])

DateArr == FlattenSeq([k \in 1 .. end.y - start.y + 1 |-> DaysOfYear(start.y + k - 1)])

DateLength(i, h) == IF i = 2 /\ Leap(h) THEN LeapLength ELSE Length[i]

DatesOfYear(h) == UNION {[d : 1 .. DateLength(i, h), m : {i}, y : {h}] : i \in DOMAIN Length}

Dates == UNION {DatesOfYear(h) : h \in Years}

Before(s, t) ==
  s.y < t.y \/ (s.y = t.y /\ (s.m < t.m \/ (s.m = t.m /\ s.d < t.d)))

-----------------------------------------------------------------------------
(* vectorPrint                                                             *)

\* (mutant of Points) what is left at the end makes no point
PointsFull(v) ==
  [k \in 1 .. Len(v) \div reso |-> SubSeq(v, (k - 1) * reso + 1, k * reso)]

\* A point is made of each full group of rows and of what is left at the
\* end; above a resolution of less than a day, of all the rows.
Points(v) ==
  LET size == IF reso < Day THEN reso ELSE Len(v)
      n == IF v = <<>> THEN 0 ELSE (Len(v) + size - 1) \div size
  IN  [k \in 1 .. n |->
         SubSeq(v, (k - 1) * size + 1, IF k = n THEN Len(v) ELSE k * size)]

-----------------------------------------------------------------------------
Read(x) == [k \in 1 .. rows[x] |-> <<x, k>>]

\* The page asks for no range that ends before it starts.
ArInit ==
  /\ start \in Dates /\ end \in {t \in Dates : ~Before(t, start)}
  /\ Len(DateArr) <= MaxDays /\ dateArr = DateArr
  /\ reso \in Resolutions
  /\ rows \in [DOMAIN dateArr -> 0 .. MaxRows]
  /\ day = 1 /\ month = <<>> /\ lastMonth = start.m /\ out = <<>>

\* (mutant of Flush) a month's last point waits for the next month
FlushAtEnd(x) == x = Len(dateArr)

Flush(x) == dateArr[x].m # lastMonth \/ x = Len(dateArr)

\* a day of one graph (f_type is not "factor")
ReadPrintData ==
  /\ day \in DOMAIN dateArr
  /\ LET printed == IF Flush(day) THEN Points(month) ELSE <<>>
         kept    == IF Flush(day) THEN <<>> ELSE month
     IN  IF reso <= Day
         THEN out' = out \o printed \o Points(Read(day)) /\ month' = kept
         ELSE out' = out \o printed /\ month' = kept \o Read(day)
  /\ lastMonth' = dateArr[day].m
  /\ day' = day + 1
  /\ UNCHANGED <<start, end, dateArr, reso, rows>>

ArSpec == ArInit /\ [][ReadPrintData]_arVars

-----------------------------------------------------------------------------
(* Properties                                                              *)

\* Every day of the range is visited, in order and once. The one date that
\* does not exist is a 29 February after a leap year, whose table is missing.
DaysInOrder ==
  /\ \A k \in 2 .. Len(dateArr) : Before(dateArr[k - 1], dateArr[k])
  /\ \A t \in Dates : ~Before(t, start) /\ ~Before(end, t) => \E k \in DOMAIN dateArr : dateArr[k] = t
  /\ \A k \in DOMAIN dateArr : dateArr[k] \in Dates \/ (dateArr[k].m = 2 /\ dateArr[k].d = LeapLength)

\* The rows of the days read are in the points printed, in order and once;
\* only month_vector holds some back. (It still does at the end: the last
\* day's rows of a range by months are never printed.)
RowsKept ==
  FlattenSeq(out) \o month = FlattenSeq([x \in 1 .. day - 1 |-> Read(x)])

\* A point is of one month, of one day unless months are asked for, and a
\* month has one point.
OnePeriod ==
  \A k \in DOMAIN out :
    LET date(j) == dateArr[out[k][j][1]]
        monthOf(t) == <<t.m, t.y>>
    IN  /\ out[k] # <<>>
        /\ \A j \in DOMAIN out[k] :
             /\ monthOf(date(j)) = monthOf(date(1))
             /\ reso <= Day => date(j) = date(1)
        /\ reso > Day /\ k > 1 => monthOf(dateArr[out[k - 1][1][1]]) # monthOf(date(1))

=============================================================================
