---------------------------- MODULE MeterProofs ----------------------------
(***************************************************************************)
(* Proofs about PulseWindow and Interpolation: what the io thread makes of *)
(* a meter's pulses.                                                       *)
(*                                                                         *)
(* First, what every value of the live power is worth, for all gaps,       *)
(* settings, waits and clock settings: the invariant ties the timer to the *)
(* true gaps of an undisturbed window, elapsed is their sum, i their       *)
(* number and the period kept for the next comparison the last gap. Then,  *)
(* that the time is positive and that a steady meter gets its value.       *)
(* Last, the ring of seconds and the line that fills it.                   *)
(***************************************************************************)
EXTENDS PulseWindow, Interpolation, TLAPS

\* The timer of the window.
Timer ==
  /\ i > 0 => t5 = elapsed
  /\ i <= 0 => t5 = 0 /\ held = NoGaps

\* An undisturbed window holds what the timer says.
Undisturbed ==
  ~disturbed =>
    /\ elapsed = held.sum
    /\ i >= 0 => i = held.count
    /\ held.even
    /\ i > 0 => t4 = gap /\ gap > 0

WindowInv == TypeOK /\ Timer /\ Undisturbed /\ ValueExact /\ OneLoad

LEMMA PeriodsInt ==
  ASSUME NEW c \in Nat, NEW p \in Int, p # 0
  PROVE  Periods(c, p) \in Int
  <1>1. CASE p > 0
    <2>1. c \div p \in Int
      BY <1>1
    <2> QED BY <1>1, <2>1 DEF Periods
  <1>2. CASE p < 0
    <2>1. -p \in Int /\ -p > 0
      BY <1>2
    <2>2. c \div (-p) \in Int
      BY <2>1
    <2> QED BY <1>2, <2>2 DEF Periods
  <1> QED BY <1>1, <1>2

LEMMA PeriodInt ==
  ASSUME TypeOK, NEW g \in Gaps, NEW s \in ClockSteps, Period(g, s) # 0
  PROVE  Period(g, s) \in Int /\ elapsed + g + s \in Int /\ Wanted(Period(g, s)) \in Int
  <1>1. elapsed + g + s \in Int /\ Period(g, s) \in Int
    BY DomainAssumption DEF TypeOK, Period
  <1>2. Periods(calcTime, Period(g, s)) \in Int
    BY <1>1, DomainAssumption, PeriodsInt DEF TypeOK
  <1> QED BY <1>1, <1>2 DEF TypeOK, Wanted

LEMMA WithShape ==
  ASSUME TypeOK, NEW g \in Gaps
  PROVE  /\ With(g) \in [count : Nat, sum : Nat, even : BOOLEAN]
         /\ With(g).count = held.count + 1
         /\ With(g).sum = held.sum + g
         /\ With(g).even = (held.even /\ (held.count = 0 \/ Alike(gap, g)))
  BY DomainAssumption DEF TypeOK, With

\* A period that is not rejected is of the load of the one before.
LEMMA AcceptedAlike ==
  ASSUME TypeOK, NEW g \in Gaps, gap > 0, ~Deviates(g, gap)
  PROVE  Alike(gap, g)
  <1>1. gap \in Nat /\ g \in Nat /\ delta \in Nat /\ delta \in Deltas
    BY DomainAssumption DEF TypeOK
  <1>2. Abs(g - gap) \in Int
    BY <1>1 DEF Abs
  <1>3. Abs(g - gap) * 100 <= delta * gap
    BY <1>1, <1>2 DEF Deviates
  <1> QED BY <1>1, <1>3 DEF Alike

LEMMA WindowInit == Init => WindowInv
  <1> SUFFICES ASSUME Init PROVE WindowInv
    OBVIOUS
  <1>1. NoGaps \in [count : Nat, sum : Nat, even : BOOLEAN]
    BY DEF NoGaps
  <1>2. NoValue \in [pulses : Nat, time : Int, exact : BOOLEAN,
                     held : [count : Nat, sum : Nat, even : BOOLEAN]]
    BY <1>1 DEF NoValue
  <1>3. TypeOK
    <2>1. disturbed \in BOOLEAN
      BY DEF Init
    <2>2. /\ calcTime \in CalcTimes /\ delta \in Deltas /\ i = -1 /\ e = -100
          /\ elapsed = 0 /\ t4 = 0 /\ t5 = 0 /\ steps = 0 /\ gap = 0 /\ steady = 0
          /\ value = NoValue /\ held = NoGaps
      BY DEF Init
    <2>3. i \in Nat \union {-1} /\ e \in Int
      BY <2>2
    <2> QED BY <1>1, <1>2, <2>1, <2>2, <2>3 DEF TypeOK
  <1>4. Timer /\ Undisturbed
    <2>1. i = -1 /\ elapsed = 0 /\ t5 = 0 /\ held = NoGaps
      BY DEF Init
    <2>2. ~(i > 0) /\ ~(i >= 0)
      BY <2>1
    <2>3. held.sum = 0 /\ held.even
      BY <2>1 DEF NoGaps
    <2> QED BY <2>1, <2>2, <2>3 DEF Timer, Undisturbed
  <1>5. ValueExact /\ OneLoad
    BY DEF Init, ValueExact, OneLoad, NoValue, NoGaps
  <1> QED BY <1>3, <1>4, <1>5 DEF WindowInv

\* What Calculate leaves behind, given that the new value is right.
LEMMA CalculateKeeps ==
  ASSUME WindowInv, NEW g \in Gaps, NEW w \in Waits, NEW pulses \in Nat,
         NEW time \in Int, NEW gaps \in [count : Nat, sum : Nat, even : BOOLEAN],
         NEW exact \in BOOLEAN,
         Calculate(pulses, time, gaps, exact, w), UNCHANGED settings,
         t4' \in Int, steps' \in Nat, gap' = g,
         exact => pulses = gaps.count /\ time = gaps.sum /\ gaps.even
  PROVE  WindowInv'
  <1> USE DomainAssumption DEF Calculate, settings
  <1>1. value'.pulses = pulses /\ value'.time = time /\ value'.held = gaps /\ value'.exact = exact
    OBVIOUS
  <1>2. TypeOK'
    <2>1. value' \in [pulses : Nat, time : Int, exact : BOOLEAN,
                      held : [count : Nat, sum : Nat, even : BOOLEAN]]
      OBVIOUS
    <2>2. held' \in [count : Nat, sum : Nat, even : BOOLEAN]
      BY DEF NoGaps
    <2> QED BY <2>1, <2>2 DEF WindowInv, TypeOK
  <1>3. Timer'
    BY DEF Timer
  <1>4. Undisturbed'
    <2>1. i' = 0 /\ elapsed' = 0 - w /\ held'.sum = 0 /\ held'.count = 0 /\ held'.even
      BY DEF NoGaps
    <2>2. ASSUME ~disturbed' PROVE elapsed' = 0
      <3>1. disturbed' = (w # 0)
        OBVIOUS
      <3>2. w = 0
        BY <2>2, <3>1, Zenon
      <3>3. elapsed' = 0 - w
        BY <2>1
      <3> QED BY ONLY <3>2, <3>3
    <2> QED BY <2>1, <2>2 DEF Undisturbed
  <1>5. ValueExact' /\ OneLoad'
    BY <1>1 DEF ValueExact, OneLoad
  <1> QED BY <1>2, <1>3, <1>4, <1>5 DEF WindowInv

LEMMA WindowNext == WindowInv /\ [Next]_vars => WindowInv'
  <1> SUFFICES ASSUME WindowInv, [Next]_vars PROVE WindowInv'
    OBVIOUS
  <1> USE DomainAssumption
  <1>0. TypeOK
    BY DEF WindowInv
  <1>1. CASE UNCHANGED vars
    BY <1>1 DEF vars, settings, window, history, WindowInv, TypeOK, Timer, Undisturbed,
       ValueExact, OneLoad, NoValue, NoGaps, Alike
  <1>2. CASE ReadIo
    BY <1>2 DEF ReadIo, window, history, WindowInv, TypeOK, Timer, Undisturbed,
       ValueExact, OneLoad, NoValue, NoGaps
  <1>3. ASSUME NEW g \in Gaps, First(g) PROVE WindowInv'
    BY <1>3 DEF First, settings, WindowInv, TypeOK, Timer, Undisturbed, ValueExact,
       OneLoad, NoValue, NoGaps
  <1>4. ASSUME NEW g \in Gaps, NEW s \in ClockSteps, Restart(g, s) PROVE WindowInv'
    <2>1. e' \in Int /\ t4' \in Int
      BY <1>0, <1>4, PeriodInt DEF Restart, Arrives
    <2>2. /\ i' = i /\ i \in Nat /\ elapsed' = 0 /\ t5' = 0
          /\ held' = NoGaps /\ disturbed' = FALSE
      BY <1>0, <1>4 DEF Restart, Arrives, TypeOK
    <2>3. steps' \in Nat /\ steady' \in Nat /\ gap' \in Gaps
      BY <1>0, <1>4 DEF Restart, Arrives, Steadier, TypeOK
    <2>4. held' \in [count : Nat, sum : Nat, even : BOOLEAN]
      BY <2>2 DEF NoGaps
    <2>5. TypeOK'
      <3>1. UNCHANGED <<settings, value>>
        BY <1>4 DEF Restart
      <3>2. i' \in Nat \union {-1} /\ ~(i' = -1)
        BY <2>2
      <3>3. elapsed' \in Int /\ t5' \in Int
        BY <2>2
      <3>4. disturbed' \in BOOLEAN
        BY <2>2, Zenon
      <3> QED BY ONLY <1>0, <2>1, <2>3, <2>4, <3>1, <3>2, <3>3, <3>4 DEF settings, TypeOK
    <2> QED BY <2>5, <1>0, <1>4 DEF Restart, Arrives, TypeOK, settings, WindowInv, Timer, Undisturbed,
              ValueExact, OneLoad, NoGaps
  <1>5. ASSUME NEW g \in Gaps, NEW s \in ClockSteps, Count(g, s) PROVE WindowInv'
    <2>1. e' \in Int /\ t4' \in Int /\ elapsed' \in Int /\ t5' = elapsed'
      BY <1>0, <1>5, PeriodInt DEF Count, Arrives
    <2>2. TypeOK'
      <3>1. /\ steps' \in Nat /\ steady' \in Nat /\ gap' \in Gaps
            /\ disturbed' \in BOOLEAN /\ i' \in Nat /\ i' # -1
        BY <1>0, <1>5 DEF Count, Arrives, Steadier, TypeOK
      <3>2. held' \in [count : Nat, sum : Nat, even : BOOLEAN]
        BY <1>0, <1>5, WithShape DEF Count
      <3> QED BY <1>0, <1>5, <2>1, <3>1, <3>2 DEF Count, settings, TypeOK
    <2>3. Timer'
      BY <1>0, <1>5, <2>1 DEF Count, Arrives, Timer, TypeOK
    <2>4. ASSUME ~disturbed'
          PROVE  elapsed' = held'.sum /\ i' = held'.count /\ held'.even /\ t4' = gap' /\ gap' > 0
      <3>1. ~disturbed /\ s = 0 /\ elapsed = held.sum /\ i = held.count /\ held.even /\ i >= 0
        BY <1>5, <2>4 DEF Count, Arrives, WindowInv, Undisturbed
      <3>2. t5 = elapsed
        BY <3>1, <1>0 DEF WindowInv, Timer, TypeOK, NoGaps
      <3>3. Period(g, s) = g
        BY <3>1, <3>2, <1>0 DEF Period, TypeOK
      <3>4. held.count = 0 \/ Alike(gap, g)
        BY <1>0, <1>5, <3>1, <3>3, AcceptedAlike DEF Count, WindowInv, Undisturbed, TypeOK
      <3> QED BY <1>0, <1>5, <3>1, <3>3, <3>4, WithShape DEF Count, Arrives, TypeOK
    <2>5. Undisturbed'
      BY <2>4 DEF Undisturbed
    <2> QED BY <1>5, <2>2, <2>3, <2>5 DEF Count, settings, WindowInv, ValueExact, OneLoad
  <1>6. ASSUME NEW g \in Gaps, NEW s \in ClockSteps, NEW w \in Waits, Complete(g, s, w)
        PROVE  WindowInv'
    <2> DEFINE exact == ~disturbed /\ s = 0
    <2>1. i \in Nat /\ elapsed + g + s \in Int /\ t4' \in Int /\ steps' \in Nat
      BY <1>0, <1>6, PeriodInt DEF Complete, Arrives, TypeOK
    <2>2. ASSUME exact
          PROVE  i + 1 = With(g).count /\ elapsed + g + s = With(g).sum /\ With(g).even
      <3>1. elapsed = held.sum /\ i = held.count /\ held.even
        BY <2>1, <2>2 DEF WindowInv, Undisturbed
      <3>2. t5 = elapsed
        BY <3>1, <2>1, <1>0 DEF WindowInv, Timer, TypeOK, NoGaps
      <3>3. Period(g, s) = g
        BY <2>2, <3>2, <1>0 DEF Period, TypeOK
      <3>4. held.count = 0 \/ Alike(gap, g)
        BY <1>0, <1>6, <2>1, <2>2, <3>1, <3>3, AcceptedAlike
        DEF Complete, WindowInv, Undisturbed, TypeOK
      <3> QED BY <1>0, <2>2, <3>1, <3>4, WithShape DEF TypeOK
    <2>3. Calculate(i + 1, elapsed + g + s, With(g), exact, w) /\ UNCHANGED settings /\ gap' = g
      BY <1>6 DEF Complete, Arrives
    <2>4. With(g) \in [count : Nat, sum : Nat, even : BOOLEAN]
      BY <1>0, WithShape
    <2>5. exact \in BOOLEAN
      BY <1>0 DEF TypeOK
    <2> HIDE DEF exact
    <2> QED BY <2>1, <2>2, <2>3, <2>4, <2>5, CalculateKeeps
  <1>7. ASSUME NEW g \in Gaps, NEW s \in ClockSteps, NEW w \in Waits, Cut(g, s, w)
        PROVE  WindowInv'
    <2>1. /\ i \in Nat /\ i > 0 /\ t5 \in Int /\ t4' \in Int /\ steps' \in Nat
          /\ elapsed + g + s - Period(g, s) = t5
      BY <1>0, <1>7, PeriodInt DEF Cut, Arrives, TypeOK, Period
    <2>2. ASSUME ~disturbed
          PROVE  i = held.count /\ t5 = held.sum /\ held.even
      BY <2>1, <2>2 DEF WindowInv, Undisturbed, Timer
    <2>3. Calculate(i, t5, held, ~disturbed, w) /\ UNCHANGED settings /\ gap' = g
      BY <1>7, <2>1 DEF Cut, Arrives
    <2>4. held \in [count : Nat, sum : Nat, even : BOOLEAN] /\ (~disturbed) \in BOOLEAN
      BY <1>0 DEF TypeOK
    <2> QED BY <2>1, <2>2, <2>3, <2>4, CalculateKeeps
  <1> QED BY <1>1, <1>2, <1>3, <1>4, <1>5, <1>6, <1>7 DEF Next, Pulse

\* The live value is the exact mean of the gaps it counts, for every meter,
\* every setting and every clock: a restarted window, a cut-off period or a
\* changed deviceCalcTime never leaves a pulse without its time or a time
\* without its pulse.
THEOREM ValuesExact == Spec => []ValueExact
  <1>1. WindowInv => ValueExact
    BY DEF WindowInv
  <1> QED BY <1>1, WindowInit, WindowNext, PTL DEF Spec

\* A live value never mixes loads more than deviceDelta percent apart.
THEOREM ValuesOfOneLoad == Spec => []OneLoad
  <1>1. WindowInv => OneLoad
    BY DEF WindowInv
  <1> QED BY <1>1, WindowInit, WindowNext, PTL DEF Spec

-----------------------------------------------------------------------------
(* A clock that is set once                                                *)

\* What a set clock leaves behind: a period can be negative only after the
\* clock was set, and no window counts one.
ClockInv ==
  /\ t4 < 0 => steps >= 1
  /\ i > 0 => elapsed > 0 /\ i < e
  /\ i = 0 => elapsed <= 0
  /\ PositiveTime

LEMMA PeriodsPositive ==
  ASSUME NEW c \in Nat, NEW p \in Int, p > 0
  PROVE  Periods(c, p) \in Nat /\ Periods(c, p) >= 1
  <1>1. c \div p \in Nat
    BY Z3
  <1> QED BY <1>1 DEF Periods

\* A period that is counted is positive: the clock is set once, so that the
\* period before one that is set back was a true one.
LEMMA CountedPositive ==
  ASSUME MaxSteps <= 1, \A d \in Deltas : d <= 100, WindowInv, ClockInv,
         NEW g \in Gaps, NEW s \in ClockSteps, Arrives(g, s), ~Deviates(Period(g, s), t4)
  PROVE  Period(g, s) \in Nat \ {0}
  <1> DEFINE p == Period(g, s)
  <1>1. /\ g \in Nat /\ g > 0 /\ s \in Int /\ elapsed \in Int /\ t4 \in Int /\ t5 \in Int
        /\ i \in Nat /\ steps \in Nat /\ MaxSteps \in Nat /\ delta \in Nat /\ delta <= 100
    BY DomainAssumption DEF WindowInv, TypeOK, Arrives
  <1>2. p = elapsed + g + s - t5 /\ p \in Int /\ p # 0
    BY <1>1 DEF Period, Arrives
  <1>3. CASE s = 0
    <2>1. CASE i = 0
      <3>1. t5 = 0 /\ elapsed <= 0 /\ (g + elapsed > 0 \/ elapsed >= 0)
        BY <1>1, <2>1 DEF WindowInv, Timer, ClockInv, Arrives
      <3> QED BY <1>1, <1>2, <1>3, <3>1
    <2>2. CASE i > 0
      <3>1. t5 = elapsed
        BY <2>2 DEF WindowInv, Timer
      <3> QED BY <1>1, <1>2, <1>3, <3>1
    <2> QED BY <1>1, <2>1, <2>2
  <1>4. CASE s # 0
    <2>1. t4 >= 0
      BY <1>1, <1>4 DEF Arrives, ClockInv
    <2>2. t4 # 0 /\ Abs(p - t4) * 100 <= delta * t4
      <3>1. t4 # 0 /\ ~(Abs(p - t4) * 100 > delta * t4)
        BY <1>1, <2>1 DEF Deviates
      <3>2. Abs(p - t4) \in Int
        BY <1>1, <1>2 DEF Abs
      <3>3. delta * t4 \in Int
        BY <1>1
      <3> HIDE DEF p
      <3> QED BY <3>1, <3>2, <3>3
    <2>3. delta * t4 <= 100 * t4
      BY <1>1, <2>1
    <2>4. ASSUME p < 0 PROVE FALSE
      <3>1. Abs(p - t4) = t4 - p
        BY <1>1, <1>2, <2>1, <2>4 DEF Abs
      <3> HIDE DEF p
      <3> QED BY <1>1, <1>2, <2>2, <2>3, <2>4, <3>1
    <2> HIDE DEF p
    <2> QED BY <1>2, <2>4 DEF p
  <1> QED BY <1>3, <1>4

LEMMA ClockNext ==
  ASSUME MaxSteps <= 1, \A d \in Deltas : d <= 100, WindowInv, ClockInv, [Next]_vars
  PROVE  ClockInv'
  <1>0. /\ TypeOK /\ MaxSteps \in Nat /\ steps \in Nat
        /\ calcTime \in Nat /\ elapsed \in Int /\ t4 \in Int /\ t5 \in Int /\ e \in Int
    BY DomainAssumption DEF WindowInv, TypeOK
  <1>1. CASE UNCHANGED vars \/ ReadIo
    BY <1>1 DEF vars, window, history, ReadIo, ClockInv, PositiveTime
  <1>2. ASSUME NEW g \in Gaps, First(g) PROVE ClockInv'
    BY <1>2 DEF First, ClockInv, PositiveTime
  <1>3. ASSUME NEW g \in Gaps, NEW s \in ClockSteps, Pulse(g, s) PROVE ClockInv'
    <2> DEFINE p == Period(g, s)
    <2>1. /\ g \in Nat /\ g > 0 /\ s \in Int /\ p \in Int /\ i \in Nat /\ Arrives(g, s)
          /\ elapsed + g + s = t5 + p
      BY <1>0, <1>3, DomainAssumption DEF Pulse, Restart, Count, Complete, Cut, Arrives, Period, TypeOK
    <2>2. t4' = p /\ (s # 0 => steps' >= 1)
      BY <1>0, <1>3, <2>1 DEF Pulse, Restart, Count, Complete, Cut, Arrives
    <2>3. t4' < 0 => steps' >= 1
      <3>1. CASE Deviates(p, t4) /\ s = 0
        <4>1. p > 0
          <5>1. CASE i = 0
            BY <1>0, <2>1, <3>1, <5>1 DEF Period, WindowInv, Timer, ClockInv, Arrives
          <5>2. CASE i > 0
            BY <1>0, <2>1, <3>1, <5>2 DEF Period, WindowInv, Timer
          <5> QED BY <2>1, <5>1, <5>2
        <4>2. t4' > 0
          BY <2>2, <4>1
        <4> QED BY <2>1, <2>2, <4>2
      <3>2. CASE ~Deviates(p, t4)
        BY <2>1, <2>2, <3>2, CountedPositive
      <3> QED BY <2>2, <3>1, <3>2
    <2>4. CASE Restart(g, s)
      BY <2>3, <2>4 DEF Restart, ClockInv, PositiveTime
    <2>5. CASE Count(g, s)
      <3>1. /\ p > 0 /\ i' = i + 1 /\ e' = Wanted(p) /\ elapsed' = t5 + p /\ i + 1 # Wanted(p)
            /\ value' = value
        BY <2>1, <2>5, CountedPositive DEF Count
      <3>2. CASE i = 0
        <4>1. Wanted(p) >= 1 /\ Wanted(p) \in Nat /\ t5 = 0
          BY <1>0, <2>1, <3>1, <3>2, PeriodsPositive DEF Wanted, WindowInv, Timer
        <4> HIDE DEF p
        <4> QED BY <2>1, <2>3, <3>1, <3>2, <4>1 DEF ClockInv, PositiveTime
      <3>3. CASE i > 0
        <4>1. Wanted(p) = e /\ i < e /\ t5 = elapsed /\ elapsed > 0
          BY <2>1, <3>3 DEF Wanted, ClockInv, WindowInv, Timer
        <4> HIDE DEF p
        <4> QED BY <1>0, <2>1, <2>3, <3>1, <3>3, <4>1 DEF ClockInv, PositiveTime
      <3> QED BY <2>1, <3>2, <3>3
    <2>6. ASSUME NEW w \in Waits, Complete(g, s, w) PROVE ClockInv'
      <3>1. p > 0
        BY <2>1, <2>6, CountedPositive DEF Complete
      <3>2. t5 >= 0
        BY <1>0, <2>1 DEF WindowInv, Timer, ClockInv
      <3>3. value'.time = t5 + p /\ i' = 0 /\ elapsed' = 0 - w /\ w \in Nat
        BY <2>1, <2>6, DomainAssumption DEF Complete, Calculate
      <3> HIDE DEF p
      <3> QED BY <1>0, <2>1, <2>3, <3>1, <3>2, <3>3 DEF ClockInv, PositiveTime
    <2>7. ASSUME NEW w \in Waits, Cut(g, s, w) PROVE ClockInv'
      <3>1. i > 0 /\ t5 = elapsed /\ elapsed > 0
        BY <2>7 DEF Cut, WindowInv, Timer, ClockInv
      <3>2. value'.time = t5 /\ i' = 0 /\ elapsed' = 0 - w /\ w \in Nat
        BY <1>0, <2>1, <2>7, DomainAssumption DEF Cut, Calculate
      <3> QED BY <1>0, <2>3, <3>1, <3>2 DEF ClockInv, PositiveTime
    <2> QED BY <1>3, <2>4, <2>5, <2>6, <2>7 DEF Pulse
  <1> QED BY <1>1, <1>2, <1>3 DEF Next

\* Setting the clock once, at any moment and by any amount, never makes the
\* time under a live value zero or negative, so that the power stays finite
\* and positive: where deviceDelta is at most 100 percent a period that is
\* set back always deviates, and the window is cut before it.
THEOREM TimesPositive ==
  ASSUME MaxSteps <= 1, \A d \in Deltas : d <= 100
  PROVE  Spec => []PositiveTime
  <1>1. Init => ClockInv
    BY DEF Init, ClockInv, PositiveTime, NoValue
  <1>2. WindowInv /\ ClockInv /\ [Next]_vars => ClockInv'
    BY ClockNext
  <1>3. ClockInv => PositiveTime
    BY DEF ClockInv
  <1> QED BY <1>1, <1>2, <1>3, WindowInit, WindowNext, PTL DEF Spec

-----------------------------------------------------------------------------
(* A meter that pulses steadily                                            *)

\* A load restarts the window at most twice: its first period may deviate,
\* its second too, as a set clock or a wait was in the first; the third is
\* like the second. From then on every pulse is counted.
SteadyInv ==
  /\ gap # 0 => i >= 0
  /\ i >= 0 => steady <= i + 2
  /\ i = 0 => (steady >= 1 => elapsed = 0) /\ (steady = 2 => t4 = gap)
  /\ i > 0 /\ ~disturbed => \E c \in CalcTimes : e = Periods(c, gap)

LEMMA SteadyNext ==
  ASSUME \A g, h \in Gaps : g = h \/ ~Alike(g, h), WindowInv, SteadyInv, [Next]_vars
  PROVE  SteadyInv'
  <1>0. /\ TypeOK /\ steady \in Nat /\ gap \in Nat /\ gap \in Gaps \union {0} /\ delta \in Nat
        /\ calcTime \in CalcTimes /\ elapsed \in Int /\ t4 \in Int /\ t5 \in Int /\ e \in Int
    BY DomainAssumption DEF WindowInv, TypeOK
  <1>1. CASE UNCHANGED vars \/ ReadIo
    BY <1>1 DEF vars, window, history, ReadIo, SteadyInv
  <1>2. ASSUME NEW g \in Gaps, First(g) PROVE SteadyInv'
    BY <1>2 DEF First, SteadyInv
  <1>3. ASSUME NEW g \in Gaps, NEW s \in ClockSteps, Restart(g, s) PROVE SteadyInv'
    <2>1. /\ i = 0 /\ i' = 0 /\ elapsed' = 0 /\ t4' = Period(g, s) /\ gap' = g /\ t5 = 0
          /\ g \in Nat /\ g > 0
          /\ steady' = IF g = gap /\ s = 0 THEN steady + 1 ELSE 1
      BY <1>3, DomainAssumption DEF Restart, Arrives, Steadier, WindowInv, Timer
    <2>2. steady <= 2 /\ (steady >= 1 => elapsed = 0) /\ (steady = 2 => t4 = gap)
      BY <2>1 DEF SteadyInv
    <2>3. s = 0 /\ steady >= 1 => Period(g, s) = g
      BY <1>0, <2>1, <2>2 DEF Period
    <2>4. ASSUME g = gap, s = 0, steady = 2 PROVE FALSE
      <3>1. Deviates(g, g)
        BY <1>3, <2>2, <2>3, <2>4 DEF Restart
      <3>2. Abs(g - g) * 100 > delta * g
        BY <2>1, <3>1 DEF Deviates
      <3>3. Abs(g - g) = 0 /\ delta * g \in Int /\ delta * g >= 0
        BY <1>0, <2>1 DEF Abs
      <3> QED BY <3>2, <3>3
    <2>5. steady' <= 2 /\ (steady' = 2 => t4' = gap')
      <3>1. CASE g = gap /\ s = 0
        <4>1. steady = 0 \/ steady = 1
          BY <1>0, <2>2, <2>4, <3>1
        <4> QED BY <2>1, <2>3, <3>1, <4>1
      <3>2. CASE ~(g = gap /\ s = 0)
        BY <2>1, <3>2
      <3> QED BY <3>1, <3>2
    <2> QED BY <2>1, <2>5 DEF SteadyInv
  <1>4. ASSUME NEW g \in Gaps, NEW s \in ClockSteps, Count(g, s) PROVE SteadyInv'
    <2>1. /\ i \in Nat /\ i' = i + 1 /\ e' = Wanted(Period(g, s)) /\ gap' = g /\ g \in Nat /\ g > 0
          /\ steady' = steady + 1 \/ steady' = 1
      BY <1>0, <1>4, DomainAssumption DEF Count, Arrives, Steadier, TypeOK
    <2>2. steady' <= i' + 2
      BY <1>0, <2>1 DEF SteadyInv
    <2>3. ASSUME ~disturbed' PROVE \E c \in CalcTimes : e' = Periods(c, g)
      <3>1. ~disturbed /\ s = 0
        BY <1>4, <2>3 DEF Count
      <3>2. t5 = elapsed
        BY <1>0, <2>1, <3>1 DEF WindowInv, Timer, Undisturbed, NoGaps
      <3>3. Period(g, s) = g
        BY <1>0, <2>1, <3>1, <3>2 DEF Period
      <3>4. CASE i = 0
        <4>1. e' = Periods(calcTime, g)
          BY <2>1, <3>3, <3>4 DEF Wanted
        <4> QED BY <1>0, <4>1
      <3>5. CASE i > 0
        <4>1. t4 = gap /\ gap > 0
          BY <3>1, <3>5 DEF WindowInv, Undisturbed
        <4>2. ~Deviates(g, gap)
          BY <1>4, <3>3, <4>1 DEF Count
        <4>3. g = gap
          BY <1>0, <4>1, <4>2, AcceptedAlike
        <4>4. e' = e
          BY <2>1, <3>5 DEF Wanted
        <4> QED BY <3>1, <3>5, <4>3, <4>4 DEF SteadyInv
      <3> QED BY <2>1, <3>4, <3>5
    <2> QED BY <2>1, <2>2, <2>3 DEF SteadyInv
  <1>5. ASSUME NEW g \in Gaps, NEW s \in ClockSteps, NEW w \in Waits, Complete(g, s, w) \/ Cut(g, s, w)
        PROVE  SteadyInv'
    <2>1. steady' = 0 /\ i' = 0
      BY <1>5 DEF Complete, Cut, Calculate
    <2> QED BY <2>1 DEF SteadyInv
  <1> QED BY <1>1, <1>2, <1>3, <1>4, <1>5 DEF Next, Pulse

\* A meter that pulses steadily gets a value at the latest when its pulses
\* have filled deviceCalcTime after the two that found the first period, and
\* i never passes e, so that a window always closes: for a clock that is set
\* once at most, deviations of at most 100 percent, and loads that differ by
\* more than deviceDelta (of loads that do not, a window may hold two, and e
\* is that of the first).
THEOREM SteadyValues ==
  ASSUME MaxSteps <= 1, \A d \in Deltas : d <= 100,
         \A g, h \in Gaps : g = h \/ ~Alike(g, h)
  PROVE  Spec => []ValueComes
  <1>1. Init => ClockInv /\ SteadyInv
    BY DEF Init, ClockInv, SteadyInv, PositiveTime, NoValue
  <1>2. WindowInv /\ ClockInv /\ [Next]_vars => ClockInv'
    BY ClockNext
  <1>3. WindowInv /\ SteadyInv /\ [Next]_vars => SteadyInv'
    BY SteadyNext
  <1>4. WindowInv /\ ClockInv /\ SteadyInv => ValueComes
    <2> SUFFICES ASSUME WindowInv, ClockInv, SteadyInv PROVE ValueComes
      OBVIOUS
    <2>1. /\ i \in Nat \union {-1} /\ e \in Int /\ steady \in Nat /\ gap \in Gaps \union {0}
          /\ calcTime \in CalcTimes /\ Gaps \subseteq Nat \ {0} /\ CalcTimes \subseteq Nat
      BY DomainAssumption DEF WindowInv, TypeOK
    <2>2. i > 0 => i < e
      BY DEF ClockInv
    <2>3. ASSUME gap # 0, ~disturbed PROVE \E c \in CalcTimes : steady < Periods(c, gap) + 2
      <3>1. i >= 0 /\ steady <= i + 2
        BY <2>3 DEF SteadyInv
      <3>2. CASE i > 0
        <4>1. PICK c \in CalcTimes : e = Periods(c, gap)
          BY <2>3, <3>2 DEF SteadyInv
        <4>2. steady < e + 2
          BY <2>1, <2>2, <3>1, <3>2
        <4> QED BY <4>1, <4>2
      <3>3. CASE i = 0
        <4>1. Periods(calcTime, gap) \in Nat /\ Periods(calcTime, gap) >= 1
          BY <2>1, <2>3, PeriodsPositive
        <4>2. steady < Periods(calcTime, gap) + 2
          BY <2>1, <3>1, <3>3, <4>1
        <4> QED BY <2>1, <4>2
      <3> QED BY <2>1, <3>1, <3>2, <3>3
    <2> QED BY <2>2, <2>3 DEF ValueComes
  <1> QED BY <1>1, <1>2, <1>3, <1>4, WindowInit, WindowNext, PTL DEF Spec

-----------------------------------------------------------------------------
(* The ring of seconds                                                     *)

\* the ring before the first value
Empty == ring[b].epoch = 0 => ring[b].value = 0

Loop ==
  second > 0 =>
    /\ \/ ring[b].epoch = from.epoch + second - 1
       \/ ring[b].epoch = 0 /\ second = 1
    /\ points = to.epoch - from.epoch + 1

RingInv == ItTypeOK /\ SecondsInOrder /\ Empty /\ Loop

LEMMA QuotientInt ==
  ASSUME NEW p \in Int, NEW q \in Int, q > 0
  PROVE  Quotient(p, q) \in Int
  <1>1. p \div q \in Int /\ (-p) \div q \in Int
    OBVIOUS
  <1> QED BY <1>1 DEF Quotient

LEMMA LineSample ==
  ASSUME ItTypeOK, Loop, second > 0, second < points
  PROVE  Line(second) \in Sample /\ Line(second).epoch = from.epoch + second
  <1>1. to.epoch - from.epoch \in Int /\ to.epoch - from.epoch > 0
    BY DEF ItTypeOK, Loop, Sample
  <1>2. to.value - from.value \in Int /\ from.value \in Int /\ second \in Int
    BY DEF ItTypeOK, Sample
  <1>3. second * (to.value - from.value) \in Int
    BY <1>2
  <1>4. Quotient(second * (to.value - from.value), to.epoch - from.epoch) \in Int
    BY <1>1, <1>3, QuotientInt
  <1>5. from.epoch + second \in Nat
    BY DEF ItTypeOK, Sample
  <1> QED BY <1>2, <1>4, <1>5 DEF Line, Sample

\* moving on puts every other slot one place further behind
LEMMA WrapBehind ==
  ASSUME b \in Slot, NEW s \in Slot, b' = Wrap(b)
  PROVE  /\ b' \in Slot
         /\ s # b' => Behind(s)' = Behind(s) + 1
         /\ s = b' => Behind(s)' = 0
         /\ Behind(s) \in Nat /\ (s # b => Behind(s) > 0)
  BY RingAssumption DEF Slot, Wrap, Behind

LEMMA RingInit == ItInit => RingInv
  BY RingAssumption DEF ItInit, RingInv, ItTypeOK, SecondsInOrder, Empty, Loop, Slot, Sample

LEMMA RingNext == RingInv /\ [ItNext]_itVars => RingInv'
  <1> SUFFICES ASSUME RingInv, [ItNext]_itVars PROVE RingInv'
    OBVIOUS
  <1>0. ItTypeOK /\ SecondsInOrder /\ Empty /\ Loop /\ b \in Slot
    BY DEF RingInv, ItTypeOK
  <1>1. CASE UNCHANGED itVars
    BY <1>1 DEF RingInv, ItTypeOK, SecondsInOrder, Empty, Loop, Behind, itVars
  <1>2. ASSUME NEW epoch \in 1 .. MaxEpoch, NEW power \in Powers, Enter(epoch, power)
        PROVE  RingInv'
    <2>1. epoch \in Nat /\ epoch > 0 /\ power \in Int /\ epoch - 1 \in Nat
      <3>1. Powers \subseteq Nat /\ MaxEpoch \in Nat
        BY InputAssumption
      <3>2. epoch \in Nat /\ epoch > 0 /\ epoch - 1 \in Nat
        BY <3>1
      <3>3. power \in Int
        BY <3>1
      <3> QED BY <3>2, <3>3
    <2>2. to' \in Sample /\ to'.epoch = epoch /\ ring[b] \in Sample
      BY <1>0, <1>2, <2>1 DEF Enter, Sample, ItTypeOK
    <2>3. /\ from' \in Sample /\ points' = epoch - from'.epoch + 1
          /\ ring[b].epoch = from'.epoch \/ ring[b].epoch = 0
      <3>1. CASE ring[b].epoch = 0
        BY <1>2, <2>1, <3>1 DEF Enter, Sample
      <3>2. CASE ring[b].epoch # 0
        BY <1>2, <2>1, <2>2, <3>2 DEF Enter, Sample
      <3> QED BY <3>1, <3>2
    <2>4. UNCHANGED <<ring, b>> /\ second' = 1 /\ newest' \in Sample
      BY <1>0, <1>2, <2>2 DEF Enter, ItTypeOK
    <2>5. points' \in Int
      BY <2>1, <2>3 DEF Sample
    <2>6. ItTypeOK'
      BY <1>0, <2>2, <2>3, <2>4, <2>5 DEF ItTypeOK
    <2>7. SecondsInOrder' /\ Empty'
      BY <1>0, <2>4 DEF SecondsInOrder, Behind, Empty
    <2>8. Loop'
      BY <2>2, <2>3, <2>4 DEF Loop, Sample
    <2> QED BY <2>6, <2>7, <2>8 DEF RingInv
  <1>3. CASE Put
    <2>1. /\ Line(second) \in Sample /\ Line(second).epoch = from.epoch + second
          /\ b' = Wrap(b) /\ ring' = [ring EXCEPT ![b'] = Line(second)]
          /\ second' = second + 1 /\ UNCHANGED <<from, to, points, newest>> /\ second > 0
      BY <1>0, <1>3, LineSample DEF Put
    <2>2. b' \in Slot
      BY <1>0, <2>1, WrapBehind
    <2>3. ring'[b'] = Line(second) /\ \A s \in Slot : s # b' => ring'[s] = ring[s]
      BY <1>0, <2>1, <2>2 DEF ItTypeOK
    <2>4. ItTypeOK'
      BY <1>0, <2>1, <2>2 DEF ItTypeOK
    <2>5. from.epoch + second > 0 /\ from.epoch + second \in Nat
      BY <1>0, <2>1 DEF ItTypeOK, Sample
    <2>6. ASSUME NEW s \in Slot
          PROVE  \/ ring'[s] = [epoch |-> 0, value |-> 0]
                 \/ ring'[s].epoch = ring'[b'].epoch - Behind(s)'
      <3>1. CASE s = b'
        BY <2>1, <2>3, <2>5, <3>1, <1>0, WrapBehind
      <3>2. CASE s # b' /\ ring[s] = [epoch |-> 0, value |-> 0]
        BY <2>3, <3>2
      <3>3. CASE s # b' /\ ring[s] # [epoch |-> 0, value |-> 0]
        <4>1. ring[s].epoch = ring[b].epoch - Behind(s)
          BY <1>0, <3>3 DEF SecondsInOrder
        <4>2. ring[s] \in Sample /\ ring[b] \in Sample
          BY <1>0 DEF ItTypeOK
        <4>3. ring[b].epoch # 0
          <5>1. SUFFICES ASSUME ring[b].epoch = 0 PROVE FALSE
            OBVIOUS
          <5>2. s = b
            BY <4>1, <4>2, <5>1, <1>0, <2>1, WrapBehind DEF Sample
          <5>3. ring[b].value = 0
            BY <1>0, <5>1 DEF Empty
          <5> QED BY <3>3, <4>2, <5>1, <5>2, <5>3 DEF Sample
        <4>4. ring[b].epoch = from.epoch + second - 1
          BY <1>0, <2>1, <4>3 DEF Loop
        <4>5. Behind(s)' = Behind(s) + 1 /\ Behind(s) \in Nat
          BY <1>0, <2>1, <3>3, WrapBehind
        <4> QED BY <1>0, <2>1, <2>3, <3>3, <4>1, <4>2, <4>4, <4>5 DEF Sample, ItTypeOK
      <3> QED BY <3>1, <3>2, <3>3
    <2>7. SecondsInOrder'
      BY <2>6 DEF SecondsInOrder
    <2>8. Empty' /\ Loop'
      BY <1>0, <2>1, <2>3, <2>5 DEF Empty, Loop, ItTypeOK, Sample
    <2> QED BY <2>4, <2>7, <2>8 DEF RingInv
  <1>4. CASE Leave
    BY <1>0, <1>4 DEF Leave, RingInv, ItTypeOK, SecondsInOrder, Empty, Loop, Behind
  <1> QED BY <1>1, <1>2, <1>3, <1>4 DEF ItNext

\* A dump of the ring is always the curve at one-second steps, without a gap
\* or a repetition, for every ring size and even when the clock is set.
THEOREM RingInOrder == ItSpec => []SecondsInOrder
  <1>1. RingInv => SecondsInOrder
    BY DEF RingInv
  <1> QED BY <1>1, RingInit, RingNext, PTL DEF ItSpec

-----------------------------------------------------------------------------
(* The curve                                                               *)

LEMMA DivBounds ==
  ASSUME NEW p \in Nat, NEW q \in Nat \ {0}, NEW n \in Nat, p <= q * n
  PROVE  p \div q \in 0 .. n /\ (p = q * n => p \div q = n)
  <1>1. q * (p \div q) <= p /\ p < q * (p \div q) + q /\ p \div q \in Int
    OBVIOUS
  <1>2. ASSUME NEW m \in Int, NEW k \in Int, q * k < q * m + q PROVE k <= m
    BY <1>2
  <1>3. q * 0 < q * (p \div q) + q
    BY <1>1
  <1>4. q * (p \div q) < q * n + q
    BY <1>1
  <1>5. p = q * n => q * n < q * (p \div q) + q
    BY <1>1
  <1>6. 0 <= p \div q /\ p \div q <= n /\ (p = q * n => n <= p \div q)
    BY <1>1, <1>2, <1>3, <1>4, <1>5
  <1> QED BY <1>1, <1>6

\* C's division puts each second of a line between its ends, and the last one
\* on the end, in both directions.
LEMMA QuotientBetween ==
  ASSUME NEW d \in Nat \ {0}, NEW k \in 0 .. d, NEW v \in Int
  PROVE  /\ v >= 0 => Quotient(k * v, d) \in 0 .. v
         /\ v <= 0 => Quotient(k * v, d) \in v .. 0
         /\ k = d => Quotient(k * v, d) = v
  <1>1. CASE v >= 0
    <2>1. k * v \in Nat /\ k * v <= d * v /\ v \in Nat
      BY <1>1
    <2>2. (k * v) \div d \in 0 .. v /\ (k = d => (k * v) \div d = v)
      BY <2>1, DivBounds
    <2> QED BY <1>1, <2>1, <2>2 DEF Quotient
  <1>2. CASE v < 0
    <2> DEFINE w == -v
    <2>1. w \in Nat /\ k * w \in Nat /\ k * w <= d * w /\ -(k * v) = k * w /\ k * v \in Int
      BY <1>2
    <2>2. (k * w) \div d \in 0 .. w /\ (k = d => (k * w) \div d = w)
      BY <2>1, DivBounds
    <2>3. CASE k * v < 0
      BY <1>2, <2>1, <2>2, <2>3 DEF Quotient
    <2>4. CASE k * v >= 0
      <3>1. k * v = 0 /\ k * w = 0
        BY <2>1, <2>4
      <3>2. 0 \div d = 0
        OBVIOUS
      <3> QED BY <1>2, <2>1, <2>2, <3>1, <3>2 DEF Quotient
    <2> QED BY <2>1, <2>3, <2>4
  <1> QED BY <1>1, <1>2

\* While the loop runs, the newest second is the line's last one, and the
\* value the curve will end at is the line's end, if the line leads anywhere.
OnCurve ==
  /\ second = 0 => ring[b] = newest
  /\ second > 0 => newest = IF points > 1 THEN to ELSE ring[b]
  /\ second > 0 => second = 1 \/ second <= points
  /\ second > 1 => ring[b] = Line(second - 1)

LEMMA CurveInit == ItInit => OnCurve
  BY RingAssumption DEF ItInit, OnCurve, Slot

LEMMA CurveNext == RingInv /\ OnCurve /\ [ItNext]_itVars => OnCurve'
  <1> SUFFICES ASSUME RingInv, OnCurve, [ItNext]_itVars PROVE OnCurve'
    OBVIOUS
  <1>0. ItTypeOK /\ Loop /\ b \in Slot /\ second \in Nat /\ points \in Int
    BY DEF RingInv, ItTypeOK
  <1>1. CASE UNCHANGED itVars
    BY <1>1 DEF OnCurve, Line, itVars
  <1>2. ASSUME NEW epoch \in 1 .. MaxEpoch, NEW power \in Powers, Enter(epoch, power)
        PROVE  OnCurve'
    <2>1. /\ second = 0 /\ ring' = ring /\ b' = b /\ second' = 1 /\ epoch \in Nat /\ epoch > 0
          /\ newest' = IF epoch > ring[b].epoch THEN to' ELSE newest
          /\ points' = IF ring[b].epoch = 0 THEN 2 ELSE epoch - ring[b].epoch + 1
          /\ ring[b].epoch \in Nat /\ newest = ring[b]
      BY <1>0, <1>2 DEF Enter, ItTypeOK, Sample, OnCurve
    <2>2. points' > 1 <=> epoch > ring[b].epoch
      BY <2>1
    <2> QED BY <2>1, <2>2 DEF OnCurve
  <1>3. CASE Put
    <2>1. /\ second > 0 /\ second < points /\ b' = Wrap(b)
          /\ ring' = [ring EXCEPT ![b'] = Line(second)]
          /\ second' = second + 1 /\ UNCHANGED <<from, to, points, newest>>
      BY <1>3 DEF Put
    <2>2. ring'[b'] = Line(second)
      BY <1>0, <2>1, WrapBehind DEF ItTypeOK
    <2>3. Line(second - 1)' = Line(second)
      <3>1. second' - 1 = second
        BY <1>0, <2>1
      <3> QED BY <2>1, <3>1 DEF Line
    <2>4. newest = to
      BY <1>0, <2>1 DEF OnCurve
    <2> QED BY <1>0, <2>1, <2>2, <2>3, <2>4 DEF OnCurve
  <1>4. CASE Leave
    <2>1. second > 0 /\ second >= points /\ second' = 0 /\ UNCHANGED <<ring, b, newest>>
      BY <1>4 DEF Leave
    <2>2. CASE points <= 1
      BY <1>0, <2>1, <2>2 DEF OnCurve
    <2>3. CASE points > 1
      <3>1. /\ second = points /\ ring[b] = Line(second - 1) /\ newest = to
            /\ points = to.epoch - from.epoch + 1
        BY <1>0, <2>1, <2>3 DEF OnCurve, Loop
      <3>2. to \in Sample /\ from \in Sample
        BY <1>0 DEF ItTypeOK
      <3> DEFINE d == to.epoch - from.epoch
                 v == to.value - from.value
      <3>3. second - 1 = d /\ d \in Nat \ {0} /\ v \in Int
        BY <2>3, <3>1, <3>2 DEF Sample
      <3>4. Quotient(d * v, d) = v
        <4>1. d \in 0 .. d
          BY <3>3
        <4> HIDE DEF d, v
        <4> QED BY <3>3, <4>1, QuotientBetween
      <3>5. Line(second - 1) = [epoch |-> from.epoch + d, value |-> from.value + v]
        BY <3>3, <3>4 DEF Line
      <3>6. Line(second - 1) = to
        BY <3>2, <3>5 DEF Sample
      <3> QED BY <2>1, <3>1, <3>6 DEF OnCurve
    <2> QED BY <1>0, <2>2, <2>3
  <1> QED BY <1>1, <1>2, <1>3, <1>4 DEF ItNext

\* Every second of a line lies between the values it joins, and each line ends
\* at the live value it was drawn for: for all values, gaps and clocks, with
\* the rounding of the code.
THEOREM CurveOnLine == ItSpec => []OnLine
  <1>1. RingInv /\ OnCurve => OnLine
    <2> SUFFICES ASSUME RingInv, OnCurve, second > 1
                 PROVE  \/ from.value <= ring[b].value /\ ring[b].value <= to.value
                        \/ to.value <= ring[b].value /\ ring[b].value <= from.value
      BY DEF OnLine, OnCurve
    <2> DEFINE d == to.epoch - from.epoch
               v == to.value - from.value
               k == second - 1
    <2>1. /\ ring[b] = Line(k) /\ second <= points /\ points = d + 1
          /\ to \in Sample /\ from \in Sample /\ second \in Nat
      BY DEF RingInv, ItTypeOK, Loop, OnCurve
    <2>2. d \in Nat \ {0} /\ k \in 0 .. d /\ v \in Int /\ from.value \in Int /\ to.value \in Int
      BY <2>1 DEF Sample
    <2>3. ring[b].value = from.value + Quotient(k * v, d)
      BY <2>1 DEF Line
    <2>4. /\ v >= 0 => Quotient(k * v, d) \in 0 .. v
          /\ v <= 0 => Quotient(k * v, d) \in v .. 0
      BY <2>2, QuotientBetween
    <2> QED BY <2>2, <2>3, <2>4
  <1> QED BY <1>1, RingInit, RingNext, CurveInit, CurveNext, PTL DEF ItSpec

=============================================================================
