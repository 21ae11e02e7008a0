---------------------------- MODULE PulseWindow -----------------------------
(***************************************************************************)
(* The live value of one meter: IO::pulsecollect and IO::pulsecalculate.   *)
(*                                                                         *)
(* The io thread collects periods into a window until there are e of them, *)
(* or until one deviates by more than deviceDelta percent from the period  *)
(* before. The value is the number of the window's pulses over the time    *)
(* they took. e is chosen at the window's first period so that a window    *)
(* lasts about deviceCalcTime.                                             *)
(*                                                                         *)
(* Times are in whole units and relative: elapsed is timerV[2] - timerV[1] *)
(* of the last pulse, by the wall clock, which may be set between pulses.  *)
(* A pulse and the calculation it causes are one step: the io thread alone *)
(* uses these fields, and read_io changes the settings between pulses.     *)
(***************************************************************************)
EXTENDS Integers

CONSTANTS
  Gaps,        \* the times from one pulse to the next
  ClockSteps,  \* what the wall clock may be set by between two pulses
  MaxSteps,    \* bound: how often it is
  CalcTimes,   \* values of deviceCalcTime
  Deltas,      \* values of deviceDelta, in percent
  Waits        \* how long pulsecollect may wait for iolock

ASSUME DomainAssumption ==
  /\ Gaps \subseteq Nat \ {0} /\ Waits \subseteq Nat
  /\ ClockSteps \subseteq Int /\ MaxSteps \in Nat
  /\ CalcTimes \subseteq Nat /\ Deltas \subseteq Nat

VARIABLES
  calcTime, delta,  \* the settings read_io has copied last
  i,                \* periods collected in the window; -1 before any pulse
  e,                \* periods to collect
  elapsed,          \* timerV[2] - timerV[1]: since the window's start
  t4,               \* timerV[4]: the period before
  t5,               \* timerV[5]: elapsed at the pulse before
  value,            \* the last value: pulses and the time they took
  steps,            \* how often the clock was set
  (* history, in true time *)
  held,             \* the gaps in the window: how many, their sum, even or not
  disturbed,        \* a wait or a set clock has touched the window
  gap, steady       \* the last gap, and how often it came since a value

settings == <<calcTime, delta>>
window == <<i, e, elapsed, t4, t5, value>>
history == <<held, disturbed, gap, steady>>
vars == <<settings, window, steps, history>>

-----------------------------------------------------------------------------
Abs(x) == IF x < 0 THEN -x ELSE x

\* static_cast<int>(deviceCalcTime/period), and 1 for 0
Periods(c, p) ==
  LET q == IF p > 0 THEN c \div p ELSE -(c \div (-p))
  IN  IF q = 0 THEN 1 ELSE q

\* (mutant of Deviates) only a longer period deviates
DeviatesIfLonger(p, q) == q = 0 \/ (q > 0 /\ (p - q) * 100 > delta * q)

\* fabs(p - q)*100/q > deviceDelta in doubles: q = 0 gives infinity, q < 0
\* (the clock was set back) a quotient that is not positive.
Deviates(p, q) == q = 0 \/ (q > 0 /\ Abs(p - q) * 100 > delta * q)

\* the gaps a and b of two pulses are of one load, whatever deviceDelta was
Alike(a, b) == \E d \in Deltas : Abs(b - a) * 100 <= d * a

NoGaps == [count |-> 0, sum |-> 0, even |-> TRUE]

\* the window's gaps when g comes after the last
With(g) == [count |-> held.count + 1, sum |-> held.sum + g,
            even |-> held.even /\ (held.count = 0 \/ Alike(gap, g))]

NoValue == [pulses |-> 0, time |-> 0, held |-> NoGaps, exact |-> TRUE]

Init ==
  /\ calcTime \in CalcTimes /\ delta \in Deltas
  /\ i = -1 /\ e = -100
  /\ elapsed = 0 /\ t4 = 0 /\ t5 = 0
  /\ value = NoValue
  /\ steps = 0
  /\ held = NoGaps /\ disturbed = FALSE
  /\ gap = 0 /\ steady = 0

ReadIo ==
  /\ calcTime' \in CalcTimes /\ delta' \in Deltas
  /\ UNCHANGED <<window, steps, history>>

-----------------------------------------------------------------------------
(* A pulse g after the last one, the clock having been set by s            *)

\* timerV[3]
Period(g, s) == elapsed + g + s - t5

\* e as it is when the new period is judged
Wanted(p) == IF i = 0 THEN Periods(calcTime, p) ELSE e

\* Clocks count microseconds: no two pulses of a window carry the same time.
\* A pulse comes after the calculation that started the window.
Arrives(g, s) ==
  /\ i >= 0
  /\ g + elapsed > 0 \/ elapsed >= 0
  /\ Period(g, s) # 0
  /\ s # 0 => steps < MaxSteps
  /\ steps' = IF s = 0 THEN steps ELSE steps + 1
  /\ gap' = g

Steadier(g, s) == steady' = IF g = gap /\ s = 0 THEN steady + 1 ELSE 1

\* the first pulse ever starts the timer
First(g) ==
  /\ i = -1
  /\ i' = 0 /\ elapsed' = 0 /\ t5' = 0 /\ t4' = 0
  /\ gap' = g /\ steady' = 1
  /\ UNCHANGED <<settings, e, value, steps, held, disturbed>>

\* (mutant of Restart) the new window keeps the old start
RestartKeepsTimer(g, s) ==
  /\ Arrives(g, s) /\ Steadier(g, s)
  /\ i = 0 /\ Deviates(Period(g, s), t4)
  /\ e' = Wanted(Period(g, s))
  /\ elapsed' = elapsed + g + s /\ t5' = 0
  /\ t4' = Period(g, s)
  /\ held' = NoGaps /\ disturbed' = FALSE
  /\ UNCHANGED <<settings, i, value>>

\* "Delta 1": the first period of a window deviates; the window starts anew
\* at this pulse.
Restart(g, s) ==
  /\ Arrives(g, s) /\ Steadier(g, s)
  /\ i = 0 /\ Deviates(Period(g, s), t4)
  /\ e' = Wanted(Period(g, s))
  /\ elapsed' = 0 /\ t5' = 0
  /\ t4' = Period(g, s)
  /\ held' = NoGaps /\ disturbed' = FALSE
  /\ UNCHANGED <<settings, i, value>>

Count(g, s) ==
  /\ Arrives(g, s) /\ Steadier(g, s)
  /\ ~Deviates(Period(g, s), t4) /\ i + 1 # Wanted(Period(g, s))
  /\ i' = i + 1 /\ e' = Wanted(Period(g, s))
  /\ elapsed' = elapsed + g + s /\ t5' = elapsed'
  /\ t4' = Period(g, s)
  /\ held' = With(g) /\ disturbed' = (disturbed \/ s # 0)
  /\ UNCHANGED <<settings, value>>

\* pulsecalculate reads the clock again for the next window's start: w after
\* the pulse when pulsecollect had to wait for iolock.
Calculate(pulses, time, gaps, exact, w) ==
  /\ value' = [pulses |-> pulses, time |-> time, held |-> gaps, exact |-> exact]
  /\ i' = 0 /\ e' = 0 /\ t5' = 0 /\ elapsed' = 0 - w
  /\ held' = NoGaps /\ disturbed' = (w # 0)
  /\ steady' = 0

Complete(g, s, w) ==
  /\ Arrives(g, s)
  /\ ~Deviates(Period(g, s), t4) /\ i + 1 = Wanted(Period(g, s))
  /\ t4' = Period(g, s)
  /\ Calculate(i + 1, elapsed + g + s, With(g), ~disturbed /\ s = 0, w)
  /\ UNCHANGED settings

\* (mutant of Cut) the deviating period stays in the time
CutKeepsTime(g, s, w) ==
  /\ Arrives(g, s)
  /\ i > 0 /\ Deviates(Period(g, s), t4)
  /\ t4' = Period(g, s)
  /\ Calculate(i, elapsed + g + s, held, ~disturbed, w)
  /\ UNCHANGED settings

\* "Delta 2": a later period deviates; it is taken off again and the value
\* is that of the periods before it.
Cut(g, s, w) ==
  /\ Arrives(g, s)
  /\ i > 0 /\ Deviates(Period(g, s), t4)
  /\ t4' = Period(g, s)
  /\ Calculate(i, elapsed + g + s - Period(g, s), held, ~disturbed, w)
  /\ UNCHANGED settings

Pulse(g, s) ==
  Restart(g, s) \/ Count(g, s) \/ \E w \in Waits : Complete(g, s, w) \/ Cut(g, s, w)

Next ==
  \/ ReadIo
  \/ \E g \in Gaps : First(g) \/ \E s \in ClockSteps : Pulse(g, s)

Spec == Init /\ [][Next]_vars

-----------------------------------------------------------------------------
(* Properties                                                              *)

TypeOK ==
  /\ calcTime \in CalcTimes /\ delta \in Deltas
  /\ i \in Nat \union {-1} /\ e \in Int
  /\ i = -1 => t4 = 0 /\ value = NoValue
  /\ elapsed \in Int /\ t4 \in Int /\ t5 \in Int
  /\ held \in [count : Nat, sum : Nat, even : BOOLEAN]
  /\ value \in [pulses : Nat, time : Int, exact : BOOLEAN,
                held : [count : Nat, sum : Nat, even : BOOLEAN]]
  /\ steps \in Nat /\ disturbed \in BOOLEAN
  /\ gap \in Gaps \union {0} /\ steady \in Nat

\* The live value is the mean of whole periods: exactly so many pulses in
\* exactly the time they took, through restarts and cut-off periods. Only a
\* window in which the clock was set, or which began while pulsecollect
\* waited for iolock, may be off.
ValueExact ==
  value.exact => value.pulses = value.held.count /\ value.time = value.held.sum

\* A value never mixes two loads: each of its gaps is within deviceDelta of
\* the gap before, unless the clock or a wait hid the change.
OneLoad == value.exact => value.held.even

\* The time under the value is positive: setting the clock once, forward or
\* back, never turns the power infinite or negative, as long as deviceDelta is
\* at most 100 percent. (The settings page takes up to 999; then a clock set
\* back by little passes for a period, and the sum may be negative.)
PositiveTime == value.pulses > 0 => value.time > 0

\* A meter that pulses steadily gets its value: at the latest when it has
\* filled deviceCalcTime after two pulses that found the first period. The
\* window is closed by i == e: neither a change of deviceCalcTime nor a set
\* clock makes i skip e, after which it would never close.
ValueComes ==
  /\ gap # 0 /\ ~disturbed => \E c \in CalcTimes : steady < Periods(c, gap) + 2
  /\ i > 0 => i < e

=============================================================================
