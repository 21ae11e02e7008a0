--------------------------- MODULE Interpolation ----------------------------
(***************************************************************************)
(* The power curve at one-second steps: IO::interpolate fills the seconds  *)
(* between two live values with a straight line, in a ring that the server *)
(* dumps whole for the client's Fourier transform (type 3).                *)
(*                                                                         *)
(* The loop runs under iolock, one second per step; the dump takes the     *)
(* same lock. The wall clock may be set forward or back between values.    *)
(***************************************************************************)
EXTENDS Integers

CONSTANTS
  BufferLength2,  \* BUFFERLENGTH2: 256 in the program
  Powers,         \* the values of deviceValueCalc
  MaxEpoch        \* bound: the last epoch of the clock

ASSUME RingAssumption == BufferLength2 \in Nat \ {0, 1}

ASSUME InputAssumption == Powers \subseteq Nat /\ MaxEpoch \in Nat

Slot == 0 .. BufferLength2 - 1

VARIABLES
  ring,    \* x_interp, and y_interp, which holds the same
  b,       \* buffercounter2
  from,    \* x0, y0 of the call under way
  to,      \* x1, y1: deviceEpoch and deviceValueCalc
  second,  \* the loop's i; 0 when iolock is free
  points,  \* points
  newest   \* history: the value that reached the newest second, and when

itVars == <<ring, b, from, to, second, points, newest>>

\* C's division, which drops the fraction
Quotient(p, q) == IF p >= 0 THEN p \div q ELSE -((-p) \div q)

Wrap(s) == IF s + 1 = BufferLength2 THEN 0 ELSE s + 1

ItInit ==
  /\ ring = [s \in Slot |-> [epoch |-> 0, value |-> 0]]
  /\ b = 0
  /\ from = [epoch |-> 0, value |-> 0] /\ to = [epoch |-> 0, value |-> 0]
  /\ second = 0 /\ points = 0
  /\ newest = [epoch |-> 0, value |-> 0]

\* A new live value: the line starts at the newest second of the ring, or a
\* second before this one at the first call.
Enter(epoch, value) ==
  /\ second = 0
  /\ to' = [epoch |-> epoch, value |-> value]
  /\ IF ring[b].epoch = 0
       THEN from' = [epoch |-> epoch - 1, value |-> value] /\ points' = 2
       ELSE from' = ring[b] /\ points' = epoch - ring[b].epoch + 1
  /\ second' = 1
  /\ newest' = IF epoch > ring[b].epoch THEN to' ELSE newest
  /\ UNCHANGED <<ring, b>>

\* (mutant of Line) the distance is taken from the line's other end
LineFromEnd(k) ==
  [epoch |-> from.epoch + k,
   value |-> from.value + Quotient((from.epoch + k - to.epoch) * (to.value - from.value),
                                   to.epoch - from.epoch)]

\* one second of the line
Line(k) ==
  [epoch |-> from.epoch + k,
   value |-> from.value + Quotient(k * (to.value - from.value), to.epoch - from.epoch)]

\* (mutant of Put) a second is written before the counter moves on
PutBeforeStep ==
  /\ second > 0 /\ second < points
  /\ b' = Wrap(b)
  /\ ring' = [ring EXCEPT ![b] = Line(second)]
  /\ second' = second + 1
  /\ UNCHANGED <<from, to, points, newest>>

Put ==
  /\ second > 0 /\ second < points
  /\ b' = Wrap(b)
  /\ ring' = [ring EXCEPT ![b'] = Line(second)]
  /\ second' = second + 1
  /\ UNCHANGED <<from, to, points, newest>>

Leave ==
  /\ second > 0 /\ second >= points
  /\ second' = 0
  /\ UNCHANGED <<ring, b, from, to, points, newest>>

ItNext ==
  \/ \E epoch \in 1 .. MaxEpoch, value \in Powers : Enter(epoch, value)
  \/ Put \/ Leave

ItSpec == ItInit /\ [][ItNext]_itVars

-----------------------------------------------------------------------------
(* Properties                                                              *)

Sample == [epoch : Nat, value : Int]

ItTypeOK ==
  /\ ring \in [Slot -> Sample] /\ b \in Slot
  /\ from \in Sample /\ to \in Sample /\ newest \in Sample
  /\ second \in Nat /\ points \in Int

\* how many places slot s lies behind the newest
Behind(s) == IF s <= b THEN b - s ELSE b - s + BufferLength2

\* What a dump sends is the curve at one-second steps, in order and without
\* a gap or a repetition, with zeros before the start: the transform takes
\* the samples as equally spaced. Not even a clock set back breaks it.
SecondsInOrder ==
  \A s \in Slot :
    \/ ring[s] = [epoch |-> 0, value |-> 0]
    \/ ring[s].epoch = ring[b].epoch - Behind(s)

\* Every second of a line lies between the two values it joins, and the curve
\* ends at the live value that reached its newest second: the integer line
\* hits its end point, whatever was rounded on the way.
OnLine ==
  /\ second > 1 =>
       \/ from.value <= ring[b].value /\ ring[b].value <= to.value
       \/ to.value <= ring[b].value /\ ring[b].value <= from.value
  /\ second = 0 => ring[b] = newest

=============================================================================
