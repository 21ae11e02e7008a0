------------------------------- MODULE MCMeter -------------------------------
(* What the io thread does with a pulse, one part per behaviour: the window *)
(* that makes a live value of pulses (three loads whose periods are more    *)
(* than half apart, settings changed at any time, a clock that is set once, *)
(* by more than any window lasts or by less than a period), the curve whose *)
(* steps are detected (a ring of 16 samples that comes round twice, loads   *)
(* that differ by more than the threshold), and the ring of seconds (gaps   *)
(* longer than the ring, a clock that may be set anywhere, values whose     *)
(* differences no gap divides evenly). Each part takes any values, so none  *)
(* waits for what the one before it makes.                                  *)
EXTENDS PulseWindow, EdgeDetect, Interpolation

VARIABLE part

GapSet == {2, 5, 11}
ClockSet == {-30, -3, 0, 3, 30}

\* Any two gaps deviate from each other by more than every delta.
ASSUME LoadsDiffer == \A g, h \in GapSet : g = h \/ ~Alike(g, h)

\* a part that does not run stands at one of its starts
WindowIdle ==
  calcTime = (CHOOSE c \in CalcTimes : TRUE) /\ delta = (CHOOSE d \in Deltas : TRUE)
EdgesIdle == levels = <<[value |-> (CHOOSE v \in Loads : TRUE), first |-> 1]>>

PartInit ==
  /\ \/ part = "window" /\ EdgesIdle
     \/ part = "edges" /\ WindowIdle
     \/ part = "seconds" /\ WindowIdle /\ EdgesIdle
  /\ Init /\ EdInit /\ ItInit

PartNext ==
  /\ \/ part = "window" /\ Next /\ UNCHANGED <<edVars, itVars>>
     \/ part = "edges" /\ EdNext /\ UNCHANGED <<vars, itVars>>
     \/ part = "seconds" /\ ItNext /\ UNCHANGED <<vars, edVars>>
  /\ UNCHANGED part

PartSpec == PartInit /\ [][PartNext]_<<part, vars, edVars, itVars>>

=============================================================================
