------------------------- MODULE PulseLogRefinement -------------------------
(***************************************************************************)
(* A prompt daemon (PulseLog) implements the ledger of days (DayLedger).   *)
(***************************************************************************)
EXTENDS PulseLog

\* main() has sampled a new minute and has not closed the one before
TickDue ==
  pc = "tick" \/ (pc \in {"readio", "check"} /\ now.min # writeMin)

\* the refinement mapping
LedgerDay == IF TickDue THEN TableOf(now) ELSE now.day

LedgerOpen == IF Running THEN [d \in Devices |-> today[d] - minus[d]] ELSE Zero

LedgerClosed ==
  IF Writing THEN [day |-> TableOf(now), pulses |-> minuteP]
  ELSE [day |-> None, pulses |-> Zero]

Ledger == INSTANCE DayLedger WITH
  Days <- Day, day <- LedgerDay, open <- LedgerOpen, closed <- LedgerClosed, bill <- db

\* Pulses are posted to the day of their minute, all of a minute's at once,
\* once or never, whatever interleaving of threads, failed write, crash or
\* restart: every step of a daemon that keeps up with its clock is a step of
\* the ledger, or none.
ImplementsLedger == Ledger!LedgerSpec
=============================================================================
