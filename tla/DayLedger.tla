----------------------------- MODULE DayLedger ------------------------------
(***************************************************************************)
(* What the pulse accounting promises, without threads, locks or a         *)
(* database: pulses are counted into the minute that is open; a minute is  *)
(* closed and belongs to the day it was open in; a closed minute is posted *)
(* to that day once, for the devices that are logged, or dropped; a        *)
(* restart forgets what is not posted and nothing else.                    *)
(***************************************************************************)
EXTENDS Integers

CONSTANTS Devices, Days, None

VARIABLES
  day,      \* the day of the open minute
  open,     \* the pulses of the open minute
  closed,   \* the closed minute that is not posted yet
  bill      \* the pulses posted to each day

ledgerVars == <<day, open, closed, bill>>

Nil == [d \in Devices |-> 0]

NoMinute == [day |-> None, pulses |-> Nil]

LedgerInit ==
  /\ day \in Days
  /\ open = Nil
  /\ closed = NoMinute
  /\ bill = [k \in Days |-> Nil]

Count(d) ==
  /\ open' = [open EXCEPT ![d] = @ + 1]
  /\ UNCHANGED <<day, closed, bill>>

CloseMinute ==
  /\ closed = NoMinute
  /\ closed' = [day |-> day, pulses |-> open]
  /\ open' = Nil
  /\ day' \in Days \cap {day, day + 1}
  /\ UNCHANGED bill

Post(S) ==
  /\ closed # NoMinute
  /\ bill' = [bill EXCEPT ![closed.day] =
                [d \in Devices |-> @[d] + IF d \in S THEN closed.pulses[d] ELSE 0]]
  /\ closed' = NoMinute
  /\ UNCHANGED <<day, open>>

Drop ==
  /\ closed # NoMinute
  /\ closed' = NoMinute
  /\ UNCHANGED <<day, open, bill>>

\* a stop or a start: days may have passed
Restart ==
  /\ open' = Nil /\ closed' = NoMinute
  /\ day' \in {k \in Days : k >= day}
  /\ UNCHANGED bill

LedgerNext ==
  \/ \E d \in Devices : Count(d)
  \/ CloseMinute
  \/ \E S \in SUBSET Devices : Post(S)
  \/ Drop
  \/ Restart

LedgerSpec == LedgerInit /\ [][LedgerNext]_ledgerVars
=============================================================================
