------------------------------- MODULE MCBatch -------------------------------
(* The programs that work through the recorded data, one after the other:   *)
(* the clustering of steps, the search for devices, the energy of devices   *)
(* and the archive pages. Each behaviour is one of them; what they hand on  *)
(* goes through tables whose contents the modules choose freely.            *)
EXTENDS CMeans, Genetic, Energy, Archive

VARIABLE program

ClusterSet == 0 .. 3
RisingSet == {0, 1}
PeriodMap == [k \in ClusterSet |-> IF k = 0 THEN 1 ELSE IF k = 1 THEN 2 ELSE -1]
FoundMap == [k \in ClusterSet |-> IF k = 0 \/ k = 2 THEN 0 ELSE 2]
ShortYear == <<2, 1, 2>>

\* the programs that are not run stand at one of their starts
CMIdle == type = 1 /\ x = [i \in 1 .. MinSteps |-> (CHOOSE p \in Powers : TRUE)]
ArIdle ==
  /\ start = (CHOOSE t \in Dates : TRUE) /\ end = start
  /\ reso = (CHOOSE r \in Resolutions : TRUE)
  /\ rows = [k \in DOMAIN DateArr |-> 0]

Init ==
  /\ \/ program = "c_means" /\ ArIdle
     \/ program = "archive" /\ CMIdle
     \/ program \in {"genetic", "calcEnergy"} /\ ArIdle /\ CMIdle
  /\ GeInit /\ EnInit /\ CMInit /\ ArInit

\* the bounds are reached, or the program has ended
Done ==
  /\ \/ program = "c_means" /\ Ended /\ left = 0
     \/ program = "genetic" /\ (ge = "saved" \/ Len(devices) = MaxDevices)
     \/ program = "calcEnergy" /\ round = Rounds
     \/ program = "archive" /\ day > Len(dateArr)
  /\ UNCHANGED <<cmVars, geVars, enVars, arVars>>

Next ==
  /\ \/ program = "c_means" /\ CMNext /\ UNCHANGED <<geVars, enVars, arVars>>
     \/ program = "genetic" /\ GeNext /\ UNCHANGED <<cmVars, enVars, arVars>>
     \/ program = "calcEnergy" /\ EnNext /\ UNCHANGED <<cmVars, geVars, arVars>>
     \/ program = "archive" /\ ReadPrintData /\ UNCHANGED <<cmVars, geVars, enVars>>
     \/ Done
  /\ UNCHANGED program

Spec == Init /\ [][Next]_<<program, cmVars, geVars, enVars, arVars>>

=============================================================================
