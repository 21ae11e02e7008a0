---------------------------- MODULE MCDateString ----------------------------
(* Days of two hours of six minutes, months of two days; the instance      *)
(* starts on the second day so that every midnight has a day before it.    *)
EXTENDS DateString

=============================================================================
