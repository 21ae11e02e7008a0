----------------------------- MODULE MCOneWire ------------------------------
(* A registry that knows one of the sensors at first.                      *)
EXTENDS OneWireRefinement, TLC

CONSTANTS s1, s2, s3

\* the registry does not know these apart
NewSensors == Permutations({s2, s3})

KnownOne == [id \in {0} |-> s1]
KnownTwo == [id \in {0, 1} |-> IF id = 0 THEN s1 ELSE s2]
\* with the two known sensors, the other pair of different rows is a renaming
RowsZeroOne == {<<0, 1>>}

=============================================================================
