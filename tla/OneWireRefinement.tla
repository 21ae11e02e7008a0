------------------------- MODULE OneWireRefinement --------------------------
(* The registry as other connections see it changes by whole rounds.       *)
EXTENDS OneWire

Registry == INSTANCE SensorRegistry WITH Swapping <- MaxSwaps > 0

\* Whatever call fails in the middle of write_ow, and however many rounds its
\* transaction stays open, the settings page never sees a part of a round.
WholeRounds == Registry!RegistrySpec

=============================================================================
