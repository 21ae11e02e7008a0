----------------------------- MODULE MCPulseLog -----------------------------
(* Instances of PulseLog for TLC.                                          *)
EXTENDS PulseLogRefinement

=============================================================================
