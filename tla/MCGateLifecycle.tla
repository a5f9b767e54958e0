-------------------------- MODULE MCGateLifecycle --------------------------
(* Small instances of GateLifecycle for TLC. *)
EXTENDS GateLifecycle

CONSTANTS s1, s2
=============================================================================
