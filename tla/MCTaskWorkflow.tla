-------------------------- MODULE MCTaskWorkflow --------------------------
(* Small instances of TaskWorkflow for TLC.  The digest of a result binds   *)
(* its phase, so each run gives two subjects to the phase it is about and   *)
(* one to the others. *)
EXTENDS TaskWorkflow, TLC

CONSTANTS s1, s2

OneRoundOrOpen == s1 :> 1 @@ s2 :> 0

Rich(phases, some, otherwise) ==
  [p \in Phases |-> IF p \in phases THEN some ELSE otherwise]
TwoDesigns == Rich({2}, {s1, s2}, {s1})

(* A rule that waits, one that proceeds, and phases without a rule. *)
EachItsOwn ==
  [p \in Phases |->
     CASE p = 1 -> {"wait"} [] p = 2 -> {"proceed"} [] OTHER -> {"none"}]

=============================================================================
