---------------------------- MODULE MCTaskKernel ----------------------------
(* Small instances of TaskKernel for TLC. *)
EXTENDS TaskKernel, TLC

ClientSymmetry == Permutations(Clients)
IntentSymmetry == Permutations(Intents)
EveryoneAlike == ClientSymmetry \cup IntentSymmetry
=============================================================================
