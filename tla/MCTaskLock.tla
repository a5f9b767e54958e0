----------------------------- MODULE MCTaskLock -----------------------------
(* Small instances of TaskLock for TLC. *)
EXTENDS TaskLock, TLC

WriterSymmetry == Permutations(Writers)
=============================================================================
