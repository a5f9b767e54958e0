---------------------------- MODULE PhaseLedger ----------------------------
(* What the workflow promises about authority, with no history in it: a set *)
(* of trusted subjects.  Trust is given or withdrawn only where the task    *)
(* stands and only for the work it holds there, leaving a phase takes it,   *)
(* and going back withdraws it from everything revisited.                   *)
EXTENDS Naturals

CONSTANTS Subjects, None, LastPhase

VARIABLES phase, subject, trusted, done
ledgerVars == <<phase, subject, trusted, done>>

LedgerInit ==
  /\ phase = 1 /\ done = FALSE
  /\ subject = [p \in 1..LastPhase |-> None]
  /\ trusted = {}

(* New work may be trusted or mistrusted as it arrives, other work may not. *)
Work(s) ==
  /\ ~done
  /\ subject' = [subject EXCEPT ![phase] = s]
  /\ trusted' \in {trusted, trusted \cup {<<phase, s>>}, trusted \ {<<phase, s>>}}
  /\ UNCHANGED <<phase, done>>

(* An operator vouches again for something this phase once held. *)
Vouch(s) ==
  /\ ~done
  /\ trusted' = trusted \cup {<<phase, s>>}
  /\ UNCHANGED <<phase, subject, done>>

Judge ==
  /\ ~done /\ subject[phase] # None
  /\ Work(subject[phase])

MoveOn ==
  /\ ~done /\ <<phase, subject[phase]>> \in trusted
  /\ \/ phase < LastPhase /\ phase' = phase + 1 /\ done' = done
     \/ phase' = phase /\ done' = TRUE
  /\ UNCHANGED <<subject, trusted>>

GoBack(target) ==
  /\ ~done /\ target < phase
  /\ phase' = target
  /\ subject' = [p \in 1..LastPhase |-> IF p < target THEN subject[p] ELSE None]
  /\ trusted' = {pair \in trusted : pair[1] < target}
  /\ UNCHANGED done

StartOver ==
  /\ ~done
  /\ subject' = [subject EXCEPT ![phase] = None]
  /\ trusted' = {pair \in trusted : pair[1] # phase}
  /\ UNCHANGED <<phase, done>>

LedgerNext ==
  \/ \E s \in Subjects : Work(s) \/ Vouch(s)
  \/ Judge \/ MoveOn \/ StartOver
  \/ \E target \in 1..LastPhase : GoBack(target)

LedgerSpec == LedgerInit /\ [][LedgerNext]_ledgerVars
=============================================================================
