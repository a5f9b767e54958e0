-------------------------- MODULE ProjectionInstall --------------------------
(***************************************************************************)
(* Installing images into the working trees (src/state/snapshots.ts):       *)
(* observe, check, write and roll back the files of several repositories    *)
(* while a person may edit any of them.  WorkSubmission uses it for the     *)
(* results of production.                                                   *)
(*                                                                          *)
(* Each file of the plan has an image it was prepared from and an image to   *)
(* install.  A rename destination is a file prepared from absence, so its    *)
(* extra check in the code is the same comparison.                           *)
(***************************************************************************)
EXTENDS Naturals

CONSTANTS
    Members,     \* number of repositories, the primary first
    Entries,     \* number of files in each one
    Bytes,       \* what a file may hold
    MaxEdits     \* bound: how many edits a person makes

ASSUME SizeAssumption == Members \in Nat \ {0} /\ Entries \in Nat \ {0}
ASSUME LimitAssumption == MaxEdits \in Nat

(* A file: the repository it is in and its place in the order of its paths. *)
Paths == (1 .. Members) \X (1 .. Entries)
Nowhere == <<0, 0>>
FilesOf(m) == {p \in Paths : p[1] = m}

Absent == "absent"
Images == Bytes \cup {Absent}
ASSUME AbsentAssumption == Absent \notin Bytes

Earlier(p, q) == p[1] < q[1] \/ (p[1] = q[1] /\ p[2] < q[2])

FirstOf(S) == IF S = {} THEN Nowhere ELSE CHOOSE p \in S : \A q \in S \ {p} : Earlier(p, q)

LastOf(S) == IF S = {} THEN Nowhere ELSE CHOOSE p \in S : \A q \in S \ {p} : Earlier(q, p)

Results == {"none", "refused", "collision", "applied", "rolled-back", "repair-required", "thrown", "crashed"}

VARIABLES
    content,    \* what an observation of each file yields
    scope,      \* the files of the plan
    before,     \* the image each one was prepared from (authenticated_before)
    after,      \* the image to install (desired)
    planned,    \* what the plan observed (observed_before)
    pc,         \* the loop the installer is in
    at,         \* the file that loop is at
    failing,    \* the repository whose generation was lost
    result,     \* what the installer returned
    written,    \* files this run wrote and nobody changed back
    foreign,    \* files last changed by a person since the work was declared
    raced,      \* files edited between the last look at them and their write
    edits       \* how many edits were made

plan == <<scope, before, after>>
ghosts == <<written, foreign, raced>>

Following(p) == FirstOf({q \in scope : Earlier(p, q)})

Preceding(p) == LastOf({q \in scope : Earlier(q, p)})

Go(label, p) == pc' = label /\ at' = p

Return(r) == result' = r /\ Go("idle", Nowhere)

(* A plan for the files S, in every repository: each is observed once. *)
Begin(S, old, new) ==
    /\ pc = "idle" /\ S # {}
    /\ scope' = S /\ before' = old /\ after' = new
    /\ Go("plan", FirstOf(S))
    /\ result' = "none"
    /\ failing' = 0
    /\ written' = {} /\ raced' = {}

Observe == planned' = [planned EXCEPT ![at] = content[at]]

Plan ==
    /\ pc = "plan"
    /\ Observe
    /\ IF Following(at) # Nowhere THEN Go("plan", Following(at)) ELSE Go("check", FirstOf(scope))
    /\ UNCHANGED <<content, plan, failing, result, ghosts, edits>>

(* Every repository is checked against its plan before any is written: a file  *)
(* that was neither image is a collision, one that changed since as well.      *)
Check ==
    /\ pc = "check"
    /\ \/ /\ planned[at] \in {before[at], after[at]} /\ content[at] = planned[at]
          /\ IF Following(at) # Nowhere THEN Go("check", Following(at)) ELSE Go("recheck", FirstOf(scope))
          /\ UNCHANGED result
       \/ /\ planned[at] \notin {before[at], after[at]} \/ content[at] # planned[at]
          /\ Return("collision")
    /\ UNCHANGED <<content, plan, planned, failing, ghosts, edits>>

(* What-if: a lost generation stops the run without undoing its writes. *)
UndoNothing(p) ==
    /\ failing' = at[1]
    /\ Return("rolled-back")

(* The generation was lost in the repository at hand: undo everything up to p. *)
Undo(p) ==
    /\ failing' = at[1]
    /\ result' = "rolled-back"
    /\ IF p = Nowhere THEN Go("idle", Nowhere) ELSE Go("undo", p)

(* Then each repository's whole plan again, just before its first write. *)
Recheck ==
    /\ pc = "recheck"
    /\ \/ /\ content[at] = planned[at]
          /\ IF Following(at)[1] = at[1] THEN Go("recheck", Following(at))
             ELSE Go("look", FirstOf(scope \cap FilesOf(at[1])))
          /\ UNCHANGED <<failing, result>>
       \/ /\ content[at] # planned[at]
          /\ Undo(Preceding(<<at[1], 0>>))
    /\ UNCHANGED <<content, plan, planned, ghosts, edits>>

(* On to the next file, the next repository or the end. *)
Advance ==
    IF Following(at) = Nowhere THEN Return("applied")
    ELSE /\ Go(IF Following(at)[1] = at[1] THEN "look" ELSE "recheck", Following(at))
         /\ UNCHANGED result

(* What-if: the plan's observation is trusted when the file's turn comes. *)
LookAway ==
    /\ pc = "look"
    /\ IF planned[at] = after[at] THEN Advance ELSE Go("write", at) /\ UNCHANGED result
    /\ UNCHANGED <<content, plan, planned, failing, ghosts, edits>>

(* A file that already holds its image is left alone; another is looked at    *)
(* once more before it is written.                                            *)
Look ==
    /\ pc = "look"
    /\ \/ /\ planned[at] = after[at]
          /\ Advance
          /\ UNCHANGED failing
       \/ /\ planned[at] # after[at] /\ content[at] = planned[at]
          /\ Go("write", at)
          /\ UNCHANGED <<failing, result>>
       \/ /\ planned[at] # after[at] /\ content[at] # planned[at]
          /\ Undo(Preceding(at))
    /\ UNCHANGED <<content, plan, planned, ghosts, edits>>

(* What-if: a failed write leaves the file missing. *)
WriteTorn ==
    /\ pc = "write"
    /\ \/ /\ content' = [content EXCEPT ![at] = after[at]]
          /\ written' = written \cup {at}
          /\ foreign' = foreign \ {at}
          /\ Advance
       \/ /\ content' = [content EXCEPT ![at] = Absent]
          /\ foreign' = foreign \ {at}
          /\ Return("thrown")
          /\ UNCHANGED written
    /\ UNCHANGED <<plan, planned, failing, raced, edits>>

(* The image replaces the file by one rename (or the file is unlinked); a      *)
(* write that throws may or may not have done so.                             *)
Write ==
    /\ pc = "write"
    /\ \/ /\ content' = [content EXCEPT ![at] = after[at]]
          /\ written' = written \cup {at}
          /\ foreign' = foreign \ {at}
          /\ Advance \/ Return("thrown")
       \/ /\ Return("thrown")
          /\ UNCHANGED <<content, written, foreign>>
    /\ UNCHANGED <<plan, planned, failing, raced, edits>>

(* Rollback goes backwards through what the run wrote, the repository at hand *)
(* first.  A file that no longer holds what was written stops it there: the    *)
(* earlier repositories are still restored unless it is in one of those.       *)
UndoLook ==
    /\ pc = "undo"
    /\ \/ /\ planned[at] = after[at]
          /\ Go(IF Preceding(at) = Nowhere THEN "idle" ELSE "undo", Preceding(at))
          /\ UNCHANGED result
       \/ /\ planned[at] # after[at] /\ content[at] = after[at]
          /\ Go("undo-write", at)
          /\ UNCHANGED result
       \/ /\ planned[at] # after[at] /\ content[at] # after[at]
          /\ result' = "repair-required"
          /\ LET rest == Preceding(<<failing, 0>>)
             IN  IF at[1] = failing /\ rest # Nowhere THEN Go("undo", rest) ELSE Go("idle", Nowhere)
    /\ UNCHANGED <<content, plan, planned, failing, ghosts, edits>>

UndoWrite ==
    /\ pc = "undo-write"
    /\ \/ /\ content' = [content EXCEPT ![at] = planned[at]]
          /\ written' = written \ {at}
          /\ \/ /\ Go(IF Preceding(at) = Nowhere THEN "idle" ELSE "undo", Preceding(at))
                /\ UNCHANGED result
             \/ Return("thrown")
       \/ /\ Return("thrown")
          /\ UNCHANGED <<content, written>>
    /\ UNCHANGED <<plan, planned, failing, foreign, raced, edits>>

(* The process dies; nothing it holds in memory is needed again. *)
Crash ==
    /\ pc # "idle"
    /\ Return("crashed")
    /\ failing' = 0
    /\ planned' = [p \in Paths |-> Absent]
    /\ UNCHANGED <<content, plan, ghosts, edits>>

(* A person changes files; exposed are those the installer took its last look  *)
(* at and has yet to write.                                                   *)
Change(new, exposed) ==
    LET changed == {p \in Paths : new[p] # content[p]}
    IN  /\ changed # {}
        /\ content' = new
        /\ written' = written \ changed
        /\ foreign' = foreign \cup changed
        /\ raced' = raced \cup (changed \cap exposed)
        /\ UNCHANGED <<plan, planned, pc, at, failing, result>>

Edit(p, exposed) ==
    /\ edits < MaxEdits
    /\ edits' = edits + 1
    /\ \E image \in Images : Change([content EXCEPT ![p] = image], exposed)

AboutToWrite == IF pc \in {"write", "undo-write"} THEN {at} ELSE {}

Installing == Plan \/ Check \/ Recheck \/ Look \/ Write \/ UndoLook \/ UndoWrite

-----------------------------------------------------------------------------
(* Properties *)

InstallTypeOK ==
    /\ {content, before, after, planned} \subseteq [Paths -> Images]
    /\ scope \subseteq Paths
    /\ failing \in 0 .. Members
    /\ result \in Results
    /\ written \subseteq Paths /\ foreign \subseteq Paths /\ raced \subseteq Paths
    /\ edits \in 0 .. MaxEdits

Ended(r) == pc = "idle" /\ result = r

(* An installation ends all or nothing, however edits and the loss of a later    *)
(* repository fall between its steps: a run that reports a collision or a        *)
(* rollback leaves none of its writes in any repository, and one that reports    *)
(* success has every file at its image, except where somebody edited it          *)
(* (snapshots.ts:853).                                                           *)
EndsAllOrNothing ==
    /\ Ended("collision") \/ Ended("rolled-back") => written = {}
    /\ Ended("applied") => \A p \in scope \ foreign : content[p] = after[p]

(* Whatever a crash, a failed write or an interrupted rollback left behind, a    *)
(* later run does not take it for somebody's edit.                              *)
LeftoversNeverCollide == Ended("collision") => foreign # {}
=============================================================================
