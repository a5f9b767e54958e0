------------------------- MODULE TaskWorkflowProofs -------------------------
(***************************************************************************)
(* Machine-checked facts about TaskWorkflow for any number of rounds, any   *)
(* subjects and rule conclusions, and any bounds on attempts and resets.    *)
(***************************************************************************)
EXTENDS TaskWorkflow, TLAPS

(* A gate of work, and the checkpoint it leaves, ask about work there is.   *)
AskedWorkExists == gate \in {"approval", "drift"} \/ checkpoint => work[at.phase] # None

(* Nothing else is asked at a checkpoint, and nothing of a completed task.  *)
OneAsk ==
  /\ checkpoint => gate = "none" /\ pendingHuman = None
  /\ terminal => gate = "none" /\ ~checkpoint

(* No record is from the future: its stamp is at most the present one.     *)
StampsPast ==
  \A p \in Phases, s \in Subjects : approved[p][s] <= Now /\ settled[p][s].stamp <= Now

(* The inductive invariant: what the properties need of each other and of   *)
(* the dates of the ledger. *)
WorkflowInv ==
  /\ TypeOK /\ AskedWorkExists /\ OneAsk /\ StampsPast
  /\ UpstreamAuthorized /\ OpenGateIsCurrent /\ UnreadableOnlyUnderRevision /\ BoundFits

LEMMA Typing ==
  /\ None \notin Subjects
  /\ Rounds \in Nat /\ MaxAttempt \in Nat \ {0} /\ MaxResets \in Nat /\ MaxReanchors \in Nat
  /\ LastPhase \in Nat /\ 1 \in Phases /\ 1 \in 1..MaxAttempt
  /\ \A p \in Phases : Results[p] \subseteq Subjects
  /\ \A s \in Subjects : PlannedRounds[s] \in 0..Rounds
BY WorkflowAssumption DEF LastPhase, Phases

(* Where the task stands, read field by field. *)
LEMMA PositionTyped ==
  /\ \A x : x \in Position => x.phase \in Phases /\ x.attempt \in 1..MaxAttempt
  /\ \A x \in Position, step \in {"produce", "counter_review", "triage"},
        status \in {"running", "succeeded", "failed"}, n \in 1..MaxAttempt :
        /\ [x EXCEPT !.status = status] \in Position
        /\ [x EXCEPT !.step = step, !.status = status] \in Position
        /\ [x EXCEPT !.status = status, !.attempt = n] \in Position
        /\ [x EXCEPT !.step = step, !.status = status, !.attempt = n] \in Position
BY DEF Position

LEMMA InitTyped == Init => TypeOK
<1> SUFFICES ASSUME Init PROVE TypeOK
  OBVIOUS
<1>1. at \in Position
  BY Typing DEF Init, Position
<1>2. 0 \in Stamps /\ 0 \in 0..Rounds /\ 0 \in 0..MaxReanchors
  BY Typing DEF Stamps
<1>3. approved \in [Phases -> [Subjects -> Stamps]]
  BY <1>2 DEF Init
<1>4. settled \in [Phases -> [Subjects -> Settlement]]
  BY <1>2 DEF Init, Settlement
<1>5. resets \in Seq(Reset) /\ Len(resets) <= MaxResets
  BY Typing DEF Init
<1> QED
  BY <1>1, <1>2, <1>3, <1>4, <1>5 DEF Init, TypeOK

(* What a phase's work has become is recorded in the same way by all four   *)
(* ways of finishing a produce step. *)
LEMMA RecordTyped ==
  ASSUME TypeOK, NEW s \in Subjects, Record(s)
  PROVE  /\ work' \in [Phases -> Subjects \cup {None}]
         /\ bound' \in 0..Rounds
<1>1. work' \in [Phases -> Subjects \cup {None}]
  BY DEF TypeOK, Record
<1>2. PlannedRounds[s] \in 0..Rounds /\ 0 \in 0..Rounds /\ bound \in 0..Rounds /\ 1..Rounds \subseteq 0..Rounds
  BY Typing DEF TypeOK
<1>3. Rebound(s) \subseteq 0..Rounds
  BY <1>2 DEF Rebound
<1> QED
  BY <1>1, <1>3 DEF Record

LEMMA NowTyped == TypeOK => Now \in Stamps
BY Typing DEF TypeOK, Now, Stamps

LEMMA SettleTyped ==
  ASSUME TypeOK, NEW p \in Phases, NEW s \in Subjects, NEW wait \in BOOLEAN, Settle(p, s, wait)
  PROVE  /\ settled' \in [Phases -> [Subjects -> Settlement]]
         /\ latest' \in [Phases -> Subjects \cup {None}]
<1>1. [wait |-> wait, stamp |-> Now] \in Settlement
  BY NowTyped DEF Settlement
<1> QED
  BY <1>1 DEF TypeOK, Settle

LEMMA SettleAsTyped ==
  ASSUME TypeOK, NEW p \in Phases, NEW s \in Subjects, NEW c, SettleAs(p, s, c)
  PROVE  /\ settled' \in [Phases -> [Subjects -> Settlement]]
         /\ latest' \in [Phases -> Subjects \cup {None}]
<1>1. CASE c = "none"
  BY <1>1 DEF SettleAs, settlements, TypeOK
<1>2. CASE c # "none"
  <2>1. Settle(p, s, c = "wait") /\ (c = "wait") \in BOOLEAN
    BY <1>2 DEF SettleAs
  <2> QED
    BY <2>1, SettleTyped
<1> QED
  BY <1>1, <1>2

(* A settlement committed again keeps what it concluded. *)
LEMMA RecommitTyped ==
  ASSUME TypeOK, NEW s \in Subjects, Recommit(s)
  PROVE  /\ settled' \in [Phases -> [Subjects -> Settlement]]
         /\ latest' \in [Phases -> Subjects \cup {None}]
<1>1. at.phase \in Phases
  BY PositionTyped DEF TypeOK
<1>2. settled[at.phase][s] \in Settlement
  BY <1>1 DEF TypeOK
<1>3. settled[at.phase][s].wait \in BOOLEAN
  BY <1>2 DEF Settlement
<1> QED
  BY <1>1, <1>3, SettleTyped DEF Recommit

(* A reset adds itself to the history and drops the work it reaches. *)
LEMMA ResetTyped ==
  ASSUME TypeOK, CanReset, NEW r \in Reset, resets' = Append(resets, r)
  PROVE  resets' \in Seq(Reset) /\ Len(resets') <= MaxResets
<1>1. resets' \in Seq(Reset) /\ Len(resets') = Len(resets) + 1
  BY DEF TypeOK
<1> QED
  BY <1>1, Typing DEF TypeOK, CanReset

LEMMA RestartTyped ==
  ASSUME TypeOK, NEW target \in Phases, RestartAt(target)
  PROVE  TypeOK'
<1>1. [kind |-> "restart", target |-> target] \in Reset
  BY DEF Reset
<1>2. resets' \in Seq(Reset) /\ Len(resets') <= MaxResets
  BY <1>1, ResetTyped DEF RestartAt
<1>3. at' \in Position
  BY Typing DEF RestartAt, Position
<1>4. work' \in [Phases -> Subjects \cup {None}]
  BY DEF TypeOK, RestartAt
<1>5. bound' \in 0..Rounds
  BY Typing DEF TypeOK, RestartAt
<1> QED
  BY <1>2, <1>3, <1>4, <1>5 DEF TypeOK, RestartAt, settlements

LEMMA TypeStep ==
  ASSUME TypeOK, AskedWorkExists, [Next]_vars
  PROVE  TypeOK'
<1> USE DEF cycle, ledger, settlements, asks
<1>0. at \in Position /\ at.phase \in Phases /\ at.attempt \in 1..MaxAttempt
  BY PositionTyped DEF TypeOK
<1>1. ASSUME NEW step \in {"produce", "counter_review", "triage"}, EnterStep(step) PROVE TypeOK'
  <2>1. at' \in Position
    BY <1>0, <1>1, PositionTyped DEF EnterStep
  <2> QED
    BY <1>1, <2>1 DEF TypeOK, EnterStep
<1>2. CASE Fail
  <2>1. at' \in Position
    BY <1>0, <1>2, PositionTyped, Typing DEF Fail
  <2> QED
    BY <1>2, <2>1 DEF TypeOK, Fail
<1>3. ASSUME NEW s \in Results[at.phase], Produce(s) PROVE TypeOK'
  <2>1. s \in Subjects /\ Record(s)
    BY <1>0, <1>3, Typing DEF Produce
  <2>2. at' \in Position
    BY <1>0, <1>3, PositionTyped, Typing DEF Produce
  <2> QED
    BY <1>3, <2>1, <2>2, RecordTyped DEF TypeOK, Produce, Record
<1>4. ASSUME NEW s \in Results[at.phase], Correct(s) PROVE TypeOK'
  <2>1. s \in Subjects /\ Record(s)
    BY <1>0, <1>4, Typing DEF Correct
  <2>2. PICK c \in Conclusions[at.phase] : SettleAs(at.phase, s, c)
    BY <1>4 DEF Correct
  <2>3. /\ settled' \in [Phases -> [Subjects -> Settlement]]
        /\ latest' \in [Phases -> Subjects \cup {None}]
    BY <1>0, <2>1, <2>2, SettleAsTyped
  <2>4. work' \in [Phases -> Subjects \cup {None}] /\ bound' \in 0..Rounds
    BY <2>1, RecordTyped
  <2>5. at' \in Position
    BY <1>0, <1>4, PositionTyped, Typing DEF Correct
  <2>6. predecessor' \in Subjects \cup {None}
    BY <1>0, <1>4 DEF TypeOK, Correct
  <2> QED
    BY <1>4, <2>1, <2>3, <2>4, <2>5, <2>6 DEF TypeOK, Correct, Record
<1>5. ASSUME NEW s \in Results[at.phase], ReviseSimply(s) \/ ReviseSignificantly(s) PROVE TypeOK'
  <2>1. s \in Subjects /\ Record(s)
    BY <1>0, <1>5, Typing DEF ReviseSimply, ReviseSignificantly
  <2>2. work' \in [Phases -> Subjects \cup {None}] /\ bound' \in 0..Rounds
    BY <2>1, RecordTyped
  <2>3. at' \in Position
    BY <1>0, <1>5, PositionTyped, Typing DEF ReviseSimply, ReviseSignificantly
  <2>4. /\ triage' \in {triage, None} /\ pendingHuman' = None /\ UNCHANGED settlements
        /\ predecessor' \in Subjects \cup {None}
    BY <1>5 DEF TypeOK, ReviseSimply, ReviseSignificantly
  <2> QED
    BY <2>1, <2>2, <2>3, <2>4 DEF TypeOK, Record
<1>6. CASE FinishReview
  <2>1. at' \in Position
    BY <1>0, <1>6, PositionTyped, Typing DEF FinishReview
  <2> QED
    BY <1>6, <2>1 DEF TypeOK, FinishReview
<1>7. ASSUME NEW verdict \in Verdicts, FinishTriage(verdict) PROVE TypeOK'
  <2>1. work[at.phase] \in Subjects
    BY <1>0, <1>7 DEF TypeOK, FinishTriage
  <2>2. PICK c \in Conclusions[at.phase] \cup {"none"} : SettleAs(at.phase, work[at.phase], c)
    BY <1>7 DEF FinishTriage
  <2>3. /\ settled' \in [Phases -> [Subjects -> Settlement]]
        /\ latest' \in [Phases -> Subjects \cup {None}]
    BY <1>0, <2>1, <2>2, SettleAsTyped
  <2>4. at' \in Position
    BY <1>0, <1>7, PositionTyped, Typing DEF FinishTriage
  <2> QED
    BY <1>7, <2>1, <2>3, <2>4 DEF TypeOK, FinishTriage
<1>8. CASE Advance
  <2>1. at.phase + 1 \in Phases
    BY <1>0, <1>8, Typing DEF Advance, Phases
  <2>2. at' \in Position
    BY <1>8, <2>1, Typing DEF Advance, Position
  <2>3. at.phase = 2 => work[2] \in Subjects
    BY <1>0, <1>8 DEF TypeOK, Advance, Leaving, CurrentIsAuthorized
  <2>4. bound' \in 0..Rounds
    BY <1>8, <2>3, Typing DEF TypeOK, Advance
  <2> QED
    BY <1>8, <2>2, <2>4 DEF TypeOK, Advance
<1>9. CASE Complete
  BY <1>9 DEF TypeOK, Complete
<1>10. CASE RequestOverride
  <2>1. at' \in Position
    BY <1>0, <1>10, PositionTyped, Typing DEF RequestOverride
  <2> QED
    BY <1>10, <2>1 DEF TypeOK, RequestOverride
<1>11. ASSUME NEW kind \in {"approval", "drift", "override"}, OpenGate(kind) PROVE TypeOK'
  BY <1>11 DEF TypeOK, OpenGate
<1>12. CASE Approve
  <2>1. work[at.phase] \in Subjects
    BY <1>0, <1>12 DEF TypeOK, Approve, AskedWorkExists
  <2>2. approved' \in [Phases -> [Subjects -> Stamps]]
    BY <1>0, <1>12, <2>1, NowTyped DEF TypeOK, Approve
  <2>3. bound' \in 0..Rounds
    BY <1>12, <2>1, Typing DEF TypeOK, Approve
  <2> QED
    BY <1>12, <2>2, <2>3 DEF TypeOK, Approve
<1>13. CASE CloseGate
  BY <1>13 DEF TypeOK, CloseGate
<1>14. CASE DecideRevision
  BY <1>14 DEF TypeOK, DecideRevision
<1>15. CASE EnterRevision \/ ReviseAtOnce
  <2>1. work[at.phase] \in Subjects
    BY <1>0, <1>15 DEF TypeOK, EnterRevision, ReviseAtOnce, AskedWorkExists
  <2>2. Reopened
    BY <1>15 DEF EnterRevision, ReviseAtOnce
  <2>3. at' \in Position
    BY <1>0, <2>2, PositionTyped DEF Reopened
  <2>4. pendingHuman' \in [subject : Subjects, attempt : 1..MaxAttempt]
    BY <1>0, <2>1, <2>2 DEF Reopened
  <2>5. gate' \in {gate, "none"} /\ checkpoint' \in {checkpoint, FALSE}
    BY <1>15 DEF EnterRevision, ReviseAtOnce
  <2> QED
    BY <2>2, <2>3, <2>4, <2>5 DEF TypeOK, Reopened
<1>16. ASSUME NEW target \in Phases, Restart(target) \/ AmendUpstream(target) PROVE TypeOK'
  <2>1. RestartAt(target)
    BY <1>16 DEF Restart, AmendUpstream
  <2> QED
    BY <2>1, RestartTyped
<1>17. CASE RecoverMilestone
  <2>1. [kind |-> "recovery", target |-> at.phase] \in Reset
    BY <1>0 DEF Reset
  <2>2. resets' \in Seq(Reset) /\ Len(resets') <= MaxResets
    BY <1>17, <2>1, ResetTyped DEF RecoverMilestone
  <2>3. at' \in Position
    BY <1>0, <1>17, PositionTyped, Typing DEF RecoverMilestone
  <2>4. work' \in [Phases -> Subjects \cup {None}]
    BY <1>0, <1>17 DEF TypeOK, RecoverMilestone
  <2> QED
    BY <1>17, <2>2, <2>3, <2>4 DEF TypeOK, RecoverMilestone
<1>18. CASE RecoverTrigger
  <2>1. at' \in Position
    BY <1>0, <1>18, PositionTyped, Typing DEF RecoverTrigger
  <2> QED
    BY <1>18, <2>1 DEF TypeOK, RecoverTrigger
<1>19. CASE RefreshBaseline
  <2>1. work[at.phase] \in Subjects /\ Recommit(work[at.phase])
    BY <1>0, <1>19 DEF TypeOK, RefreshBaseline
  <2> QED
    BY <1>19, <2>1, RecommitTyped DEF TypeOK, RefreshBaseline
<1>20. CASE SetCommitAuthority
  <2>1. latest[at.phase] \in Subjects /\ Recommit(latest[at.phase])
    BY <1>0, <1>20 DEF TypeOK, SetCommitAuthority
  <2>2. reanchors' \in 0..MaxReanchors
    BY <1>20, Typing DEF TypeOK, SetCommitAuthority
  <2>3. /\ settled' \in [Phases -> [Subjects -> Settlement]]
        /\ latest' \in [Phases -> Subjects \cup {None}]
    BY <2>1, RecommitTyped
  <2> QED
    BY <1>20, <2>2, <2>3 DEF TypeOK, SetCommitAuthority
<1>21. CASE UNCHANGED vars
  BY <1>21 DEF TypeOK, vars
<1> QED
  BY <1>1, <1>2, <1>3, <1>4, <1>5, <1>6, <1>7, <1>8, <1>9, <1>10, <1>11, <1>12, <1>13, <1>14,
     <1>15, <1>16, <1>17, <1>18, <1>19, <1>20, <1>21 DEF Next

-----------------------------------------------------------------------------
(* The shapes of a step *)

(* A step that leaves the phase and the history of resets alone: it touches  *)
(* the results and the authority of the phase it stands in and no other, and *)
(* what it grants it grants now. *)
StaysInPhase ==
  /\ at'.phase = at.phase /\ ~terminal' /\ resets' = resets
  /\ \A p \in Phases : p # at.phase =>
       work'[p] = work[p] /\ approved'[p] = approved[p] /\ settled'[p] = settled[p]
  /\ \A p \in Phases, s \in Subjects :
       /\ approved'[p][s] \in {approved[p][s], Now}
       /\ settled'[p][s].stamp \in {settled[p][s].stamp, Now}
  /\ at.phase > 2 => bound' \in {bound, 0} \/ bound' >= Number(at.phase)

LEMMA SettleLocal ==
  ASSUME TypeOK, NEW s \in Subjects, NEW wait, Settle(at.phase, s, wait)
  PROVE  /\ \A p \in Phases : p # at.phase => settled'[p] = settled[p]
         /\ \A p \in Phases, x \in Subjects : settled'[p][x].stamp \in {settled[p][x].stamp, Now}
<1>1. at.phase \in Phases
  BY PositionTyped DEF TypeOK
<1>2. \A p \in Phases, x \in Subjects :
        settled'[p][x] = IF p = at.phase /\ x = s THEN [wait |-> wait, stamp |-> Now]
                         ELSE settled[p][x]
  BY <1>1 DEF TypeOK, Settle
<1>3. \A p \in Phases : p # at.phase => settled'[p] = settled[p]
  BY <1>1 DEF TypeOK, Settle
<1> QED
  BY <1>2, <1>3

LEMMA SettleAsLocal ==
  ASSUME TypeOK, NEW s \in Subjects, NEW c, SettleAs(at.phase, s, c)
  PROVE  /\ \A p \in Phases : p # at.phase => settled'[p] = settled[p]
         /\ \A p \in Phases, x \in Subjects : settled'[p][x].stamp \in {settled[p][x].stamp, Now}
<1>1. CASE c = "none"
  BY <1>1 DEF SettleAs, settlements
<1>2. CASE c # "none"
  BY <1>2, SettleLocal DEF SettleAs
<1> QED
  BY <1>1, <1>2

LEMMA RecordLocal ==
  ASSUME TypeOK, NEW s \in Subjects, Record(s)
  PROVE  /\ \A p \in Phases : p # at.phase => work'[p] = work[p]
         /\ work'[at.phase] = s
         /\ at.phase > 2 => bound' \in {bound, 0} \/ bound' >= Number(at.phase)
<1>1. at.phase \in Phases
  BY PositionTyped DEF TypeOK
<1>2. \A p \in Phases : work'[p] = IF p = at.phase THEN s ELSE work[p]
  BY <1>1 DEF TypeOK, Record
<1>3. at.phase > 2 => bound' \in {bound, 0} \/ bound' >= Number(at.phase)
  BY <1>1 DEF Record, Rebound, Phases
<1> QED
  BY <1>1, <1>2, <1>3

(* No step is taken by a completed task; a gate opens, a checkpoint is left *)
(* and a task completes by one action each; and an unreadable state could   *)
(* come only from the handlers that write a gate. *)
AskShape ==
  /\ ~terminal
  /\ terminal' => Complete
  /\ checkpoint' => DecideRevision
  /\ \/ gate' = "none" \/ \E kind \in {"approval", "drift", "override"} : OpenGate(kind)
  /\ \/ Readable' \/ Approve \/ CloseGate \/ DecideRevision
     \/ \E kind \in {"approval", "drift", "override"} : OpenGate(kind)

LEMMA StepAsks ==
  ASSUME OneAsk, Next
  PROVE  AskShape
<1> USE DEF OneAsk, AskShape, Movable, Idle, asks
<1>1. ASSUME NEW step \in {"produce", "counter_review", "triage"}, EnterStep(step) PROVE AskShape
  BY <1>1 DEF EnterStep
<1>2. CASE Fail
  BY <1>2 DEF Fail
<1>3. ASSUME NEW s \in Results[at.phase], Produce(s) \/ Correct(s) \/ ReviseSimply(s) \/ ReviseSignificantly(s) PROVE AskShape
  BY <1>3 DEF Produce, Correct, ReviseSimply, ReviseSignificantly, Record, Producing
<1>4. CASE FinishReview
  BY <1>4 DEF FinishReview
<1>5. ASSUME NEW verdict \in Verdicts, FinishTriage(verdict) PROVE AskShape
  BY <1>5 DEF FinishTriage
<1>6. CASE Advance \/ Complete
  BY <1>6 DEF Advance, Complete, Leaving
<1>7. CASE RequestOverride
  BY <1>7 DEF RequestOverride, Producing
<1>8. ASSUME NEW kind \in {"approval", "drift", "override"}, OpenGate(kind) PROVE AskShape
  BY <1>8 DEF OpenGate
<1>9. CASE Approve \/ CloseGate \/ DecideRevision
  BY <1>9 DEF Approve, CloseGate, DecideRevision
<1>10. CASE EnterRevision \/ ReviseAtOnce
  BY <1>10 DEF EnterRevision, ReviseAtOnce, Reopened
<1>11. ASSUME NEW target \in Phases, Restart(target) \/ AmendUpstream(target) PROVE AskShape
  BY <1>11 DEF Restart, AmendUpstream, RestartAt
<1>12. CASE RecoverMilestone \/ RecoverTrigger
  BY <1>12 DEF RecoverMilestone, RecoverTrigger
<1>13. CASE RefreshBaseline \/ SetCommitAuthority
  BY <1>13 DEF RefreshBaseline, SetCommitAuthority
<1> QED
  BY <1>1, <1>2, <1>3, <1>4, <1>5, <1>6, <1>7, <1>8, <1>9, <1>10, <1>11, <1>12, <1>13 DEF Next

(* A step that touches no result, no authority and no bound. *)
LEMMA Untouched ==
  ASSUME TypeOK, ~terminal, at'.phase = at.phase,
         UNCHANGED <<work, approved, settled, resets, bound, terminal>>
  PROVE  StaysInPhase
BY DEF StaysInPhase

LEMMA RecordStays ==
  ASSUME TypeOK, ~terminal, NEW s \in Subjects, Record(s), at'.phase = at.phase,
         \A p \in Phases : p # at.phase => settled'[p] = settled[p],
         \A p \in Phases, x \in Subjects : settled'[p][x].stamp \in {settled[p][x].stamp, Now}
  PROVE  StaysInPhase
<1>1. UNCHANGED <<approved, resets, terminal>>
  BY DEF Record
<1> QED
  BY <1>1, RecordLocal DEF StaysInPhase

(* The field of a position that no step but a change of phase touches. *)
LEMMA SamePhase ==
  ASSUME NEW x \in Position
  PROVE  \A step, status, n :
           /\ [x EXCEPT !.status = status].phase = x.phase
           /\ [x EXCEPT !.step = step, !.status = status].phase = x.phase
           /\ [x EXCEPT !.status = status, !.attempt = n].phase = x.phase
           /\ [x EXCEPT !.step = step, !.status = status, !.attempt = n].phase = x.phase
BY DEF Position

LEMMA StepShape ==
  ASSUME TypeOK, OneAsk, Next
  PROVE  \/ StaysInPhase \/ Advance \/ Complete \/ RecoverMilestone
         \/ \E target \in Phases : RestartAt(target)
<1> DEFINE Shape == \/ StaysInPhase \/ Advance \/ Complete \/ RecoverMilestone
                    \/ \E target \in Phases : RestartAt(target)
<1>0. ~terminal /\ at \in Position /\ at.phase \in Phases
  BY StepAsks, PositionTyped DEF AskShape, TypeOK
<1> USE DEF cycle, ledger, settlements, asks
<1>1. ASSUME NEW step \in {"produce", "counter_review", "triage"}, EnterStep(step) PROVE Shape
  <2>1. at'.phase = at.phase
    BY <1>0, <1>1, SamePhase DEF EnterStep
  <2> QED
    BY <1>0, <1>1, <2>1, Untouched DEF EnterStep
<1>2. CASE Fail \/ FinishReview \/ RequestOverride \/ RecoverTrigger
  <2>1. at'.phase = at.phase
    <3>1. CASE Fail
      BY <1>0, <3>1, SamePhase DEF Fail
    <3>2. CASE FinishReview
      BY <1>0, <3>2, SamePhase DEF FinishReview
    <3>3. CASE RequestOverride
      BY <1>0, <3>3, SamePhase DEF RequestOverride
    <3>4. CASE RecoverTrigger
      BY <1>0, <3>4, SamePhase DEF RecoverTrigger
    <3> QED
      BY <1>2, <3>1, <3>2, <3>3, <3>4
  <2>2. UNCHANGED <<work, approved, settled, resets, bound, terminal>>
    BY <1>2 DEF Fail, FinishReview, RequestOverride, RecoverTrigger
  <2> QED
    BY <1>0, <2>1, <2>2, Untouched
<1>3. ASSUME NEW s \in Results[at.phase],
             Produce(s) \/ ReviseSimply(s) \/ ReviseSignificantly(s)
      PROVE  Shape
  <2>1. s \in Subjects /\ Record(s) /\ UNCHANGED settled
    BY <1>0, <1>3, Typing DEF Produce, ReviseSimply, ReviseSignificantly
  <2>2. at'.phase = at.phase
    <3>1. CASE Produce(s)
      BY <1>0, <3>1, SamePhase DEF Produce
    <3>2. CASE ReviseSimply(s)
      BY <1>0, <3>2, SamePhase DEF ReviseSimply
    <3>3. CASE ReviseSignificantly(s)
      BY <1>0, <3>3, SamePhase DEF ReviseSignificantly
    <3> QED
      BY <1>3, <3>1, <3>2, <3>3
  <2> QED
    BY <1>0, <2>1, <2>2, RecordStays
<1>4. ASSUME NEW s \in Results[at.phase], Correct(s) PROVE Shape
  <2>1. s \in Subjects /\ Record(s)
    BY <1>0, <1>4, Typing DEF Correct
  <2>2. PICK c \in Conclusions[at.phase] : SettleAs(at.phase, s, c)
    BY <1>4 DEF Correct
  <2>3. at'.phase = at.phase
    BY <1>0, <1>4, SamePhase DEF Correct
  <2> QED
    BY <1>0, <2>1, <2>2, <2>3, SettleAsLocal, RecordStays
<1>5. ASSUME NEW verdict \in Verdicts, FinishTriage(verdict) PROVE Shape
  <2>1. work[at.phase] \in Subjects
    BY <1>0, <1>5 DEF TypeOK, FinishTriage
  <2>2. PICK c \in Conclusions[at.phase] \cup {"none"} : SettleAs(at.phase, work[at.phase], c)
    BY <1>5 DEF FinishTriage
  <2>3. at'.phase = at.phase
    BY <1>0, <1>5, SamePhase DEF FinishTriage
  <2>4. UNCHANGED <<work, approved, resets, bound, terminal>>
    BY <1>5 DEF FinishTriage
  <2> QED
    BY <1>0, <2>1, <2>2, <2>3, <2>4, SettleAsLocal DEF StaysInPhase
<1>6. CASE Approve
  <2>1. work[at.phase] # None => work[at.phase] \in Subjects
    BY <1>0 DEF TypeOK
  <2>2. \A p \in Phases : p # at.phase => approved'[p] = approved[p]
    BY <1>0, <1>6 DEF TypeOK, Approve
  <2>3. \A p \in Phases, s \in Subjects : approved'[p][s] \in {approved[p][s], Now}
    BY <1>0, <1>6 DEF TypeOK, Approve
  <2>4. at.phase > 2 => bound' = bound
    BY <1>6 DEF Approve
  <2> QED
    BY <1>0, <1>6, <2>2, <2>3, <2>4 DEF Approve, StaysInPhase
<1>7. ASSUME \/ CloseGate \/ DecideRevision
             \/ \E kind \in {"approval", "drift", "override"} : OpenGate(kind)
      PROVE  Shape
  BY <1>0, <1>7, Untouched DEF CloseGate, DecideRevision, OpenGate
<1>8. CASE EnterRevision \/ ReviseAtOnce
  <2>1. Reopened
    BY <1>8 DEF EnterRevision, ReviseAtOnce
  <2>2. at'.phase = at.phase
    BY <1>0, <2>1, SamePhase DEF Reopened
  <2> QED
    BY <1>0, <2>1, <2>2, Untouched DEF Reopened
<1>9. ASSUME NEW target \in Phases, Restart(target) \/ AmendUpstream(target) PROVE Shape
  BY <1>9 DEF Restart, AmendUpstream
<1>10. CASE RefreshBaseline
  <2>1. work[at.phase] \in Subjects
    BY <1>0, <1>10 DEF TypeOK, RefreshBaseline
  <2>2. Settle(at.phase, work[at.phase], settled[at.phase][work[at.phase]].wait)
    BY <1>10 DEF RefreshBaseline, Recommit
  <2>3. UNCHANGED <<at, work, approved, resets, bound, terminal>>
    BY <1>10 DEF RefreshBaseline
  <2> QED
    BY <1>0, <2>1, <2>2, <2>3, SettleLocal DEF StaysInPhase
<1>11. CASE SetCommitAuthority
  <2>1. latest[at.phase] \in Subjects
    BY <1>0, <1>11 DEF TypeOK, SetCommitAuthority
  <2>2. Settle(at.phase, latest[at.phase], settled[at.phase][latest[at.phase]].wait)
    BY <1>11 DEF SetCommitAuthority, Recommit
  <2>3. UNCHANGED <<at, work, approved, resets, bound, terminal>>
    BY <1>11 DEF SetCommitAuthority
  <2> QED
    BY <1>0, <2>1, <2>2, <2>3, SettleLocal DEF StaysInPhase
<1> QED
  BY <1>1, <1>2, <1>3, <1>4, <1>5, <1>6, <1>7, <1>8, <1>9, <1>10, <1>11 DEF Next

-----------------------------------------------------------------------------
(* What a step does to authority *)

LEMMA EligibleAppend ==
  ASSUME TypeOK, NEW r \in Reset, resets' = Append(resets, r), NEW p, NEW stamp
  PROVE  Eligible(p, stamp)' <=> Eligible(p, stamp) /\ (Affects(r, p) => Len(resets) + 1 < stamp)
<1>1. /\ DOMAIN resets = 1..Len(resets) /\ Len(resets) \in Nat
      /\ DOMAIN resets' = 1..(Len(resets) + 1)
      /\ \A i \in 1..Len(resets) : resets'[i] = resets[i]
      /\ resets'[Len(resets) + 1] = r
  BY DEF TypeOK
<1> QED
  BY <1>1 DEF Eligible, Affects

LEMMA UpstreamStep ==
  ASSUME TypeOK, TypeOK', OneAsk, UpstreamAuthorized, Next
  PROVE  UpstreamAuthorized'
<1>0. ~terminal /\ at \in Position /\ at.phase \in Phases
  BY StepAsks, PositionTyped DEF AskShape, TypeOK
<1>1. CASE StaysInPhase
  <2> SUFFICES ASSUME NEW p \in Phases, p < at.phase
               PROVE  work'[p] # None /\ Authorized(p, work[p])'
    BY <1>1 DEF StaysInPhase, UpstreamAuthorized
  <2>1. p # at.phase /\ work[p] # None /\ Authorized(p, work[p])
    BY <1>0 DEF UpstreamAuthorized, Phases
  <2>2. work'[p] = work[p] /\ approved'[p] = approved[p] /\ settled'[p] = settled[p]
    BY <1>1, <2>1 DEF StaysInPhase
  <2>3. \A stamp : Eligible(p, stamp)' <=> Eligible(p, stamp)
    BY <1>1 DEF StaysInPhase, Eligible, Affects
  <2> QED
    BY <2>1, <2>2, <2>3 DEF Authorized, HumanApproved, RuleAccepted, SettledFor
<1>2. CASE Advance \/ Complete
  <2>1. work[at.phase] # None /\ Authorized(at.phase, work[at.phase])
    BY <1>2 DEF Advance, Complete, Leaving, CurrentIsAuthorized
  <2>2. UNCHANGED <<work, approved, settled, resets>>
    BY <1>2 DEF Advance, Complete, cycle, ledger, settlements
  <2>3. at'.phase \in {at.phase, at.phase + 1} /\ (terminal' => at'.phase = at.phase)
    BY <1>0, <1>2 DEF Advance, Complete
  <2>4. ASSUME NEW p \in Phases, p < at'.phase \/ (terminal' /\ p = at'.phase)
        PROVE  work'[p] # None /\ Authorized(p, work[p])'
    <3>1. p < at.phase \/ p = at.phase
      BY <1>0, <2>3, <2>4 DEF Phases
    <3>2. work[p] # None /\ Authorized(p, work[p])
      BY <2>1, <3>1 DEF UpstreamAuthorized
    <3> QED
      BY <2>2, <3>2 DEF Authorized, HumanApproved, RuleAccepted, SettledFor, Eligible, Affects
  <2> QED
    BY <2>4 DEF UpstreamAuthorized
<1>3. ASSUME NEW target \in Phases, RestartAt(target) PROVE UpstreamAuthorized'
  <2> DEFINE r == [kind |-> "restart", target |-> target]
  <2>1. r \in Reset /\ resets' = Append(resets, r) /\ UNCHANGED <<approved, settled>>
    BY <1>3 DEF RestartAt, Reset, settlements
  <2>2. at'.phase = target /\ ~terminal' /\ target < at.phase
    BY <1>0, <1>3 DEF RestartAt
  <2>3. ASSUME NEW p \in Phases, p < target
        PROVE  work'[p] # None /\ Authorized(p, work[p])'
    <3>1. ~Affects(r, p)
      BY <2>3 DEF Affects, Phases
    <3>2. work[p] # None /\ Authorized(p, work[p])
      BY <1>0, <2>2, <2>3 DEF UpstreamAuthorized, Phases
    <3>3. work'[p] = work[p]
      BY <1>3, <2>3 DEF RestartAt
    <3>4. \A stamp : Eligible(p, stamp)' <=> Eligible(p, stamp)
      BY <2>1, <3>1, EligibleAppend
    <3> QED
      BY <2>1, <3>2, <3>3, <3>4 DEF Authorized, HumanApproved, RuleAccepted, SettledFor
  <2> QED
    BY <2>2, <2>3 DEF UpstreamAuthorized
<1>4. CASE RecoverMilestone
  <2> DEFINE r == [kind |-> "recovery", target |-> at.phase]
  <2>1. r \in Reset /\ resets' = Append(resets, r) /\ UNCHANGED <<approved, settled>>
    BY <1>0, <1>4 DEF RecoverMilestone, Reset, settlements
  <2>2. at'.phase = at.phase /\ ~terminal'
    BY <1>0, <1>4, SamePhase DEF RecoverMilestone
  <2>3. ASSUME NEW p \in Phases, p < at.phase
        PROVE  work'[p] # None /\ Authorized(p, work[p])'
    <3>1. ~Affects(r, p)
      BY <1>0, <2>3 DEF Affects, Phases
    <3>2. work[p] # None /\ Authorized(p, work[p])
      BY <2>3 DEF UpstreamAuthorized
    <3>3. work'[p] = work[p]
      BY <1>0, <1>4, <2>3 DEF TypeOK, RecoverMilestone, Phases
    <3>4. \A stamp : Eligible(p, stamp)' <=> Eligible(p, stamp)
      BY <2>1, <3>1, EligibleAppend
    <3> QED
      BY <2>1, <3>2, <3>3, <3>4 DEF Authorized, HumanApproved, RuleAccepted, SettledFor
  <2> QED
    BY <2>2, <2>3 DEF UpstreamAuthorized
<1> QED
  BY <1>1, <1>2, <1>3, <1>4, StepShape

LEMMA StampsStep ==
  ASSUME TypeOK, OneAsk, StampsPast, Next
  PROVE  StampsPast'
<1>0. Len(resets) \in Nat
  BY DEF TypeOK
<1>1. CASE StaysInPhase
  <2>1. Now' = Now /\ Now \in Nat
    BY <1>0, <1>1 DEF StaysInPhase, Now
  <2>2. ASSUME NEW p \in Phases, NEW s \in Subjects
        PROVE  approved'[p][s] <= Now' /\ settled'[p][s].stamp <= Now'
    <3>1. approved[p][s] <= Now /\ settled[p][s].stamp <= Now
      BY DEF StampsPast
    <3> QED
      BY <1>1, <2>1, <3>1 DEF StaysInPhase
  <2> QED
    BY <2>2 DEF StampsPast
<1>2. CASE Advance \/ Complete
  BY <1>2 DEF Advance, Complete, ledger, settlements, StampsPast, Now
<1>3. ASSUME NEW r \in Reset, resets' = Append(resets, r), UNCHANGED <<approved, settled>>
      PROVE  StampsPast'
  <2>1. Now' = Now + 1 /\ Now \in Nat
    BY <1>0, <1>3 DEF TypeOK, Now
  <2>2. ASSUME NEW p \in Phases, NEW s \in Subjects
        PROVE  approved'[p][s] <= Now' /\ settled'[p][s].stamp <= Now'
    <3>1. approved[p][s] <= Now /\ settled[p][s].stamp <= Now
      BY DEF StampsPast
    <3>2. approved[p][s] \in Nat /\ settled[p][s].stamp \in Nat
      BY Typing DEF TypeOK, Settlement, Stamps
    <3> QED
      BY <1>3, <2>1, <3>1, <3>2
  <2> QED
    BY <2>2 DEF StampsPast
<1>4. ASSUME NEW target \in Phases, RestartAt(target) PROVE StampsPast'
  <2>1. [kind |-> "restart", target |-> target] \in Reset
    BY DEF Reset
  <2> QED
    BY <1>3, <1>4, <2>1 DEF RestartAt, settlements
<1>5. CASE RecoverMilestone
  <2>1. at.phase \in Phases
    BY PositionTyped DEF TypeOK
  <2>2. [kind |-> "recovery", target |-> at.phase] \in Reset
    BY <2>1 DEF Reset
  <2> QED
    BY <1>3, <1>5, <2>2 DEF RecoverMilestone, settlements
<1> QED
  BY <1>1, <1>2, <1>4, <1>5, StepShape

LEMMA AskedStep ==
  ASSUME AskedWorkExists, OneAsk, Next
  PROVE  AskedWorkExists'
<1>1. ASSUME NEW kind \in {"approval", "drift", "override"}, OpenGate(kind)
      PROVE  gate' \in {"approval", "drift"} => work'[at'.phase] # None
  BY <1>1 DEF OpenGate, Reviewed, cycle
<1>2. DecideRevision => work'[at'.phase] # None
  BY DEF DecideRevision, AskedWorkExists, cycle
<1> QED
  BY <1>1, <1>2, StepAsks DEF AskShape, AskedWorkExists

LEMMA OneAskStep ==
  ASSUME OneAsk, Next
  PROVE  OneAsk'
<1>1. DecideRevision => gate' = "none" /\ pendingHuman' = None
  BY DEF DecideRevision, Readable
<1>2. Complete => gate' = "none" /\ ~checkpoint'
  BY DEF Complete, Leaving, Movable, Idle, asks
<1> QED
  BY <1>1, <1>2, StepAsks DEF AskShape, OneAsk

LEMMA ReadableStep ==
  ASSUME TypeOK, OneAsk, Next
  PROVE  UnreadableOnlyUnderRevision'
<1>1. ASSUME NEW kind \in {"approval", "drift", "override"}, OpenGate(kind)
      PROVE  UnreadableOnlyUnderRevision'
  <2>1. CASE kind = "override"
    BY <1>1, <2>1 DEF OpenGate, Idle, Readable, UnreadableOnlyUnderRevision
  <2>2. CASE kind # "override"
    BY <1>1, <2>2 DEF OpenGate, Idle, Readable, UnreadableOnlyUnderRevision
  <2> QED
    BY <2>1, <2>2
<1>2. Approve => Readable'
  BY DEF Approve, Readable, TypeOK
<1>3. CloseGate => Readable'
  BY DEF CloseGate, Readable
<1>4. DecideRevision => Readable'
  BY DEF DecideRevision, Readable, TypeOK
<1> QED
  BY <1>1, <1>2, <1>3, <1>4, StepAsks DEF AskShape, UnreadableOnlyUnderRevision

LEMMA OpenGateStep ==
  ASSUME OneAsk, Next
  PROVE  OpenGateIsCurrent'
<1>1. ASSUME NEW kind \in {"approval", "drift", "override"}, OpenGate(kind)
      PROVE  OpenGateIsCurrent'
  <2>1. gate' = kind /\ UNCHANGED <<at, work, triage, predecessor, approved, settled, resets>>
    BY <1>1 DEF OpenGate, cycle, ledger, settlements
  <2>2. kind = "approval" => at.status = "succeeded" /\ Reviewed /\ ~CurrentIsAuthorized
    BY <1>1 DEF OpenGate
  <2>3. (Reviewed' <=> Reviewed) /\ (CurrentIsAuthorized' <=> CurrentIsAuthorized)
    BY <2>1 DEF Reviewed, Covers, CurrentIsAuthorized, Authorized, HumanApproved, RuleAccepted,
                SettledFor, Eligible, Affects
  <2> QED
    BY <2>1, <2>2, <2>3 DEF OpenGateIsCurrent
<1> QED
  BY <1>1, StepAsks DEF AskShape, OpenGateIsCurrent

LEMMA BoundStep ==
  ASSUME TypeOK, OneAsk, BoundFits, Next
  PROVE  BoundFits'
<1>a. at \in Position /\ at.phase \in Phases
  BY PositionTyped DEF TypeOK
<1>b. bound \in Nat
  BY Typing DEF TypeOK
<1>0. at \in Position /\ at.phase \in Phases /\ at.phase \in Nat /\ bound \in Nat
  BY <1>a, <1>b DEF Phases
<1>1. CASE StaysInPhase
  BY <1>0, <1>1 DEF StaysInPhase, BoundFits, Number
<1>2. CASE Advance
  <2>1. at'.phase = at.phase + 1 /\ ~EndsPlan
    BY <1>2 DEF Advance
  <2>2. CASE at.phase = 1
    BY <2>1, <2>2 DEF BoundFits
  <2>3. CASE at.phase = 2
    <3>1. Number(at'.phase) = 1
      BY <2>1, <2>3 DEF Number
    <3>2. bound' \in Nat
      BY <1>0, <1>2, <2>3, Typing DEF TypeOK, Advance, Leaving, CurrentIsAuthorized
    <3> QED
      BY <3>1, <3>2 DEF BoundFits
  <2>4. CASE at.phase > 2
    <3>1. bound' = bound /\ (bound # 0 => Number(at.phase) <= bound)
      BY <1>2, <2>4 DEF Advance, BoundFits
    <3>2. IsImpl(at.phase) => bound = 0 \/ Number(at.phase) # bound
      BY <2>1 DEF EndsPlan
    <3>3. Number(at'.phase) = IF IsImpl(at.phase) THEN Number(at.phase) + 1 ELSE Number(at.phase)
      BY <1>0, <2>1, <2>4 DEF Number, IsImpl
    <3>4. Number(at.phase) \in Nat
      BY <1>0, <2>4 DEF Number
    <3> QED
      BY <1>0, <3>1, <3>2, <3>3, <3>4 DEF BoundFits
  <2> QED
    BY <1>0, <2>2, <2>3, <2>4 DEF Phases
<1>3. CASE Complete
  BY <1>3 DEF Complete, BoundFits, Number
<1>4. ASSUME NEW target \in Phases, RestartAt(target) PROVE BoundFits'
  <2>1. at'.phase = target /\ target < at.phase /\ bound' \in {bound, 0}
    BY <1>4 DEF RestartAt
  <2>2. target > 2 => Number(target) <= Number(at.phase) /\ Number(target) \in Nat /\ Number(at.phase) \in Nat
    BY <1>0, <2>1 DEF Number, Phases
  <2> QED
    BY <1>0, <2>1, <2>2 DEF BoundFits, Phases
<1>5. CASE RecoverMilestone
  <2>1. at'.phase = at.phase /\ bound' = bound
    BY <1>0, <1>5, SamePhase DEF RecoverMilestone
  <2> QED
    BY <2>1 DEF BoundFits, Number
<1> QED
  BY <1>1, <1>2, <1>3, <1>4, <1>5, StepShape

-----------------------------------------------------------------------------
(* The theorems *)

LEMMA InitInv == Init => WorkflowInv
<1> SUFFICES ASSUME Init PROVE WorkflowInv
  OBVIOUS
<1>1. TypeOK
  BY InitTyped
<1>2. AskedWorkExists /\ OneAsk
  BY DEF Init, AskedWorkExists, OneAsk
<1>3. StampsPast
  BY DEF Init, StampsPast, Now
<1>4. UpstreamAuthorized
  BY DEF Init, UpstreamAuthorized, Phases
<1>5. OpenGateIsCurrent /\ UnreadableOnlyUnderRevision
  BY DEF Init, OpenGateIsCurrent, UnreadableOnlyUnderRevision, Readable
<1>6. BoundFits
  BY DEF Init, BoundFits
<1> QED
  BY <1>1, <1>2, <1>3, <1>4, <1>5, <1>6 DEF WorkflowInv

LEMMA InvStep == WorkflowInv /\ [Next]_vars => WorkflowInv'
<1> SUFFICES ASSUME WorkflowInv, [Next]_vars PROVE WorkflowInv'
  OBVIOUS
<1> USE DEF WorkflowInv
<1>1. TypeOK'
  BY TypeStep
<1>2. CASE Next
  BY <1>1, <1>2, AskedStep, OneAskStep, StampsStep, UpstreamStep, OpenGateStep, ReadableStep,
     BoundStep
<1>3. CASE UNCHANGED vars
  <2>1. AskedWorkExists' /\ OneAsk' /\ StampsPast'
    BY <1>3 DEF vars, AskedWorkExists, OneAsk, StampsPast, Now
  <2>2. UpstreamAuthorized'
    BY <1>3 DEF vars, UpstreamAuthorized, Authorized, HumanApproved, RuleAccepted, SettledFor,
                Eligible, Affects
  <2>3. OpenGateIsCurrent'
    BY <1>3 DEF vars, OpenGateIsCurrent, Reviewed, Covers, CurrentIsAuthorized, Authorized,
                HumanApproved, RuleAccepted, SettledFor, Eligible, Affects
  <2>4. UnreadableOnlyUnderRevision' /\ BoundFits'
    BY <1>3 DEF vars, UnreadableOnlyUnderRevision, Readable, BoundFits, Number
  <2> QED
    BY <1>1, <2>1, <2>2, <2>3, <2>4
<1> QED
  BY <1>2, <1>3

LEMMA Invariant == Spec => []WorkflowInv
BY InitInv, InvStep, PTL DEF Spec

(* The state file keeps its shape over every history of moves, gates and     *)
(* resets: attempts, stamps and the planned bound never leave their ranges.  *)
THEOREM TypeCorrect == Spec => []TypeOK
BY Invariant, PTL DEF WorkflowInv

(* However often work is restarted, recovered, settled and settled again,    *)
(* no phase that the task has left stands on a result without authority.     *)
THEOREM UpstreamIsAuthorized == Spec => []UpstreamAuthorized
BY Invariant, PTL DEF WorkflowInv

(* An approval gate asks about finished, reviewed work that nothing else has *)
(* authorized, for as long as it is open: no handler moves under it.         *)
THEOREM GateAsksCurrentWork == Spec => []OpenGateIsCurrent
BY Invariant, PTL DEF WorkflowInv

(* The state handlers write nothing that the next read refuses, but for the  *)
(* override gate of an implementation under a human's revision.              *)
THEOREM ReadableButForOverride == Spec => []UnreadableOnlyUnderRevision
BY Invariant, PTL DEF WorkflowInv

(* A task never stands past the end of its own plan, for any number of       *)
(* rounds, any plan and any number of restarts. *)
THEOREM PlanIsReached == Spec => []BoundFits
BY Invariant, PTL DEF WorkflowInv

LEMMA RevokesStep == WorkflowInv /\ Next /\ resets' # resets =>
  \A p \in Phases, s \in Subjects : Affects(resets'[Len(resets')], p) => ~Authorized(p, s)'
<1> SUFFICES ASSUME WorkflowInv, Next, resets' # resets,
                    NEW p \in Phases, NEW s \in Subjects, Affects(resets'[Len(resets')], p)
             PROVE  ~Authorized(p, s)'
  BY DEF Affects
<1> USE DEF WorkflowInv
<1>1. \E r \in Reset : resets' = Append(resets, r) /\ UNCHANGED <<approved, settled>>
  <2>1. at.phase \in Phases
    BY PositionTyped DEF TypeOK
  <2>2. CASE RecoverMilestone
    <3>1. [kind |-> "recovery", target |-> at.phase] \in Reset
      BY <2>1 DEF Reset
    <3> QED
      BY <2>2, <3>1 DEF RecoverMilestone, settlements
  <2>3. ASSUME NEW target \in Phases, RestartAt(target)
        PROVE  \E r \in Reset : resets' = Append(resets, r) /\ UNCHANGED <<approved, settled>>
    <3>1. [kind |-> "restart", target |-> target] \in Reset
      BY DEF Reset
    <3> QED
      BY <2>3, <3>1 DEF RestartAt, settlements
  <2>4. ~StaysInPhase /\ ~Advance /\ ~Complete
    BY DEF StaysInPhase, Advance, Complete, ledger
  <2> QED
    BY <2>2, <2>3, <2>4, StepShape
<1>2. PICK r \in Reset : resets' = Append(resets, r) /\ UNCHANGED <<approved, settled>>
  BY <1>1
<1>3. Affects(r, p)
  BY <1>2 DEF TypeOK
<1>4. approved[p][s] <= Len(resets) + 1 /\ settled[p][s].stamp <= Len(resets) + 1
  BY DEF StampsPast, Now
<1>5. /\ approved[p][s] \in Nat /\ settled[p][s].stamp \in Nat /\ Len(resets) \in Nat
  BY Typing DEF TypeOK, Settlement, Stamps
<1>6. Len(resets') = Len(resets) + 1 /\ Len(resets') \in DOMAIN resets'
  BY <1>2 DEF TypeOK
<1>7. approved' = approved /\ settled' = settled
  BY <1>2
<1>8. ~Eligible(p, approved[p][s])'
  BY <1>4, <1>5, <1>6, <1>7 DEF Eligible, Affects
<1>9. ~Eligible(p, settled[p][s].stamp)'
  BY <1>4, <1>5, <1>6, <1>7 DEF Eligible, Affects
<1> QED
  BY <1>8, <1>9 DEF Authorized, HumanApproved, RuleAccepted, SettledFor

(* A restart or a recovery revokes everything it reaches at once, for any    *)
(* history of approvals, settlements and earlier resets before it.           *)
THEOREM ResetsRevoke == Spec => ResetRevokes
<1>1. WorkflowInv /\ [Next]_vars =>
        [resets' # resets =>
           \A p \in Phases, s \in Subjects :
             Affects(resets'[Len(resets')], p) => ~Authorized(p, s)']_vars
  BY RevokesStep
<1> QED
  BY <1>1, Invariant, PTL DEF Spec, ResetRevokes

LEMMA AnsweredStep == WorkflowInv /\ Next /\ pendingHuman # None /\ pendingHuman' = None =>
  \/ resets' # resets
  \/ work'[at.phase] # pendingHuman.subject /\ UNCHANGED <<settled, approved>>
<1> SUFFICES ASSUME WorkflowInv, Next, pendingHuman # None, pendingHuman' = None,
                    resets' = resets
             PROVE  work'[at.phase] # pendingHuman.subject /\ UNCHANGED <<settled, approved>>
  OBVIOUS
<1> USE DEF WorkflowInv, asks, ledger, settlements
<1>1. \E s \in Results[at.phase] : ReviseSimply(s) \/ ReviseSignificantly(s)
  <2>1. \A r \in Reset : resets' # Append(resets, r)
    BY DEF TypeOK
  <2>2. ASSUME NEW target \in Phases PROVE ~RestartAt(target)
    BY <2>1 DEF RestartAt, Reset
  <2>3. ~RecoverMilestone
    BY <2>1, PositionTyped DEF TypeOK, RecoverMilestone, Reset
  <2>4. ASSUME NEW target \in Phases PROVE ~Restart(target) /\ ~AmendUpstream(target)
    BY <2>2 DEF Restart, AmendUpstream
  <2>5. ~EnterRevision /\ ~ReviseAtOnce
    BY DEF EnterRevision, ReviseAtOnce, Readable, OneAsk
  <2>6. UNCHANGED pendingHuman => FALSE
    OBVIOUS
  <2>7. ASSUME NEW s \in Results[at.phase] PROVE ~Produce(s) /\ ~Correct(s)
    BY <2>6 DEF Produce, Correct
  <2>8. ASSUME NEW step \in {"produce", "counter_review", "triage"} PROVE ~EnterStep(step)
    BY <2>6 DEF EnterStep
  <2>9. ASSUME NEW kind \in {"approval", "drift", "override"} PROVE ~OpenGate(kind)
    BY <2>6 DEF OpenGate
  <2>10. ASSUME NEW verdict \in Verdicts PROVE ~FinishTriage(verdict)
    BY <2>6 DEF FinishTriage
  <2>11. /\ ~Fail /\ ~FinishReview /\ ~Advance /\ ~Complete /\ ~RequestOverride
         /\ ~Approve /\ ~CloseGate /\ ~DecideRevision
         /\ ~RecoverTrigger /\ ~RefreshBaseline /\ ~SetCommitAuthority
    BY <2>6 DEF Fail, FinishReview, Advance, Complete, RequestOverride, Approve, CloseGate,
                DecideRevision, RecoverTrigger, RefreshBaseline, SetCommitAuthority
  <2> QED
    BY <2>2, <2>3, <2>4, <2>5, <2>7, <2>8, <2>9, <2>10, <2>11 DEF Next
<1>2. PICK s \in Results[at.phase] : ReviseSimply(s) \/ ReviseSignificantly(s)
  BY <1>1
<1>3. s \in Subjects /\ Record(s) /\ s # pendingHuman.subject /\ UNCHANGED settled
  BY <1>2, PositionTyped, Typing DEF TypeOK, ReviseSimply, ReviseSignificantly
<1> QED
  BY <1>3, RecordLocal DEF Record

(* A human's request to revise is answered by changed bytes that nothing     *)
(* settles in the same step, or falls with a reset, and in no other way.     *)
THEOREM RevisionIsAnswered == Spec => HumanRevisionAnswered
<1>1. WorkflowInv /\ [Next]_vars =>
        [pendingHuman # None /\ pendingHuman' = None =>
           \/ resets' # resets
           \/ /\ work'[at.phase] # pendingHuman.subject
              /\ UNCHANGED <<settled, approved>>]_vars
  BY AnsweredStep
<1> QED
  BY <1>1, Invariant, PTL DEF Spec, HumanRevisionAnswered

-----------------------------------------------------------------------------
(* Where authority comes from, and the ledger *)

(* A settlement at this revision decides its own subject and no other.       *)
LEMMA SettleDecides ==
  ASSUME TypeOK, at.phase \in Phases, NEW s \in Subjects, NEW wait \in BOOLEAN, Settle(at.phase, s, wait),
         UNCHANGED <<approved, resets>>
  PROVE  \A p \in Phases, x \in Subjects :
           Authorized(p, x)' <=> IF p = at.phase /\ x = s THEN ~wait \/ HumanApproved(p, x)
                                 ELSE Authorized(p, x)
<1>1. \A p \in Phases, x \in Subjects :
        settled'[p][x] = IF p = at.phase /\ x = s THEN [wait |-> wait, stamp |-> Now]
                         ELSE settled[p][x]
  BY DEF TypeOK, Settle
<1>2. \A p, stamp : Eligible(p, stamp)' <=> Eligible(p, stamp)
  BY DEF Eligible, Affects
<1>3. \A p : Eligible(p, Now) /\ Now # 0
  BY DEF Eligible, Now, TypeOK
<1>4. ASSUME NEW p \in Phases, NEW x \in Subjects
      PROVE  Authorized(p, x)' <=> IF p = at.phase /\ x = s THEN ~wait \/ HumanApproved(p, x)
                                   ELSE Authorized(p, x)
  <2>1. HumanApproved(p, x)' <=> HumanApproved(p, x)
    BY <1>2 DEF HumanApproved
  <2>2. CASE p = at.phase /\ x = s
    <3>1. settled'[p][x].stamp = Now /\ settled'[p][x].wait = wait
      BY <1>1, <2>2
    <3>2. RuleAccepted(p, x)' <=> ~wait
      BY <1>2, <1>3, <3>1 DEF RuleAccepted, SettledFor
    <3> QED
      BY <2>1, <2>2, <3>2 DEF Authorized
  <2>3. CASE ~(p = at.phase /\ x = s)
    <3>1. settled'[p][x] = settled[p][x]
      BY <1>1, <2>3
    <3>2. RuleAccepted(p, x)' <=> RuleAccepted(p, x)
      BY <1>2, <3>1 DEF RuleAccepted, SettledFor
    <3> QED
      BY <2>1, <2>3, <3>2 DEF Authorized
  <2> QED
    BY <2>2, <2>3
<1> QED
  BY <1>4

LEMMA AuthorityKept ==
  ASSUME UNCHANGED <<approved, settled, resets>>
  PROVE  \A p \in Phases, x \in Subjects : Authorized(p, x)' <=> Authorized(p, x)
BY DEF Authorized, HumanApproved, RuleAccepted, SettledFor, Eligible, Affects

(* An approval decides the work in front of it. *)
LEMMA ApproveDecides ==
  ASSUME TypeOK, at.phase \in Phases, work[at.phase] \in Subjects, Approve
  PROVE  \A p \in Phases, x \in Subjects :
           Authorized(p, x)' <=> (p = at.phase /\ x = work[at.phase]) \/ Authorized(p, x)
<1>1. \A p \in Phases, x \in Subjects :
        approved'[p][x] = IF p = at.phase /\ x = work[at.phase] THEN Now ELSE approved[p][x]
  BY DEF TypeOK, Approve
<1>2. UNCHANGED <<settled, resets>>
  BY DEF Approve, settlements
<1>3. \A p, stamp : Eligible(p, stamp)' <=> Eligible(p, stamp)
  BY <1>2 DEF Eligible, Affects
<1>4. \A p : Eligible(p, Now) /\ Now # 0
  BY DEF Eligible, Now, TypeOK
<1>5. \A p \in Phases, x \in Subjects : RuleAccepted(p, x)' <=> RuleAccepted(p, x)
  BY <1>2, <1>3 DEF RuleAccepted, SettledFor
<1>6. \A p \in Phases, x \in Subjects :
        HumanApproved(p, x)' <=> (p = at.phase /\ x = work[at.phase]) \/ HumanApproved(p, x)
  BY <1>1, <1>3, <1>4 DEF HumanApproved
<1> QED
  BY <1>5, <1>6 DEF Authorized

(* A reset takes authority from everything it affects, and from nothing else. *)
LEMMA ResetDecides ==
  ASSUME TypeOK, StampsPast, NEW r \in Reset, resets' = Append(resets, r),
         UNCHANGED <<approved, settled>>
  PROVE  \A p \in Phases, x \in Subjects : Authorized(p, x)' <=> Authorized(p, x) /\ ~Affects(r, p)
<1>1. ASSUME NEW p \in Phases, NEW x \in Subjects
      PROVE  Authorized(p, x)' <=> Authorized(p, x) /\ ~Affects(r, p)
  <2>1. /\ approved[p][x] <= Len(resets) + 1 /\ settled[p][x].stamp <= Len(resets) + 1
        /\ approved[p][x] \in Nat /\ settled[p][x].stamp \in Nat /\ Len(resets) \in Nat
    BY Typing DEF StampsPast, Now, TypeOK, Settlement, Stamps
  <2>2. /\ Eligible(p, approved[p][x])' <=> Eligible(p, approved[p][x]) /\ ~Affects(r, p)
        /\ Eligible(p, settled[p][x].stamp)' <=> Eligible(p, settled[p][x].stamp) /\ ~Affects(r, p)
    <3>1. \A stamp : Eligible(p, stamp)' <=> Eligible(p, stamp) /\ (Affects(r, p) => Len(resets) + 1 < stamp)
      BY EligibleAppend
    <3> QED
      BY <2>1, <3>1
  <2> QED
    BY <2>2 DEF Authorized, HumanApproved, RuleAccepted, SettledFor
<1> QED
  BY <1>1

(* A settlement a result's transaction mints, for evidence that covers it.    *)
SettlesReviewed(s) ==
  \E c \in {"none", "wait", "proceed"} :
    SettleAs(at.phase, s, c) /\ (c # "none" => Reviewed')

(* What a step is to the ledger, besides the moves that have names already.   *)
Quiet ==
  /\ at'.phase = at.phase /\ terminal' = terminal
  /\ UNCHANGED <<work, approved, settled, resets>>
Records(s) ==
  /\ at'.phase = at.phase /\ ~terminal /\ terminal' = terminal
  /\ work' = [work EXCEPT ![at.phase] = s]
  /\ UNCHANGED <<approved, resets>>
  /\ SettlesReviewed(s)
Judges ==
  /\ work[at.phase] # None
  /\ Records(work[at.phase])
Recommits(s) ==
  /\ ~terminal /\ UNCHANGED <<at, work, terminal, approved, resets>>
  /\ Settle(at.phase, s, FALSE)

LEMMA StepGrants ==
  ASSUME WorkflowInv, Next
  PROVE  \/ Quiet \/ (\E s \in Subjects : Records(s)) \/ Judges \/ Approve
         \/ Advance \/ Complete \/ RecoverMilestone
         \/ \E target \in Phases : RestartAt(target) /\ target < at.phase
         \/ RefreshBaseline /\ Recommits(work[at.phase])
         \/ SetCommitAuthority /\ latest[at.phase] # None /\ Recommits(latest[at.phase])
<1> DEFINE Kinds ==
         \/ Quiet \/ (\E s \in Subjects : Records(s)) \/ Judges \/ Approve
         \/ Advance \/ Complete \/ RecoverMilestone
         \/ \E target \in Phases : RestartAt(target) /\ target < at.phase
         \/ RefreshBaseline /\ Recommits(work[at.phase])
         \/ SetCommitAuthority /\ latest[at.phase] # None /\ Recommits(latest[at.phase])
<1> USE DEF WorkflowInv
<1>0. /\ ~terminal /\ at \in Position /\ at.phase \in Phases
      /\ Conclusions[at.phase] \subseteq {"none", "wait", "proceed"}
  <2>1. ~terminal /\ at \in Position /\ at.phase \in Phases
    BY StepAsks, PositionTyped DEF AskShape, TypeOK
  <2> QED
    BY <2>1, WorkflowAssumption DEF Phases, LastPhase
<1> USE DEF cycle, ledger, settlements, asks
<1>1. ASSUME NEW step \in {"produce", "counter_review", "triage"}, EnterStep(step) PROVE Quiet
  BY <1>0, <1>1, SamePhase DEF EnterStep, Quiet
<1>2. CASE Fail
  BY <1>0, <1>2, SamePhase DEF Fail, Quiet
<1>3. CASE FinishReview
  BY <1>0, <1>3, SamePhase DEF FinishReview, Quiet
<1>4. CASE RequestOverride
  BY <1>0, <1>4, SamePhase DEF RequestOverride, Quiet
<1>5. CASE RecoverTrigger
  BY <1>0, <1>5, SamePhase DEF RecoverTrigger, Quiet
<1>6. ASSUME NEW s \in Results[at.phase],
             Produce(s) \/ ReviseSimply(s) \/ ReviseSignificantly(s)
      PROVE  \E x \in Subjects : Records(x)
  <2>1. s \in Subjects /\ Record(s) /\ UNCHANGED settlements
    BY <1>0, <1>6, Typing DEF Produce, ReviseSimply, ReviseSignificantly
  <2>2. at'.phase = at.phase
    <3>1. CASE Produce(s)
      BY <1>0, <3>1, SamePhase DEF Produce
    <3>2. CASE ReviseSimply(s)
      BY <1>0, <3>2, SamePhase DEF ReviseSimply
    <3>3. CASE ReviseSignificantly(s)
      BY <1>0, <3>3, SamePhase DEF ReviseSignificantly
    <3> QED
      BY <1>6, <3>1, <3>2, <3>3
  <2>3. SettlesReviewed(s)
    BY <2>1 DEF SettlesReviewed, SettleAs
  <2>4. /\ work' = [work EXCEPT ![at.phase] = s]
        /\ UNCHANGED <<approved, resets, terminal>>
    BY <2>1 DEF Record
  <2> QED
    BY <1>0, <2>1, <2>2, <2>3, <2>4 DEF Records
<1>7. ASSUME NEW s \in Results[at.phase], Correct(s) PROVE \E x \in Subjects : Records(x)
  <2>1. s \in Subjects /\ Record(s)
    BY <1>0, <1>7, Typing DEF Correct
  <2>2. at'.phase = at.phase
    BY <1>0, <1>7, SamePhase DEF Correct
  <2>3. /\ work' = [work EXCEPT ![at.phase] = s]
        /\ UNCHANGED <<approved, resets, terminal>>
    BY <2>1 DEF Record
  <2>4. Reviewed'
    <3>1. /\ triage' = triage /\ triage # None /\ triage.subject = work[at.phase]
          /\ triage.verdict = "minor" /\ predecessor' = work[at.phase]
      BY <1>7 DEF Correct
    <3>2. work[at.phase] # None
      BY <3>1, Typing DEF TypeOK
    <3>3. work'[at'.phase] = s /\ s # None
      BY <1>0, <2>1, <2>2, <2>3, Typing DEF TypeOK
    <3> QED
      BY <3>1, <3>2, <3>3 DEF Reviewed, Covers
  <2>5. SettlesReviewed(s)
    BY <1>0, <1>7, <2>4 DEF SettlesReviewed, Correct
  <2> QED
    BY <1>0, <2>1, <2>2, <2>3, <2>5 DEF Records
<1>8. ASSUME NEW verdict \in Verdicts, FinishTriage(verdict) PROVE Judges
  <2>1. /\ work[at.phase] # None /\ UNCHANGED <<work, predecessor, approved, resets, terminal>>
    BY <1>8 DEF FinishTriage
  <2>2. at'.phase = at.phase
    BY <1>0, <1>8, SamePhase DEF FinishTriage
  <2>3. PICK c \in Conclusions[at.phase] \cup {"none"} :
          /\ c \in IF Covers(triage', work[at.phase], predecessor)
                   THEN Conclusions[at.phase] ELSE {"none"}
          /\ SettleAs(at.phase, work[at.phase], c)
    BY <1>8 DEF FinishTriage
  <2>4. c # "none" => Reviewed'
    BY <2>1, <2>2, <2>3 DEF Reviewed
  <2>5. work' = [work EXCEPT ![at.phase] = work[at.phase]]
    BY <1>0, <2>1 DEF TypeOK
  <2> QED
    BY <1>0, <2>1, <2>2, <2>3, <2>4, <2>5 DEF Judges, Records, SettlesReviewed
<1>9. ASSUME \/ CloseGate \/ DecideRevision
             \/ \E kind \in {"approval", "drift", "override"} : OpenGate(kind)
      PROVE  Quiet
  BY <1>9 DEF CloseGate, DecideRevision, OpenGate, Quiet
<1>10. CASE EnterRevision \/ ReviseAtOnce
  <2>1. Reopened
    BY <1>10 DEF EnterRevision, ReviseAtOnce
  <2> QED
    BY <1>0, <2>1, SamePhase DEF Reopened, Quiet
<1>11. ASSUME NEW target \in Phases, Restart(target) \/ AmendUpstream(target)
       PROVE  \E t \in Phases : RestartAt(t) /\ t < at.phase
  BY <1>11 DEF Restart, AmendUpstream, RestartAt
<1>12. CASE RefreshBaseline
  <2>1. ~settled[at.phase][work[at.phase]].wait /\ work[at.phase] \in Subjects
    BY <1>0, <1>12 DEF RefreshBaseline, RuleAccepted, TypeOK
  <2>2. settled[at.phase][work[at.phase]].wait = FALSE
    BY <1>0, <2>1 DEF TypeOK, Settlement
  <2> QED
    BY <1>0, <1>12, <2>2 DEF RefreshBaseline, Recommit, Recommits
<1>13. CASE SetCommitAuthority
  <2>1. latest[at.phase] \in Subjects /\ ~settled[at.phase][latest[at.phase]].wait
    BY <1>0, <1>13 DEF SetCommitAuthority, TypeOK
  <2>2. settled[at.phase][latest[at.phase]].wait = FALSE
    BY <1>0, <2>1 DEF TypeOK, Settlement
  <2> QED
    BY <1>0, <1>13, <2>2 DEF SetCommitAuthority, Recommit, Recommits
<1> QED
  BY <1>1, <1>2, <1>3, <1>4, <1>5, <1>6, <1>7, <1>8, <1>9, <1>10, <1>11, <1>12, <1>13 DEF Next

(* What recording a result does to authority: the subject recorded may gain   *)
(* or lose it, and gains it only when the evidence covers it.                 *)
LEMMA RecordDecides ==
  ASSUME TypeOK, NEW q \in Phases, q = at.phase, NEW s \in Subjects, Records(s)
  PROVE  /\ \A p \in Phases, x \in Subjects :
              ~(p = q /\ x = s) => (Authorized(p, x)' <=> Authorized(p, x))
         /\ ~Authorized(q, s) /\ Authorized(q, s)' => Reviewed'
<1>1. PICK c \in {"none", "wait", "proceed"} : SettleAs(at.phase, s, c) /\ (c # "none" => Reviewed')
  BY DEF Records, SettlesReviewed
<1>2. UNCHANGED <<approved, resets>>
  BY DEF Records
<1>3. CASE c = "none"
  <2>1. settled' = settled
    BY <1>1, <1>3 DEF SettleAs, settlements
  <2>2. UNCHANGED <<approved, settled, resets>>
    BY <1>2, <2>1
  <2>3. \A p \in Phases, x \in Subjects : Authorized(p, x)' <=> Authorized(p, x)
    BY <2>2, AuthorityKept
  <2> QED
    BY <2>3
<1>4. CASE c # "none"
  <2>1. Settle(at.phase, s, c = "wait")
    BY <1>1, <1>4 DEF SettleAs
  <2>2. (c = "wait") \in BOOLEAN
    OBVIOUS
  <2>3. \A p \in Phases, x \in Subjects :
          ~(p = q /\ x = s) => (Authorized(p, x)' <=> Authorized(p, x))
    BY <1>2, <2>1, <2>2, SettleDecides
  <2> QED
    BY <1>1, <1>4, <2>3
<1> QED
  BY <1>3, <1>4

LEMMA ReviewStep == WorkflowInv /\ Next /\ reanchors' = reanchors =>
  \A p \in Phases, s \in Subjects :
    ~Authorized(p, s) /\ Authorized(p, s)' => p = at'.phase /\ s = work'[p] /\ Reviewed'
<1> SUFFICES ASSUME WorkflowInv, Next, reanchors' = reanchors, NEW p \in Phases, NEW s \in Subjects,
                    ~Authorized(p, s), Authorized(p, s)'
             PROVE  p = at'.phase /\ s = work'[p] /\ Reviewed'
  OBVIOUS
<1> USE DEF WorkflowInv
<1>0. at \in Position /\ at.phase \in Phases
  BY PositionTyped DEF TypeOK
<1>1. ASSUME NEW x \in Subjects, Records(x) PROVE p = at'.phase /\ s = work'[p] /\ Reviewed'
  <2>0. TypeOK
    OBVIOUS
  <2>5. PICK q \in Phases : q = at.phase
    BY <1>0
  <2>1. /\ ~(p = q /\ s = x) => (Authorized(p, s)' <=> Authorized(p, s))
        /\ ~Authorized(q, x) /\ Authorized(q, x)' => Reviewed'
    BY <1>1, <2>0, <2>5, RecordDecides
  <2>3. p = q /\ s = x
    BY <2>1
  <2>4. Reviewed'
    BY <2>1, <2>3
  <2>2. at'.phase = at.phase /\ work'[at.phase] = x
    BY <1>0, <1>1 DEF Records, TypeOK
  <2> QED
    BY <2>2, <2>3, <2>4, <2>5
<1>2. CASE Judges
  BY <1>0, <1>1, <1>2 DEF Judges, TypeOK
<1>3. CASE Approve
  <2>1. Reviewed /\ work[at.phase] \in Subjects
    BY <1>0, <1>3 DEF Approve, OpenGateIsCurrent, Reviewed, TypeOK
  <2>2. p = at.phase /\ s = work[at.phase]
    BY <1>0, <1>3, <2>1, ApproveDecides
  <2>3. UNCHANGED <<at, work, triage, predecessor>>
    BY <1>3 DEF Approve, cycle
  <2>4. Reviewed' <=> Reviewed
    BY <2>3 DEF Reviewed, Covers
  <2> QED
    BY <2>1, <2>2, <2>3, <2>4
<1>4. CASE Quiet \/ Advance \/ Complete
  BY <1>4, AuthorityKept DEF Quiet, Advance, Complete, ledger, settlements
<1>5. ASSUME NEW r \in Reset, resets' = Append(resets, r), UNCHANGED <<approved, settled>> PROVE FALSE
  BY <1>5, ResetDecides
<1>6. CASE RecoverMilestone
  BY <1>0, <1>5, <1>6 DEF RecoverMilestone, Reset, settlements
<1>7. ASSUME NEW target \in Phases, RestartAt(target) PROVE FALSE
  BY <1>5, <1>7 DEF RestartAt, Reset, settlements
<1>8. CASE RefreshBaseline /\ Recommits(work[at.phase])
  <2>1. work[at.phase] \in Subjects /\ Authorized(at.phase, work[at.phase])
    BY <1>0, <1>8 DEF RefreshBaseline, Authorized, TypeOK
  <2>2. p = at.phase /\ s = work[at.phase]
    BY <1>0, <1>8, <2>1, SettleDecides DEF Recommits
  <2> QED
    BY <2>1, <2>2
<1>9. ~SetCommitAuthority
  BY DEF SetCommitAuthority, TypeOK
<1> QED
  BY <1>1, <1>2, <1>3, <1>4, <1>6, <1>7, <1>8, <1>9, StepGrants

(* For any number of rounds, subjects, attempts and resets, nothing gains     *)
(* authority but the current work of the phase the task stands in, with        *)
(* evidence that covers it, or what an operator vouches for again.            *)
THEOREM AuthorityIsReviewed == Spec => AuthorityNeedsReview
<1>1. WorkflowInv /\ [Next]_vars =>
        [reanchors' = reanchors => \A p \in Phases, s \in Subjects :
           ~Authorized(p, s) /\ Authorized(p, s)' =>
             p = at'.phase /\ s = work'[p] /\ Reviewed']_vars
  BY ReviewStep
<1> QED
  BY <1>1, Invariant, PTL DEF Spec, AuthorityNeedsReview

-----------------------------------------------------------------------------
(* The refinement of the ledger *)

Trusted == {pair \in Phases \X Subjects : Authorized(pair[1], pair[2])}
LedgerView == <<at.phase, work, Trusted, terminal>>

LEMMA TrustedSame ==
  ASSUME \A p \in Phases, x \in Subjects : Authorized(p, x)' <=> Authorized(p, x)
  PROVE  Trusted' = Trusted
BY DEF Trusted

(* One pair's authority decides what becomes of the set. *)
LEMMA TrustedBut ==
  ASSUME NEW q \in Phases, NEW s \in Subjects,
         \A p \in Phases, x \in Subjects :
           ~(p = q /\ x = s) => (Authorized(p, x)' <=> Authorized(p, x))
  PROVE  /\ Authorized(q, s)' => Trusted' = Trusted \cup {<<q, s>>}
         /\ ~Authorized(q, s)' => Trusted' = Trusted \ {<<q, s>>}
<1>1. ASSUME NEW pair \in Phases \X Subjects, pair # <<q, s>>
      PROVE  pair \in Trusted' <=> pair \in Trusted
  <2>1. pair = <<pair[1], pair[2]>> /\ pair[1] \in Phases /\ pair[2] \in Subjects
    OBVIOUS
  <2>2. ~(pair[1] = q /\ pair[2] = s)
    BY <1>1, <2>1
  <2> QED
    BY <2>1, <2>2 DEF Trusted
<1>2. <<q, s>> \in Trusted' <=> Authorized(q, s)'
  BY DEF Trusted
<1>3. Trusted \subseteq Phases \X Subjects /\ Trusted' \subseteq Phases \X Subjects
  BY DEF Trusted
<1> QED
  BY <1>1, <1>2, <1>3

LEMMA RecordIsWork ==
  ASSUME TypeOK, at.phase \in Phases, NEW s \in Subjects, Records(s)
  PROVE  Ledger!Work(s)
<1>0. PICK q \in Phases : q = at.phase
  OBVIOUS
<1>1. Trusted' \in {Trusted, Trusted \cup {<<q, s>>}, Trusted \ {<<q, s>>}}
  BY <1>0, RecordDecides, TrustedBut
<1>2. /\ ~terminal /\ work' = [work EXCEPT ![at.phase] = s]
      /\ at'.phase = at.phase /\ terminal' = terminal
  BY DEF Records
<1> QED
  BY <1>0, <1>1, <1>2 DEF Ledger!Work, Trusted

LEMMA LedgerStep == WorkflowInv /\ [Next]_vars => [Ledger!LedgerNext]_LedgerView
<1> SUFFICES ASSUME WorkflowInv, [Next]_vars PROVE [Ledger!LedgerNext]_LedgerView
  OBVIOUS
<1> USE DEF WorkflowInv
<1>0. at \in Position /\ at.phase \in Phases /\ (Next => ~terminal)
  BY StepAsks, PositionTyped DEF AskShape, TypeOK
<1>1. ASSUME NEW s \in Subjects, Records(s) PROVE Ledger!LedgerNext
  BY <1>0, <1>1, RecordIsWork DEF Ledger!LedgerNext
<1>2. CASE Judges
  <2>1. work[at.phase] \in Subjects /\ ~terminal
    BY <1>0, <1>2 DEF Judges, Records, TypeOK
  <2>2. Ledger!Work(work[at.phase])
    BY <1>0, <1>2, <2>1, RecordIsWork DEF Judges
  <2> QED
    BY <1>2, <2>1, <2>2 DEF Judges, Ledger!Judge, Ledger!LedgerNext
<1>3. CASE Next /\ Approve
  <2>1. work[at.phase] \in Subjects /\ work[at.phase] # None /\ ~terminal
    BY <1>0, <1>3 DEF Approve, OpenGateIsCurrent, Reviewed, TypeOK
  <2>2. Trusted' = Trusted \cup {<<at.phase, work[at.phase]>>}
    <3>1. \A p \in Phases, x \in Subjects :
            Authorized(p, x)' <=> (p = at.phase /\ x = work[at.phase]) \/ Authorized(p, x)
      BY <1>0, <1>3, <2>1, ApproveDecides
    <3> QED
      BY <1>0, <2>1, <3>1, TrustedBut
  <2>3. UNCHANGED <<at, work, terminal>> /\ work' = [work EXCEPT ![at.phase] = work[at.phase]]
    BY <1>0, <1>3 DEF Approve, cycle, TypeOK
  <2>4. Ledger!Judge
    BY <2>1, <2>2, <2>3 DEF Ledger!Judge, Ledger!Work, Trusted
  <2> QED
    BY <2>4 DEF Ledger!LedgerNext
<1>4. CASE Quiet
  <2>1. Trusted' = Trusted
    BY <1>4, AuthorityKept, TrustedSame DEF Quiet
  <2> QED
    BY <1>4, <2>1 DEF Quiet, LedgerView
<1>5. CASE Next /\ (Advance \/ Complete)
  <2>1. UNCHANGED <<work, approved, settled, resets>> /\ work[at.phase] \in Subjects
    BY <1>0, <1>5 DEF Advance, Complete, cycle, ledger, settlements, Leaving, CurrentIsAuthorized, TypeOK
  <2>2. Trusted' = Trusted
    BY <2>1, AuthorityKept, TrustedSame
  <2>3. <<at.phase, work[at.phase]>> \in Trusted
    BY <1>0, <1>5, <2>1 DEF Advance, Complete, Leaving, CurrentIsAuthorized, Trusted
  <2>4. \/ at.phase < LastPhase /\ at'.phase = at.phase + 1 /\ terminal' = terminal
        \/ at'.phase = at.phase /\ terminal' = TRUE
    BY <1>5 DEF Advance, Complete
  <2>5. Ledger!MoveOn
    BY <1>0, <1>5, <2>1, <2>2, <2>3, <2>4 DEF Ledger!MoveOn, Trusted
  <2> QED
    BY <2>5 DEF Ledger!LedgerNext
<1>6. CASE Next /\ RecoverMilestone
  <2> DEFINE r == [kind |-> "recovery", target |-> at.phase]
  <2>1. r \in Reset /\ resets' = Append(resets, r) /\ UNCHANGED <<approved, settled, terminal>>
    BY <1>0, <1>6 DEF RecoverMilestone, Reset, settlements
  <2>2. at'.phase = at.phase /\ work' = [work EXCEPT ![at.phase] = None]
    BY <1>0, <1>6, SamePhase DEF RecoverMilestone
  <2>3. \A p \in Phases, x \in Subjects : Authorized(p, x)' <=> Authorized(p, x) /\ p # at.phase
    BY <2>1, ResetDecides DEF Affects
  <2>4. Trusted' = {pair \in Trusted : pair[1] # at.phase}
    BY <2>3 DEF Trusted
  <2>5. Ledger!StartOver
    BY <1>0, <1>6, <2>1, <2>2, <2>4, WorkflowAssumption DEF Ledger!StartOver, Trusted, TypeOK, Phases
  <2> QED
    BY <2>5 DEF Ledger!LedgerNext
<1>7. ASSUME NEW target \in Phases, RestartAt(target), target < at.phase, Next
      PROVE  Ledger!LedgerNext
  <2> DEFINE r == [kind |-> "restart", target |-> target]
  <2>1. r \in Reset /\ resets' = Append(resets, r) /\ UNCHANGED <<approved, settled, terminal>>
    BY <1>7 DEF RestartAt, Reset, settlements
  <2>2. at'.phase = target /\ work' = [p \in Phases |-> IF p < target THEN work[p] ELSE None]
    BY <1>7 DEF RestartAt
  <2>3. \A p \in Phases, x \in Subjects : Authorized(p, x)' <=> Authorized(p, x) /\ p < target
    <3>1. \A p \in Phases : Affects(r, p) <=> ~(p < target)
      BY DEF Affects, Phases
    <3> QED
      BY <2>1, <3>1, ResetDecides
  <2>4. Trusted' = {pair \in Trusted : pair[1] < target}
    BY <2>3 DEF Trusted
  <2>5. Ledger!GoBack(target)
    BY <1>0, <1>7, <2>1, <2>2, <2>4 DEF Ledger!GoBack, Trusted, Phases
  <2> QED
    BY <2>5 DEF Ledger!LedgerNext, Phases
<1>8. CASE RefreshBaseline /\ Recommits(work[at.phase])
  <2>1. work[at.phase] \in Subjects /\ Authorized(at.phase, work[at.phase])
    BY <1>0, <1>8 DEF RefreshBaseline, Authorized, TypeOK
  <2>2. \A p \in Phases, x \in Subjects : Authorized(p, x)' <=> Authorized(p, x)
    BY <1>0, <1>8, <2>1, SettleDecides DEF Recommits
  <2>3. Trusted' = Trusted
    BY <2>2, TrustedSame
  <2> QED
    BY <1>8, <2>3 DEF Recommits, LedgerView
<1>9. CASE SetCommitAuthority /\ latest[at.phase] # None /\ Recommits(latest[at.phase])
  <2>1. PICK s : s = latest[at.phase]
    OBVIOUS
  <2>7. PICK q \in Phases : q = at.phase
    BY <1>0
  <2>2. s \in Subjects /\ s # None /\ Recommits(s)
    BY <1>0, <1>9, <2>1 DEF TypeOK
  <2>3. Settle(at.phase, s, FALSE) /\ UNCHANGED <<approved, resets>>
    BY <2>2 DEF Recommits
  <2>4. \A p \in Phases, x \in Subjects :
          Authorized(p, x)' <=> IF p = q /\ x = s THEN TRUE
                                ELSE Authorized(p, x)
    BY <1>0, <2>2, <2>3, <2>7, SettleDecides
  <2>8. Authorized(q, s)' /\ \A p \in Phases, x \in Subjects :
          ~(p = q /\ x = s) => (Authorized(p, x)' <=> Authorized(p, x))
    BY <2>2, <2>4
  <2>5. Trusted' = Trusted \cup {<<q, s>>}
    BY <2>2, <2>8, TrustedBut
  <2>6. Ledger!Vouch(s)
    BY <2>2, <2>5, <2>7 DEF Recommits, Ledger!Vouch, Trusted
  <2> QED
    BY <2>2, <2>6 DEF Ledger!LedgerNext
<1>10. CASE UNCHANGED vars
  <2>1. Trusted' = Trusted
    BY <1>10, AuthorityKept, TrustedSame DEF vars
  <2> QED
    BY <1>10, <2>1 DEF vars, LedgerView
<1> QED
  BY <1>1, <1>2, <1>3, <1>4, <1>5, <1>6, <1>7, <1>8, <1>9, <1>10, StepGrants

(* Authority that the code computes from the history of approvals,            *)
(* settlements and resets is, for every such history, a plain set of trusted   *)
(* subjects: given and withdrawn where the task stands, never resurrected.     *)
THEOREM WorkflowIsLedger == Spec => ImplementsPhaseLedger
<1>1. Init => Ledger!LedgerInit
  <2> SUFFICES ASSUME Init PROVE Ledger!LedgerInit
    OBVIOUS
  <2>1. \A p \in Phases, s \in Subjects : ~Authorized(p, s)
    BY DEF Init, Authorized, HumanApproved, RuleAccepted, SettledFor
  <2>2. Trusted = {}
    BY <2>1 DEF Trusted
  <2> QED
    BY <2>2 DEF Init, Ledger!LedgerInit, Trusted, Phases
<1>2. WorkflowInv /\ [Next]_vars => [Ledger!LedgerNext]_LedgerView
  BY LedgerStep
<1> QED
  BY <1>1, <1>2, Invariant, PTL DEF Spec, ImplementsPhaseLedger, Ledger!LedgerSpec, Ledger!ledgerVars,
     LedgerView, Trusted
=============================================================================
