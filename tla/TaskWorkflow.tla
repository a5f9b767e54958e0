--------------------------- MODULE TaskWorkflow ---------------------------
(***************************************************************************)
(* The fixed workflow of one task, as the state handler, the transition    *)
(* planner and the gate lifecycle move it.  A task stands in one phase     *)
(* (requirements, design, then a planning and an implementation phase per  *)
(* round) and in one step of that phase (produce, counter review, triage). *)
(* It leaves a phase only with authority for the exact produced subject: a *)
(* human approval, or a rule settlement that needs no human.  Restarts and *)
(* milestone recoveries revoke authority without deleting it; a human may  *)
(* send work back; a producer may ask for a validation override.           *)
(*                                                                         *)
(* Every action is one committed revision of the state file (TaskKernel    *)
(* says how a revision is committed).  What the code compares as revision  *)
(* numbers is modelled by a stamp: one more than the number of resets that *)
(* had happened.  Left out: imported tasks, waivers, exhausted attempts,   *)
(* baseline adoption; reviews count as one with the triage that judges     *)
(* them, and proofs of commits are observations that may come at any time. *)
(***************************************************************************)
EXTENDS Naturals, Sequences

CONSTANTS Subjects,       \* digests a produce step can result in
          None,           \* an absent subject or record
          Rounds,         \* numbered rounds of planning and implementation
          Results,        \* the subjects a phase's produce can result in
          Conclusions,    \* what the approval rules can conclude in a phase
          PlannedRounds,  \* what a subject says as a design; 0 is open-ended
          MaxAttempt,     \* bound: attempts in one phase
          MaxResets,      \* bound: restarts and recoveries
          MaxReanchors    \* bound: operator re-anchorings of a settlement

ASSUME WorkflowAssumption ==
  /\ None \notin Subjects
  /\ Rounds \in Nat
  /\ Results \in [1..(2 + 2 * Rounds) -> SUBSET Subjects]
  /\ Conclusions \in [1..(2 + 2 * Rounds) -> SUBSET {"none", "wait", "proceed"}]
  /\ PlannedRounds \in [Subjects -> 0..Rounds]
  /\ MaxAttempt \in Nat \ {0}
  /\ MaxResets \in Nat
  /\ MaxReanchors \in Nat

VARIABLES
  at,              \* [phase, step, status, attempt]
  work,            \* the current produce result of each phase
  triage,          \* this phase's triage: [subject, verdict], or None
  predecessor,     \* the reviewed subject whose evidence the work inherits, or None
  approved,        \* stamp of the latest human approval, 0 when none
  settled,         \* latest rule settlement: [wait, stamp], stamp 0 when none
  latest,          \* the subject a phase's latest settlement is for, or None
  resets,          \* restarts and recoveries: [kind, target]
  gate,            \* the open gate's kind, or "none"
  checkpoint,      \* a revision was decided and its produce not entered yet
  pendingHuman,    \* the revision a human asked for: [subject, attempt]
  pendingOverride, \* a validation override: "no", "asked", or "held" at its gate
  bound,           \* planned_final_phase, 0 when absent
  terminal,
  reanchors        \* counts the operator's re-anchorings
vars == <<at, work, triage, predecessor, approved, settled, latest, resets, gate,
          checkpoint, pendingHuman, pendingOverride, bound, terminal, reanchors>>
cycle == <<work, triage, predecessor>>
settlements == <<settled, latest>>
ledger == <<approved, settlements, resets, reanchors>>
asks == <<gate, checkpoint, pendingHuman, pendingOverride>>

LastPhase == 2 + 2 * Rounds
Phases == 1..LastPhase
IsImpl(p) == p > 2 /\ p % 2 = 0
IsPlanning(p) == ~IsImpl(p)
Number(p) == (p - 1) \div 2       \* of a numbered phase

(* Nothing accepted, editorial changes alone, or something accepted: a count *)
(* of accepted findings above zero or the answer "revise".                   *)
Verdicts == {"clean", "minor", "revise"}
Following == [produce |-> "counter_review", counter_review |-> "triage"]
Now == Len(resets) + 1

Position == [phase : Phases, step : {"produce", "counter_review", "triage"},
             status : {"running", "succeeded", "failed"}, attempt : 1..MaxAttempt]
Stamps == 0..(MaxResets + 1)
Settlement == [wait : BOOLEAN, stamp : Stamps]
Reset == [kind : {"restart", "recovery"}, target : Phases]

TypeOK ==
  /\ at \in Position
  /\ work \in [Phases -> Subjects \cup {None}]
  /\ triage \in [subject : Subjects, verdict : Verdicts] \cup {None}
  /\ predecessor \in Subjects \cup {None}
  /\ approved \in [Phases -> [Subjects -> Stamps]]
  /\ settled \in [Phases -> [Subjects -> Settlement]]
  /\ latest \in [Phases -> Subjects \cup {None}]
  /\ resets \in Seq(Reset) /\ Len(resets) <= MaxResets
  /\ gate \in {"none", "approval", "drift", "override"}
  /\ checkpoint \in BOOLEAN /\ terminal \in BOOLEAN
  /\ pendingOverride \in {"no", "asked", "held"}
  /\ pendingHuman \in [subject : Subjects, attempt : 1..MaxAttempt] \cup {None}
  /\ bound \in 0..Rounds
  /\ reanchors \in 0..MaxReanchors

-----------------------------------------------------------------------------
(* Authority *)

(* A restart reaches its target and everything after it; a recovery reaches *)
(* its own phase. *)
Affects(reset, p) ==
  IF reset.kind = "restart" THEN reset.target <= p ELSE reset.target = p

(* What-if: a record at the reset itself still counts. *)
EligibleAtCutoff(p, stamp) ==
  \A i \in DOMAIN resets : Affects(resets[i], p) => i <= stamp

Eligible(p, stamp) ==
  \A i \in DOMAIN resets : Affects(resets[i], p) => i < stamp

HumanApproved(p, s) == approved[p][s] # 0 /\ Eligible(p, approved[p][s])

SettledFor(p, s) == settled[p][s].stamp # 0 /\ Eligible(p, settled[p][s].stamp)

RuleAccepted(p, s) == SettledFor(p, s) /\ ~settled[p][s].wait

Authorized(p, s) == HumanApproved(p, s) \/ RuleAccepted(p, s)

(* What-if: the digest is not compared. *)
AnySubjectIsAuthorized ==
  \E s \in Subjects : Authorized(at.phase, s)

CurrentIsAuthorized ==
  work[at.phase] # None /\ Authorized(at.phase, work[at.phase])

(* The evidence of a phase counts for the work it judged, and for one hop   *)
(* further: a correction that declares the judged work as its predecessor.  *)
Covers(t, s, pred) ==
  t # None /\ \/ t.subject = s /\ t.verdict = "clean"
              \/ /\ pred # None
                 /\ t.subject = pred
                 /\ t.verdict \in {"clean", "minor"}
Reviewed == work[at.phase] # None /\ Covers(triage, work[at.phase], predecessor)

(* The cross-field rules every read and every kernel commit enforces. *)
Readable ==
  /\ pendingHuman # None =>
       /\ gate = "none" /\ ~terminal
       /\ at.step = "produce" /\ at.status # "succeeded"
       /\ at.attempt = pendingHuman.attempt
  /\ pendingOverride # "no" => ~terminal /\ at.step = "produce" /\ at.status = "failed"
  /\ pendingOverride = "asked" => gate = "none"
  /\ pendingOverride = "held" <=> gate = "override"

(* What-if: the open gate is not asked. *)
IdleDespiteGate == Readable /\ ~terminal

(* What the state handler asks of the state before any move. *)
Idle == Readable /\ ~terminal /\ gate = "none"

Movable == Idle /\ pendingOverride = "no" /\ ~checkpoint

-----------------------------------------------------------------------------
Init ==
  /\ at = [phase |-> 1, step |-> "produce", status |-> "running", attempt |-> 1]
  /\ work = [p \in Phases |-> None]
  /\ triage = None /\ predecessor = None
  /\ approved = [p \in Phases |-> [s \in Subjects |-> 0]]
  /\ settled = [p \in Phases |-> [s \in Subjects |-> [wait |-> FALSE, stamp |-> 0]]]
  /\ latest = [p \in Phases |-> None]
  /\ resets = <<>>
  /\ gate = "none" /\ checkpoint = FALSE
  /\ pendingHuman = None /\ pendingOverride = "no"
  /\ bound = 0 /\ terminal = FALSE /\ reanchors = 0

(* The settlement of a subject, at this revision.  An older one for the same *)
(* subject can never be selected again. *)
Settle(p, s, wait) ==
  /\ settled' = [settled EXCEPT ![p][s] = [wait |-> wait, stamp |-> Now]]
  /\ latest' = [latest EXCEPT ![p] = s]

(* The settlement a result's transaction mints, if it mints one. *)
SettleAs(p, s, conclusion) ==
  IF conclusion = "none" THEN UNCHANGED settlements ELSE Settle(p, s, conclusion = "wait")

(* The attempt a step is entered with, when it may be entered at all.  The  *)
(* produce window opens from anywhere but a produce that is running.        *)
EntryAttempt(step) ==
  IF \/ step = "produce" /\ ~(at.step = "produce" /\ at.status = "running")
     \/ at.step = step /\ at.status = "failed"
  THEN at.attempt + 1
  ELSE IF /\ at.step \in DOMAIN Following /\ Following[at.step] = step
          /\ at.status = "succeeded"
       THEN at.attempt ELSE 0

EnterStep(step) ==
  /\ Movable
  /\ pendingHuman # None => at.step = "produce" /\ step = "produce"
  /\ EntryAttempt(step) \in 1..MaxAttempt
  /\ at' = [at EXCEPT !.step = step, !.status = "running", !.attempt = EntryAttempt(step)]
  /\ UNCHANGED <<cycle, ledger, asks, bound, terminal>>
  /\ Readable'

Fail ==
  /\ Movable
  /\ at.status = "running"
  /\ at' = [at EXCEPT !.status = "failed"]
  /\ UNCHANGED <<cycle, ledger, asks, bound, terminal>>
  /\ Readable'

Producing == Movable /\ at.step = "produce" /\ at.status = "running"

(* What-if: no comparison with the phase. *)
ReboundAnyPlan(s) ==
  IF bound = 0 \/ at.phase = 1 THEN {bound}
  ELSE IF at.phase = 2 THEN {PlannedRounds[s]} ELSE 0..Rounds

(* A stored bound is derived again from a design these bytes record; a later *)
(* phase that records one may not plan fewer rounds than its own number.     *)
Rebound(s) ==
  IF bound = 0 \/ at.phase = 1 THEN {bound}
  ELSE IF at.phase = 2 THEN {PlannedRounds[s]}
  ELSE {bound, 0} \cup {n \in 1..Rounds : n >= Number(at.phase)}

Record(s) ==
  /\ work' = [work EXCEPT ![at.phase] = s]
  /\ bound' \in Rebound(s)
  /\ UNCHANGED <<approved, resets, reanchors, gate, checkpoint, pendingOverride, terminal>>
  /\ Readable'

(* Work handed in as it is: earlier evidence stays, but judges other bytes. *)
Produce(s) ==
  /\ Producing /\ pendingHuman = None
  /\ at' = [at EXCEPT !.status = "succeeded"]
  /\ predecessor' = None
  /\ UNCHANGED <<triage, settlements, pendingHuman>>
  /\ Record(s)

(* The minor correction a triage asked for reuses its evidence and may      *)
(* settle the corrected bytes in the same transaction. *)
Correct(s) ==
  /\ Producing /\ pendingHuman = None
  /\ triage # None /\ triage.verdict = "minor" /\ triage.subject = work[at.phase]
  /\ s # work[at.phase]
  /\ at' = [at EXCEPT !.status = "succeeded"]
  /\ predecessor' = work[at.phase]
  /\ \E conclusion \in Conclusions[at.phase] : SettleAs(at.phase, s, conclusion)
  /\ UNCHANGED <<triage, pendingHuman>>
  /\ Record(s)

(* What-if: unchanged bytes answer. *)
ReviseSimplySame(s) ==
  /\ Producing /\ pendingHuman # None
  /\ ~(triage # None /\ triage.verdict = "revise")
  /\ at' = [at EXCEPT !.status = "succeeded"]
  /\ predecessor' = pendingHuman.subject
  /\ pendingHuman' = None
  /\ UNCHANGED <<triage, settlements>>
  /\ Record(s)

(* The revision a human asked for, of changed bytes.  A simple one keeps    *)
(* the evidence, a significant one starts over at attempt one.              *)
ReviseSimply(s) ==
  /\ Producing /\ pendingHuman # None
  /\ s # pendingHuman.subject
  /\ ~(triage # None /\ triage.verdict = "revise")
  /\ at' = [at EXCEPT !.status = "succeeded"]
  /\ predecessor' = pendingHuman.subject
  /\ pendingHuman' = None
  /\ UNCHANGED <<triage, settlements>>
  /\ Record(s)

ReviseSignificantly(s) ==
  /\ Producing /\ pendingHuman # None
  /\ s # pendingHuman.subject
  /\ at' = [at EXCEPT !.status = "succeeded", !.attempt = 1]
  /\ triage' = None /\ predecessor' = None
  /\ pendingHuman' = None
  /\ UNCHANGED settlements
  /\ Record(s)

FinishReview ==
  /\ Movable /\ at.step = "counter_review" /\ at.status = "running"
  /\ at' = [at EXCEPT !.status = "succeeded"]
  /\ UNCHANGED <<cycle, ledger, asks, bound, terminal>>
  /\ Readable'

(* What-if: any triage settles. *)
FinishTriageAndSettle(verdict) ==
  /\ Movable /\ at.step = "triage" /\ at.status = "running"
  /\ work[at.phase] # None
  /\ at' = [at EXCEPT !.status = "succeeded"]
  /\ triage' = [subject |-> work[at.phase], verdict |-> verdict]
  /\ \E conclusion \in Conclusions[at.phase] :
       SettleAs(at.phase, work[at.phase], conclusion)
  /\ UNCHANGED <<work, predecessor, approved, resets, reanchors, asks, bound, terminal>>
  /\ Readable'

(* The triage that closes the review of the current work.  Its transaction  *)
(* evaluates the approval rules when the evidence covers the work.          *)
FinishTriage(verdict) ==
  /\ Movable /\ at.step = "triage" /\ at.status = "running"
  /\ work[at.phase] # None
  /\ at' = [at EXCEPT !.status = "succeeded"]
  /\ triage' = [subject |-> work[at.phase], verdict |-> verdict]
  /\ \E conclusion \in Conclusions[at.phase] \cup {"none"} :
       /\ conclusion \in IF Covers(triage', work[at.phase], predecessor)
                          THEN Conclusions[at.phase] ELSE {"none"}
       /\ SettleAs(at.phase, work[at.phase], conclusion)
  /\ UNCHANGED <<work, predecessor, approved, resets, reanchors, asks, bound, terminal>>
  /\ Readable'

EndsPlan == bound # 0 /\ IsImpl(at.phase) /\ Number(at.phase) = bound
Leaving ==
  /\ Movable
  /\ at.step \in {"triage", "produce"} /\ at.status = "succeeded"
  /\ CurrentIsAuthorized

(* Status offers completion instead at the planned end.  A design accepted  *)
(* by rule fixes the bound now; an approved one fixed it at the gate.       *)
Advance ==
  /\ Leaving
  /\ ~EndsPlan /\ at.phase < LastPhase
  /\ at' = [phase |-> at.phase + 1, step |-> "produce", status |-> "running", attempt |-> 1]
  /\ bound' = IF at.phase = 2 /\ ~HumanApproved(2, work[2]) THEN PlannedRounds[work[2]] ELSE bound
  /\ triage' = None /\ predecessor' = None
  /\ UNCHANGED <<work, ledger, asks, terminal>>
  /\ Readable'

Complete ==
  /\ Leaving
  /\ EndsPlan
  /\ terminal' = TRUE
  /\ UNCHANGED <<at, cycle, ledger, asks, bound>>
  /\ Readable'

(* An implementation fails and asks that a human displace a validation of   *)
(* its authorized phase design.                                             *)
RequestOverride ==
  /\ Producing
  /\ IsImpl(at.phase) /\ Authorized(at.phase - 1, work[at.phase - 1])
  /\ at' = [at EXCEPT !.status = "failed"]
  /\ pendingOverride' = "asked"
  /\ UNCHANGED <<cycle, ledger, gate, checkpoint, pendingHuman, bound, terminal>>
  /\ Readable'

-----------------------------------------------------------------------------
(* Gates *)

(* Status asks for the phase's approval when reviewed work has no authority, *)
(* and for a drift decision when the review says the work contradicts an     *)
(* earlier phase.  Opening a gate writes the state without the cross-field   *)
(* rules being checked.                                                      *)
OpenGate(kind) ==
  /\ Idle /\ ~checkpoint
  /\ \/ /\ kind = "approval" /\ pendingOverride = "no"
        /\ at.step \in {"triage", "produce"} /\ at.status = "succeeded"
        /\ Reviewed /\ ~CurrentIsAuthorized
     \/ /\ kind = "drift" /\ pendingOverride = "no"
        /\ at.step = "triage" /\ at.status = "succeeded" /\ at.phase > 1
        /\ Reviewed
     \/ kind = "override" /\ pendingOverride = "asked"
  /\ gate' = kind
  /\ pendingOverride' = IF kind = "override" THEN "held" ELSE "no"
  /\ UNCHANGED <<at, cycle, ledger, checkpoint, pendingHuman, bound, terminal>>

Approve ==
  /\ Readable /\ gate = "approval"
  /\ gate' = "none"
  /\ approved' = [approved EXCEPT ![at.phase][work[at.phase]] = Now]
  /\ bound' = IF at.phase = 2 THEN PlannedRounds[work[2]] ELSE bound
  /\ UNCHANGED <<at, cycle, settlements, resets, reanchors, checkpoint, pendingHuman,
                 pendingOverride, terminal>>

(* What-if: the request stays. *)
CloseGateOnly ==
  /\ Readable /\ gate # "none"
  /\ gate' = "none"
  /\ UNCHANGED <<at, cycle, ledger, checkpoint, pendingHuman, pendingOverride, bound, terminal>>

(* Cancelling closes any gate; an override gate settles only its request. *)
CloseGate ==
  /\ Readable /\ gate # "none"
  /\ gate' = "none" /\ pendingOverride' = "no"
  /\ UNCHANGED <<at, cycle, ledger, checkpoint, pendingHuman, bound, terminal>>

(* The connected host settles a decision to revise in two commits: the gate *)
(* closes at a checkpoint, and produce is entered from it.                  *)
DecideRevision ==
  /\ Readable /\ gate \in {"approval", "drift"}
  /\ gate' = "none" /\ checkpoint' = TRUE
  /\ UNCHANGED <<at, cycle, ledger, pendingHuman, pendingOverride, bound, terminal>>

Reopened ==
  /\ at' = [at EXCEPT !.step = "produce", !.status = "running"]
  /\ pendingHuman' = [subject |-> work[at.phase], attempt |-> at.attempt]
  /\ UNCHANGED <<cycle, ledger, pendingOverride, bound, terminal>>

EnterRevision ==
  /\ Readable /\ checkpoint
  /\ checkpoint' = FALSE
  /\ UNCHANGED gate
  /\ Reopened
  /\ Readable'

(* The local host settles it in one commit, at a finished triage only. *)
ReviseAtOnce ==
  /\ Readable /\ gate \in {"approval", "drift"}
  /\ at.step = "triage" /\ at.status = "succeeded"
  /\ gate' = "none"
  /\ UNCHANGED checkpoint
  /\ Reopened
  /\ Readable'

-----------------------------------------------------------------------------
(* Resets *)

CanReset == Len(resets) < MaxResets

(* Back to an earlier planning phase, dropping every result from there on. *)
RestartAt(target) ==
  /\ CanReset
  /\ IsPlanning(target) /\ target < at.phase
  /\ at' = [phase |-> target, step |-> "produce", status |-> "running", attempt |-> 1]
  /\ work' = [p \in Phases |-> IF p < target THEN work[p] ELSE None]
  /\ triage' = None /\ predecessor' = None
  /\ resets' = Append(resets, [kind |-> "restart", target |-> target])
  /\ gate' = "none" /\ checkpoint' = FALSE /\ pendingHuman' = None
  /\ bound' = IF target \in {1, 2} THEN 0 ELSE bound
  /\ UNCHANGED <<approved, settlements, reanchors, pendingOverride, terminal>>
  /\ Readable'

Restart(target) == Idle /\ pendingOverride = "no" /\ RestartAt(target)

(* A drift decision against one of the documents the phase is built on. *)
Upstreams(p) ==
  IF p = 1 THEN {} ELSE IF p = 2 THEN {1} ELSE IF IsImpl(p) THEN {2, p - 1} ELSE {1, 2}
AmendUpstream(target) ==
  /\ Readable /\ gate = "drift" /\ target \in Upstreams(at.phase)
  /\ RestartAt(target)

(* The milestone commit that carried the phase's authority disappeared. *)
RecoverMilestone ==
  /\ Movable /\ CanReset
  /\ at.status = "succeeded" /\ CurrentIsAuthorized
  /\ at' = [at EXCEPT !.step = "produce", !.status = "running", !.attempt = 1]
  /\ work' = [work EXCEPT ![at.phase] = None]
  /\ triage' = None /\ predecessor' = None
  /\ resets' = Append(resets, [kind |-> "recovery", target |-> at.phase])
  /\ pendingHuman' = None
  /\ UNCHANGED <<approved, settlements, reanchors, gate, checkpoint, pendingOverride, bound, terminal>>
  /\ Readable'

(* A reviewed fixed point older than the approval triggers: the evidence is *)
(* retired so that even the same bytes are reviewed and settled afresh.     *)
RecoverTrigger ==
  /\ Movable /\ pendingHuman = None
  /\ at.step = "triage" /\ at.status = "succeeded" /\ Reviewed
  /\ ~SettledFor(at.phase, work[at.phase]) /\ ~HumanApproved(at.phase, work[at.phase])
  /\ at' = [at EXCEPT !.step = "produce", !.status = "running", !.attempt = 1]
  /\ triage' = None
  /\ UNCHANGED <<work, predecessor, ledger, asks, bound, terminal>>
  /\ Readable'

-----------------------------------------------------------------------------
(* Settlements copied at a later revision *)

Recommit(s) == Settle(at.phase, s, settled[at.phase][s].wait)

(* The branch moved under a planning phase that no human approved. *)
RefreshBaseline ==
  /\ Movable /\ IsPlanning(at.phase)
  /\ at.step = "triage" /\ at.status = "succeeded" /\ work[at.phase] # None
  /\ RuleAccepted(at.phase, work[at.phase]) /\ ~HumanApproved(at.phase, work[at.phase])
  /\ Recommit(work[at.phase])
  /\ UNCHANGED <<at, cycle, approved, resets, reanchors, asks, bound, terminal>>
  /\ Readable'

(* An operator names another commit for the phase's latest settlement.  The *)
(* handler asks neither which subject it settles nor whether it still counts; *)
(* a validation override is pinned to its revision, so none may be pending.  *)
(* The position is the call's, and the command makes it that of the state.   *)
SetCommitAuthority ==
  /\ Idle /\ pendingOverride = "no"
  /\ reanchors < MaxReanchors
  /\ reanchors' = reanchors + 1
  /\ latest[at.phase] # None /\ ~settled[at.phase][latest[at.phase]].wait
  /\ Recommit(latest[at.phase])
  /\ checkpoint' = FALSE
  /\ UNCHANGED <<at, cycle, approved, resets, gate, pendingHuman, pendingOverride, bound, terminal>>
  /\ Readable'

-----------------------------------------------------------------------------
Next ==
  \/ \E step \in {"produce", "counter_review", "triage"} : EnterStep(step)
  \/ Fail
  \/ \E s \in Results[at.phase] : Produce(s)
  \/ \E s \in Results[at.phase] : Correct(s)
  \/ \E s \in Results[at.phase] : ReviseSimply(s)
  \/ \E s \in Results[at.phase] : ReviseSignificantly(s)
  \/ FinishReview
  \/ \E verdict \in Verdicts : FinishTriage(verdict)
  \/ Advance \/ Complete
  \/ RequestOverride
  \/ \E kind \in {"approval", "drift", "override"} : OpenGate(kind)
  \/ Approve \/ CloseGate
  \/ DecideRevision \/ EnterRevision \/ ReviseAtOnce
  \/ \E target \in Phases : Restart(target)
  \/ \E target \in Phases : AmendUpstream(target)
  \/ RecoverMilestone \/ RecoverTrigger
  \/ RefreshBaseline \/ SetCommitAuthority

Spec == Init /\ [][Next]_vars

-----------------------------------------------------------------------------
(* Properties *)

(* Every phase already left, and every phase of a completed task, still has  *)
(* authority for the result it is represented by: no restart, recovery or    *)
(* re-production leaves the task standing on work nobody answers for.        *)
UpstreamAuthorized ==
  \A p \in Phases : p < at.phase \/ (terminal /\ p = at.phase) =>
    work[p] # None /\ Authorized(p, work[p])

(* A subject gains authority only as the current work of the phase the task  *)
(* stands in, while the retained evidence covers it: authority that a reset  *)
(* or a waiting settlement took away comes back by no other road than an     *)
(* operator who names a commit for the phase's latest settlement again.      *)
AuthorityNeedsReview ==
  [][reanchors' = reanchors => \A p \in Phases, s \in Subjects :
       ~Authorized(p, s) /\ Authorized(p, s)' =>
         p = at'.phase /\ s = work'[p] /\ Reviewed']_vars

(* A restart leaves no authority at its target or after it, a recovery none  *)
(* in its phase, whatever approvals and settlements the history holds.       *)
ResetRevokes ==
  [][resets' # resets =>
       \A p \in Phases, s \in Subjects : Affects(resets'[Len(resets')], p) => ~Authorized(p, s)']_vars

(* While a gate waits for its human, the work it asks about stays finished,  *)
(* reviewed and without other authority: nothing moves under an open gate.   *)
OpenGateIsCurrent ==
  gate = "approval" => at.status = "succeeded" /\ Reviewed /\ ~CurrentIsAuthorized

(* A task never stands in a round its own plan does not have: the bound can  *)
(* be reached, and completion is offered there instead of another round.     *)
BoundFits == at.phase > 2 /\ bound # 0 => Number(at.phase) <= bound

(* A human's request for changes ends in changed bytes that no rule settles  *)
(* in the same step, or in a reset; nothing else forgets it.                 *)
HumanRevisionAnswered ==
  [][pendingHuman # None /\ pendingHuman' = None =>
       \/ resets' # resets
       \/ /\ work'[at.phase] # pendingHuman.subject
          /\ UNCHANGED <<settled, approved>>]_vars

(* The only state the program can write and not read back is the override    *)
(* gate of an implementation that is also under a human's revision.          *)
UnreadableOnlyUnderRevision ==
  Readable \/ (gate = "override" /\ pendingHuman # None)

(* Authority computed from the history of approvals, settlements and resets  *)
(* behaves as a plain set of trusted subjects would (PhaseLedger).           *)
Ledger == INSTANCE PhaseLedger WITH
  phase <- at.phase, subject <- work, done <- terminal,
  trusted <- {pair \in Phases \X Subjects : Authorized(pair[1], pair[2])}
ImplementsPhaseLedger == Ledger!LedgerSpec
=============================================================================
