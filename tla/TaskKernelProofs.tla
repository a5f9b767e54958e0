-------------------------- MODULE TaskKernelProofs --------------------------
(***************************************************************************)
(* Machine-checked facts about TaskKernel, for every number of clients,     *)
(* intents and requests and every bound, and about the lock it relies on,   *)
(* TaskLock.                                                                *)
(***************************************************************************)
EXTENDS TaskKernel, TaskLock, TLAPS

LEMMA ManifestTyped ==
    ASSUME NEW t \in Transition
    PROVE  ManifestOf(t) \in Manifest
BY DEF ManifestOf, Manifest, Transition

LEMMA PlanTyped ==
    ASSUME TypeOK, NEW c \in Clients
    PROVE  PlanOf(c) \in Transition
BY DEF PlanOf, Transition, TypeOK, Call, TaskState

LEMMA FinalTyped ==
    ASSUME TypeOK, NEW c \in Clients, seen[c].revision < MaxRevision
    PROVE  FinalOf(c) \in TaskState
<1>1. seen[c] \in TaskState
  BY DEF TypeOK
<1>2. PlanOf(c) \in Transition
  BY PlanTyped
<1>3. seen[c].revision + 1 \in Revisions
  BY <1>1, BoundAssumption DEF TaskState, Revisions
<1>4. ResultsAfter(seen[c], PlanOf(c)) \in SUBSET Manifest
  BY <1>1, <1>2, ManifestTyped DEF ResultsAfter, TaskState
<1> QED
  BY <1>2, <1>3, <1>4 DEF FinalOf, Committed, TaskState

LEMMA NewTaskTyped == NewTask \in TaskState
BY BoundAssumption DEF NewTask, TaskState, Revisions

(* Types, and that no plan starts at the last revision, are one induction:    *)
(* a commit's revision is in range only because of its headroom.              *)
LEMMA TypeStep == TypeOK /\ Headroom /\ [Next]_vars => TypeOK'
<1> SUFFICES ASSUME TypeOK, Headroom, [Next]_vars PROVE TypeOK'
  OBVIOUS
<1> USE DEF TypeOK, files, locals, cleaner, Goto, Complete
<1>1. ASSUME NEW c \in Clients, Start(c) PROVE TypeOK'
  BY <1>1, BoundAssumption DEF Start, Labels, Locked, Unlocked, Planned, Replies, Refusals, PlannedFailures, Call, Revisions, Worlds, TaskState
<1>2. ASSUME NEW c \in Clients, Acquire(c) PROVE TypeOK'
  BY <1>2 DEF Acquire, Labels, Locked, Unlocked, Planned
<1>3. ASSUME NEW c \in Clients, AcquireFails(c) PROVE TypeOK'
  BY <1>3, NewTaskTyped DEF AcquireFails, Return, Labels, Locked, Unlocked, Planned, Replies, Refusals, PlannedFailures
<1>4. ASSUME NEW c \in Clients, ReadState(c) PROVE TypeOK'
  BY <1>4 DEF ReadState, DigestVerdict, Labels, Locked, Unlocked, Planned, Replies, Refusals, PlannedFailures
<1>5. ASSUME NEW c \in Clients, PlanFresh(c) PROVE TypeOK'
  BY <1>5 DEF PlanFresh, Labels, Locked, Unlocked, Planned, Replies, Refusals, PlannedFailures
<1>6. ASSUME NEW c \in Clients, HandleExisting(c) PROVE TypeOK'
  BY <1>6 DEF HandleExisting, DigestVerdict, Labels, Locked, Unlocked, Planned, Replies, Refusals, PlannedFailures
<1>7. ASSUME NEW c \in Clients, Install(c) PROVE TypeOK'
  BY <1>7, PlanTyped, ManifestTyped DEF Install, Labels, Locked, Unlocked, Planned, Replies, Refusals, PlannedFailures
<1>8. ASSUME NEW c \in Clients, Resume(c) PROVE TypeOK'
  BY <1>8 DEF Resume, Labels, Locked, Unlocked, Planned, Replies, Refusals, PlannedFailures
<1>9. ASSUME NEW c \in Clients, Project(c) PROVE TypeOK'
  BY <1>9 DEF Project, Labels, Locked, Unlocked, Planned, Replies, Refusals, PlannedFailures
<1>10. ASSUME NEW c \in Clients, CreateReceipt(c) PROVE TypeOK'
  <2>1. PlanOf(c) \in Transition /\ call[c].intent \in Intents
    BY PlanTyped DEF Call
  <2>2. receipts' \in [Intents -> Transition \cup {Nothing}]
    BY <1>10, <2>1 DEF CreateReceipt
  <2>3. pc' \in [Clients -> Labels] /\ outcome' \in [Clients -> Replies]
    BY <1>10 DEF CreateReceipt, Labels, Locked, Unlocked, Planned, Replies, PlannedFailures
  <2> QED
    BY <1>10, <2>2, <2>3 DEF CreateReceipt
<1>11. ASSUME NEW c \in Clients, ReplaceState(c) PROVE TypeOK'
  <2>1. seen[c].revision < MaxRevision
    BY <1>11 DEF ReplaceState, Headroom, Planned
  <2>2. PlanOf(c) \in Transition /\ FinalOf(c) \in TaskState
    BY <2>1, PlanTyped, FinalTyped
  <2>3. state' \in TaskState /\ log' \in Seq(Transition)
    <3>1. CASE UNCHANGED <<state, log>>
      BY <3>1
    <3>2. CASE Commit(c)
      <4>1. Append(log, PlanOf(c)) \in Seq(Transition)
        BY <2>2
      <4> QED
        BY <3>2, <2>2, <4>1 DEF Commit
    <3> QED
      BY <1>11, <3>1, <3>2 DEF ReplaceState
  <2>4. pc' \in [Clients -> Labels] /\ outcome' \in [Clients -> Replies]
    BY <1>11 DEF ReplaceState, Labels, Locked, Unlocked, Planned, Replies, PlannedFailures
  <2> QED
    BY <1>11, <2>3, <2>4 DEF ReplaceState
<1>12. ASSUME NEW c \in Clients, Reread(c) PROVE TypeOK'
  BY <1>12 DEF Reread, Labels, Locked, Unlocked, Planned, Replies, Refusals, PlannedFailures
<1>13. ASSUME NEW c \in Clients, Clean(c) PROVE TypeOK'
  BY <1>13 DEF Clean, Cleanup, Labels, Locked, Unlocked, Planned, Replies, Refusals, PlannedFailures
<1>14. ASSUME NEW c \in Clients, Arbitrate(c) PROVE TypeOK'
  BY <1>14 DEF Arbitrate, Verdict, Labels, Locked, Unlocked, Planned, Replies, Refusals, PlannedFailures
<1>15. ASSUME NEW c \in Clients, Release(c) PROVE TypeOK'
  BY <1>15, NewTaskTyped DEF Release, Return, Labels, Locked, Unlocked, Planned, Replies, Refusals, PlannedFailures
<1>16. ASSUME NEW c \in Clients, ReleaseFails(c) PROVE TypeOK'
  BY <1>16, NewTaskTyped DEF ReleaseFails, Return, Abandon, Labels, Locked, Unlocked, Planned, Replies, Refusals, PlannedFailures
<1>17. ASSUME NEW c \in Clients, ArbitrateOutside(c) PROVE TypeOK'
  BY <1>17, NewTaskTyped DEF ArbitrateOutside, Return, Abandon, Verdict, Labels, Locked, Unlocked, Planned, Replies, Refusals, PlannedFailures
<1>18. ASSUME NEW c \in Clients, CleanOutside(c) PROVE TypeOK'
  BY <1>18, NewTaskTyped DEF CleanOutside, Cleanup, Return, Abandon, Labels, Locked, Unlocked, Planned, Replies, Refusals, PlannedFailures
<1>19. ASSUME NEW c \in Clients, Wipe(c) PROVE TypeOK'
  BY <1>19, NewTaskTyped DEF Wipe, WipeRuntime, Return, Abandon, Labels, Locked, Unlocked, Planned, Replies, Refusals, PlannedFailures
<1>20. ASSUME NEW c \in Clients, Crash(c) PROVE TypeOK'
  BY <1>20, NewTaskTyped DEF Crash, Abandon, Labels, Locked, Unlocked, Planned, Replies, Refusals, PlannedFailures
<1>21. CASE RepairLock
  BY <1>21 DEF RepairLock
<1>22. CASE LocalClean
  BY <1>22, BoundAssumption DEF LocalClean, Cleanup, TaskState
<1>23. CASE LocalWipe
  BY <1>23 DEF LocalWipe, WipeRuntime
<1>24. CASE WorldChanges
  BY <1>24, BoundAssumption DEF WorldChanges, Worlds
<1>25. CASE UNCHANGED vars
  BY <1>25 DEF vars
<1> QED
  BY <1>1, <1>2, <1>3, <1>4, <1>5, <1>6, <1>7, <1>8, <1>9, <1>10, <1>11, <1>12, <1>13, <1>14, <1>15, <1>16, <1>17, <1>18, <1>19, <1>20, <1>21, <1>22, <1>23, <1>24, <1>25 DEF Next, Step

(* Plans and receipts keep their headroom. *)
LEMMA HeadroomStep ==
    TypeOK /\ Headroom /\ [Next]_vars => Headroom'
<1> SUFFICES ASSUME TypeOK, Headroom, [Next]_vars PROVE Headroom'
  OBVIOUS
<1> USE DEF Headroom, Planned, TypeOK, files, locals, cleaner, Goto, Complete
<1>1. ASSUME NEW c \in Clients, Start(c) PROVE Headroom'
  BY <1>1 DEF Start
<1>2. ASSUME NEW c \in Clients, Acquire(c) PROVE Headroom'
  BY <1>2 DEF Acquire
<1>3. ASSUME NEW c \in Clients, AcquireFails(c) PROVE Headroom'
  BY <1>3 DEF AcquireFails, Return
<1>4. ASSUME NEW c \in Clients, ReadState(c) PROVE Headroom'
  BY <1>4 DEF ReadState, Claims
<1>5. ASSUME NEW c \in Clients, PlanFresh(c) PROVE Headroom'
  BY <1>5, BoundAssumption DEF PlanFresh, TaskState, Revisions
<1>6. ASSUME NEW c \in Clients, HandleExisting(c) PROVE Headroom'
  BY <1>6 DEF HandleExisting, SameRequest, Call
<1>7. ASSUME NEW c \in Clients, Install(c) PROVE Headroom'
  BY <1>7 DEF Install
<1>8. ASSUME NEW c \in Clients, Resume(c) PROVE Headroom'
  BY <1>8 DEF Resume
<1>9. ASSUME NEW c \in Clients, Project(c) PROVE Headroom'
  BY <1>9 DEF Project
<1>10. ASSUME NEW c \in Clients, CreateReceipt(c) PROVE Headroom'
  BY <1>10 DEF CreateReceipt, PlanOf, Call
<1>11. ASSUME NEW c \in Clients, ReplaceState(c) PROVE Headroom'
  BY <1>11 DEF ReplaceState, Commit
<1>12. ASSUME NEW c \in Clients, Reread(c) PROVE Headroom'
  BY <1>12 DEF Reread
<1>13. ASSUME NEW c \in Clients, Clean(c) PROVE Headroom'
  BY <1>13 DEF Clean, Cleanup, RecoveryBuffer
<1>14. ASSUME NEW c \in Clients, Arbitrate(c) PROVE Headroom'
  BY <1>14 DEF Arbitrate, Verdict
<1>15. ASSUME NEW c \in Clients, Release(c) PROVE Headroom'
  BY <1>15 DEF Release, Return
<1>16. ASSUME NEW c \in Clients, ReleaseFails(c) PROVE Headroom'
  BY <1>16 DEF ReleaseFails, Return, Abandon
<1>17. ASSUME NEW c \in Clients, ArbitrateOutside(c) PROVE Headroom'
  BY <1>17 DEF ArbitrateOutside, Verdict, Return, Abandon
<1>18. ASSUME NEW c \in Clients, CleanOutside(c) PROVE Headroom'
  BY <1>18 DEF CleanOutside, Cleanup, Return, Abandon
<1>19. ASSUME NEW c \in Clients, Wipe(c) PROVE Headroom'
  BY <1>19 DEF Wipe, WipeRuntime, Return, Abandon
<1>20. ASSUME NEW c \in Clients, Crash(c) PROVE Headroom'
  BY <1>20 DEF Crash, Abandon
<1>21. CASE RepairLock
  BY <1>21 DEF RepairLock
<1>22. CASE LocalClean
  BY <1>22 DEF LocalClean, Cleanup
<1>23. CASE LocalWipe
  BY <1>23 DEF LocalWipe, WipeRuntime
<1>24. CASE WorldChanges
  BY <1>24 DEF WorldChanges
<1>25. CASE UNCHANGED vars
  BY <1>25 DEF vars
<1> QED
  BY <1>1, <1>2, <1>3, <1>4, <1>5, <1>6, <1>7, <1>8, <1>9, <1>10, <1>11, <1>12, <1>13, <1>14, <1>15, <1>16, <1>17, <1>18, <1>19, <1>20, <1>21, <1>22, <1>23, <1>24, <1>25 DEF Next, Step

(* The lock directory belongs to whoever is inside. *)
LEMMA InsideStep ==
    TypeOK /\ InsideHolds /\ PlansAreFresh /\ WipesAreLate /\ [Next]_vars => InsideHolds'
<1> SUFFICES ASSUME TypeOK, InsideHolds, PlansAreFresh, WipesAreLate, [Next]_vars PROVE InsideHolds'
  OBVIOUS
<1> USE DEF InsideHolds, Inside, Locked, Unlocked, Planned, WipesAreLate, TypeOK, files, locals, cleaner, Goto, Complete
<1>1. ASSUME NEW c \in Clients, Start(c) PROVE InsideHolds'
  BY <1>1, DistinctAssumption DEF Start
<1>2. ASSUME NEW c \in Clients, Acquire(c) PROVE InsideHolds'
  BY <1>2, DistinctAssumption DEF Acquire
<1>3. ASSUME NEW c \in Clients, AcquireFails(c) PROVE InsideHolds'
  BY <1>3, DistinctAssumption DEF AcquireFails, Return
<1>4. ASSUME NEW c \in Clients, ReadState(c) PROVE InsideHolds'
  BY <1>4, DistinctAssumption DEF ReadState, Claims
<1>5. ASSUME NEW c \in Clients, PlanFresh(c) PROVE InsideHolds'
  BY <1>5, DistinctAssumption DEF PlanFresh
<1>6. ASSUME NEW c \in Clients, HandleExisting(c) PROVE InsideHolds'
  BY <1>6, DistinctAssumption DEF HandleExisting, SameRequest
<1>7. ASSUME NEW c \in Clients, Install(c) PROVE InsideHolds'
  BY <1>7, DistinctAssumption DEF Install
<1>8. ASSUME NEW c \in Clients, Resume(c) PROVE InsideHolds'
  BY <1>8, DistinctAssumption DEF Resume
<1>9. ASSUME NEW c \in Clients, Project(c) PROVE InsideHolds'
  BY <1>9, DistinctAssumption DEF Project
<1>10. ASSUME NEW c \in Clients, CreateReceipt(c) PROVE InsideHolds'
  BY <1>10, DistinctAssumption DEF CreateReceipt
<1>11. ASSUME NEW c \in Clients, ReplaceState(c) PROVE InsideHolds'
  <2>1. ~state.terminal /\ lock = c
    BY <1>11 DEF ReplaceState, PlansAreFresh, IsFresh
  <2>2. \A d \in Clients : Inside(d)' => Inside(d)
    BY <1>11 DEF ReplaceState
  <2> QED
    BY <1>11, <2>1, <2>2 DEF ReplaceState
<1>12. ASSUME NEW c \in Clients, Reread(c) PROVE InsideHolds'
  BY <1>12, DistinctAssumption DEF Reread
<1>13. ASSUME NEW c \in Clients, Clean(c) PROVE InsideHolds'
  BY <1>13, DistinctAssumption DEF Clean, Cleanup
<1>14. ASSUME NEW c \in Clients, Arbitrate(c) PROVE InsideHolds'
  BY <1>14, DistinctAssumption DEF Arbitrate, Verdict
<1>15. ASSUME NEW c \in Clients, Release(c) PROVE InsideHolds'
  BY <1>15, DistinctAssumption DEF Release, Return
<1>16. ASSUME NEW c \in Clients, ReleaseFails(c) PROVE InsideHolds'
  BY <1>16, DistinctAssumption DEF ReleaseFails, Return, Abandon
<1>17. ASSUME NEW c \in Clients, ArbitrateOutside(c) PROVE InsideHolds'
  BY <1>17, DistinctAssumption DEF ArbitrateOutside, Verdict, Return, Abandon
<1>18. ASSUME NEW c \in Clients, CleanOutside(c) PROVE InsideHolds'
  BY <1>18, DistinctAssumption DEF CleanOutside, Cleanup, Return, Abandon
<1>19. ASSUME NEW c \in Clients, Wipe(c) PROVE InsideHolds'
  BY <1>19, DistinctAssumption DEF Wipe, WipeRuntime, Return, Abandon
<1>20. ASSUME NEW c \in Clients, Crash(c) PROVE InsideHolds'
  BY <1>20, DistinctAssumption DEF Crash, Abandon
<1>21. CASE RepairLock
  BY <1>21, DistinctAssumption DEF RepairLock
<1>22. CASE LocalClean
  BY <1>22, DistinctAssumption DEF LocalClean, Cleanup
<1>23. CASE LocalWipe
  BY <1>23, DistinctAssumption DEF LocalWipe, WipeRuntime
<1>24. CASE WorldChanges
  BY <1>24, DistinctAssumption DEF WorldChanges
<1>25. CASE UNCHANGED vars
  BY <1>25 DEF vars
<1> QED
  BY <1>1, <1>2, <1>3, <1>4, <1>5, <1>6, <1>7, <1>8, <1>9, <1>10, <1>11, <1>12, <1>13, <1>14, <1>15, <1>16, <1>17, <1>18, <1>19, <1>20, <1>21, <1>22, <1>23, <1>24, <1>25 DEF Next, Step

(* A wipe is only ever owed by a terminal task. *)
LEMMA WipesStep ==
    TypeOK /\ PlansAreFresh /\ WipesAreLate /\ [Next]_vars => WipesAreLate'
<1> SUFFICES ASSUME TypeOK, PlansAreFresh, WipesAreLate, [Next]_vars PROVE WipesAreLate'
  OBVIOUS
<1> USE DEF WipesAreLate, Planned, TypeOK, files, locals, cleaner, Goto, Complete
<1>1. ASSUME NEW c \in Clients, Start(c) PROVE WipesAreLate'
  BY <1>1 DEF Start
<1>2. ASSUME NEW c \in Clients, Acquire(c) PROVE WipesAreLate'
  BY <1>2 DEF Acquire
<1>3. ASSUME NEW c \in Clients, AcquireFails(c) PROVE WipesAreLate'
  BY <1>3 DEF AcquireFails, Return
<1>4. ASSUME NEW c \in Clients, ReadState(c) PROVE WipesAreLate'
  BY <1>4 DEF ReadState, Claims
<1>5. ASSUME NEW c \in Clients, PlanFresh(c) PROVE WipesAreLate'
  BY <1>5 DEF PlanFresh
<1>6. ASSUME NEW c \in Clients, HandleExisting(c) PROVE WipesAreLate'
  BY <1>6 DEF HandleExisting, SameRequest
<1>7. ASSUME NEW c \in Clients, Install(c) PROVE WipesAreLate'
  BY <1>7 DEF Install
<1>8. ASSUME NEW c \in Clients, Resume(c) PROVE WipesAreLate'
  BY <1>8 DEF Resume
<1>9. ASSUME NEW c \in Clients, Project(c) PROVE WipesAreLate'
  BY <1>9 DEF Project
<1>10. ASSUME NEW c \in Clients, CreateReceipt(c) PROVE WipesAreLate'
  BY <1>10 DEF CreateReceipt
<1>11. ASSUME NEW c \in Clients, ReplaceState(c) PROVE WipesAreLate'
  <2>1. ~state.terminal
    BY <1>11 DEF ReplaceState, PlansAreFresh, IsFresh
  <2> QED
    BY <1>11, <2>1 DEF ReplaceState
<1>12. ASSUME NEW c \in Clients, Reread(c) PROVE WipesAreLate'
  BY <1>12 DEF Reread
<1>13. ASSUME NEW c \in Clients, Clean(c) PROVE WipesAreLate'
  BY <1>13 DEF Clean, Cleanup
<1>14. ASSUME NEW c \in Clients, Arbitrate(c) PROVE WipesAreLate'
  BY <1>14 DEF Arbitrate, Verdict
<1>15. ASSUME NEW c \in Clients, Release(c) PROVE WipesAreLate'
  BY <1>15 DEF Release, Return, Finished
<1>16. ASSUME NEW c \in Clients, ReleaseFails(c) PROVE WipesAreLate'
  BY <1>16 DEF ReleaseFails, Return, Abandon, Finished
<1>17. ASSUME NEW c \in Clients, ArbitrateOutside(c) PROVE WipesAreLate'
  BY <1>17 DEF ArbitrateOutside, Verdict, Return, Abandon
<1>18. ASSUME NEW c \in Clients, CleanOutside(c) PROVE WipesAreLate'
  BY <1>18 DEF CleanOutside, Cleanup, Return, Abandon
<1>19. ASSUME NEW c \in Clients, Wipe(c) PROVE WipesAreLate'
  BY <1>19 DEF Wipe, WipeRuntime, Return, Abandon
<1>20. ASSUME NEW c \in Clients, Crash(c) PROVE WipesAreLate'
  BY <1>20 DEF Crash, Abandon
<1>21. CASE RepairLock
  BY <1>21 DEF RepairLock
<1>22. CASE LocalClean
  BY <1>22 DEF LocalClean, Cleanup
<1>23. CASE LocalWipe
  BY <1>23 DEF LocalWipe, WipeRuntime
<1>24. CASE WorldChanges
  BY <1>24 DEF WorldChanges
<1>25. CASE UNCHANGED vars
  BY <1>25 DEF vars
<1> QED
  BY <1>1, <1>2, <1>3, <1>4, <1>5, <1>6, <1>7, <1>8, <1>9, <1>10, <1>11, <1>12, <1>13, <1>14, <1>15, <1>16, <1>17, <1>18, <1>19, <1>20, <1>21, <1>22, <1>23, <1>24, <1>25 DEF Next, Step

(* A client's step touches no other client's locals, and only a replace      *)
(* writes the state document.                                                *)
LEMMA Bystander ==
    ASSUME TypeOK, NEW c \in Clients, Start(c) \/ Step(c) \/ Crash(c),
           NEW d \in Clients, d # c
    PROVE  /\ pc'[d] = pc[d] /\ call'[d] = call[d] /\ seen'[d] = seen[d]
           /\ outcome'[d] = outcome[d] /\ reply'[d] = reply[d]
           /\ PlanOf(d)' = PlanOf(d) /\ FinalOf(d)' = FinalOf(d)
<1> USE DEF TypeOK, files, locals, cleaner, Goto, Complete, Return, Abandon
<1>1. /\ pc'[d] = pc[d] /\ call'[d] = call[d] /\ seen'[d] = seen[d]
      /\ outcome'[d] = outcome[d] /\ reply'[d] = reply[d]
  <2>1. CASE Start(c) \/ Acquire(c) \/ AcquireFails(c) \/ Crash(c)
    BY <2>1 DEF Start, Acquire, AcquireFails, Crash
  <2>2. CASE ReadState(c) \/ PlanFresh(c) \/ HandleExisting(c)
    BY <2>2 DEF ReadState, PlanFresh, HandleExisting
  <2>3. CASE Install(c) \/ Resume(c) \/ Project(c) \/ CreateReceipt(c) \/ ReplaceState(c)
    BY <2>3 DEF Install, Resume, Project, CreateReceipt, ReplaceState
  <2>4. CASE Reread(c) \/ Clean(c) \/ Arbitrate(c) \/ Release(c)
    BY <2>4 DEF Reread, Clean, Arbitrate, Release
  <2>5. CASE ReleaseFails(c) \/ ArbitrateOutside(c) \/ CleanOutside(c) \/ Wipe(c)
    BY <2>5 DEF ReleaseFails, ArbitrateOutside, CleanOutside, Wipe
  <2> QED
    BY <2>1, <2>2, <2>3, <2>4, <2>5 DEF Step
<1> QED
  BY <1>1 DEF PlanOf, FinalOf

LEMMA OnlyReplaceWrites ==
    ASSUME NEW c \in Clients, Start(c) \/ Step(c) \/ Crash(c), ~ReplaceState(c)
    PROVE  UNCHANGED <<state, log>>
BY DEF files, Step, Start, Acquire, AcquireFails, Crash, ReadState, PlanFresh, HandleExisting, Install,
       Resume, Project, CreateReceipt, Reread, Clean, Arbitrate, Release, ReleaseFails,
       ArbitrateOutside, CleanOutside, Wipe

LEMMA OthersOnlyRead ==
    ASSUME RepairLock \/ LocalClean \/ LocalWipe \/ WorldChanges
    PROVE  UNCHANGED <<state, log, locals>>
BY DEF files, locals, RepairLock, LocalClean, LocalWipe, WorldChanges

(* While one call replaces the state no other call is inside. *)
LEMMA WriterIsAlone ==
    ASSUME InsideHolds, PlansAreFresh, NEW c \in Clients, ReplaceState(c), NEW d \in Clients, d # c
    PROVE  ~Inside(d)
BY DEF InsideHolds, PlansAreFresh, IsFresh, ReplaceState, Inside, Locked, Planned


(* Nobody moves the state under a call that is about to write. *)
LEMMA FreshStep ==
    TypeOK /\ InsideHolds /\ PlansAreFresh /\ BuffersAreLive /\ [Next]_vars => PlansAreFresh'
<1> SUFFICES ASSUME TypeOK, InsideHolds, PlansAreFresh, BuffersAreLive, [Next]_vars,
                    NEW d \in Clients
             PROVE  IsFresh(d)'
  BY DEF PlansAreFresh
<1>1. IsFresh(d)
  BY DEF PlansAreFresh
<1>2. ASSUME NEW c \in Clients, Start(c) \/ Step(c) \/ Crash(c), c # d
      PROVE  IsFresh(d)'
  <2>1. CASE ReplaceState(c)
    BY <1>2, <2>1, WriterIsAlone, Bystander DEF IsFresh, Inside, Locked, Planned
  <2>2. CASE ~ReplaceState(c)
    BY <1>1, <1>2, <2>2, OnlyReplaceWrites, Bystander DEF IsFresh
  <2> QED
    BY <2>1, <2>2
<1>3. CASE RepairLock \/ LocalClean \/ LocalWipe \/ WorldChanges \/ UNCHANGED vars
  BY <1>1, <1>3, OthersOnlyRead DEF IsFresh, locals, vars
<1>4. ASSUME Start(d) \/ Step(d) \/ Crash(d) PROVE IsFresh(d)'
  <2> USE DEF IsFresh, Planned, TypeOK, files, locals, Goto, Complete
  <2>1. CASE ReadState(d) \/ PlanFresh(d)
    BY <1>1, <2>1 DEF ReadState, PlanFresh
  <2>2. CASE HandleExisting(d)
    <3>1. pc'[d] \in {"release", "resume", "replace"} /\ state' = state /\ seen'[d] = state
      BY <1>1, <2>2 DEF HandleExisting
    <3>2. ASSUME pc'[d] # "release" PROVE ~state.terminal
      <4>1. receipts[call[d].intent] # Nothing /\ receipts[call[d].intent].prior = state.revision
        BY <1>1, <2>2, <3>2 DEF HandleExisting
      <4> QED
        BY <4>1 DEF BuffersAreLive, RecoveryBuffer, Call
    <3> QED
      BY <3>1, <3>2
  <2>3. CASE Install(d) \/ Resume(d) \/ Project(d) \/ CreateReceipt(d)
    BY <1>1, <2>3 DEF Install, Resume, Project, CreateReceipt
  <2>4. CASE ReplaceState(d) \/ Reread(d) \/ Clean(d) \/ Arbitrate(d)
    BY <2>4 DEF ReplaceState, Reread, Clean, Arbitrate
  <2>5. CASE Release(d) \/ ReleaseFails(d) \/ ArbitrateOutside(d) \/ CleanOutside(d)
    BY <2>5 DEF Release, ReleaseFails, ArbitrateOutside, CleanOutside, Return
  <2>6. CASE Start(d) \/ Acquire(d) \/ AcquireFails(d) \/ Wipe(d) \/ Crash(d)
    BY <2>6 DEF Start, Acquire, AcquireFails, Wipe, Crash, Return
  <2> QED
    BY <1>4, <2>1, <2>2, <2>3, <2>4, <2>5, <2>6 DEF Step
<1> QED
  BY <1>2, <1>3, <1>4 DEF Next

(* Nobody moves the state under a call that has just written. *)
LEMMA WritesStep ==
    TypeOK /\ InsideHolds /\ PlansAreFresh /\ WritesAreKnown /\ [Next]_vars => WritesAreKnown'
<1> SUFFICES ASSUME TypeOK, InsideHolds, PlansAreFresh, WritesAreKnown, [Next]_vars,
                    NEW d \in Clients
             PROVE  WriteKnown(d)'
  BY DEF WritesAreKnown
<1>1. WriteKnown(d) /\ IsFresh(d)
  BY DEF WritesAreKnown, PlansAreFresh
<1>2. ASSUME NEW c \in Clients, Start(c) \/ Step(c) \/ Crash(c), c # d
      PROVE  WriteKnown(d)'
  <2>1. CASE ReplaceState(c)
    BY <1>2, <2>1, WriterIsAlone, Bystander DEF WriteKnown, Inside, Locked, Unlocked
  <2>2. CASE ~ReplaceState(c)
    BY <1>1, <1>2, <2>2, OnlyReplaceWrites, Bystander DEF WriteKnown
  <2> QED
    BY <2>1, <2>2
<1>3. CASE RepairLock \/ LocalClean \/ LocalWipe \/ WorldChanges \/ UNCHANGED vars
  <2>1. UNCHANGED <<state, pc, call, seen, outcome>>
    BY <1>3, OthersOnlyRead DEF locals, vars
  <2>2. FinalOf(d)' = FinalOf(d)
    BY <2>1 DEF FinalOf, PlanOf
  <2> QED
    BY <1>1, <2>1, <2>2 DEF WriteKnown
<1>4. ASSUME Start(d) \/ Step(d) \/ Crash(d) PROVE WriteKnown(d)'
  <2> USE DEF WriteKnown, PlannedFailures, TypeOK, files, locals, Goto, Complete
  <2>1. CASE Start(d) \/ Acquire(d) \/ AcquireFails(d) \/ Wipe(d) \/ Crash(d)
    BY <2>1 DEF Start, Acquire, AcquireFails, Wipe, Crash, Return
  <2>2. CASE ReadState(d) \/ PlanFresh(d) \/ HandleExisting(d)
    BY <2>2 DEF ReadState, PlanFresh, HandleExisting, DigestVerdict
  <2>3. CASE Install(d) \/ Resume(d) \/ Project(d) \/ CreateReceipt(d)
    <3>1. state' = seen'[d]
      BY <1>1, <2>3 DEF Install, Resume, Project, CreateReceipt, IsFresh, Planned
    <3> QED
      BY <2>3, <3>1 DEF Install, Resume, Project, CreateReceipt
  <2>4. CASE ReplaceState(d)
    <3>1. FinalOf(d)' = FinalOf(d)
      BY <2>4 DEF ReplaceState, FinalOf, PlanOf
    <3>2. state' \in {seen'[d], FinalOf(d)} /\ (pc'[d] = "reread" => state' = FinalOf(d))
      BY <1>1, <2>4 DEF ReplaceState, Commit, IsFresh, Planned
    <3> QED
      BY <2>4, <3>1, <3>2 DEF ReplaceState
  <2>5. CASE Reread(d) \/ Clean(d) \/ Arbitrate(d)
    <3>1. FinalOf(d)' = FinalOf(d) /\ state' = state /\ seen'[d] = seen[d]
      BY <2>5 DEF Reread, Clean, Arbitrate, FinalOf, PlanOf
    <3> QED
      BY <1>1, <2>5, <3>1 DEF Reread, Clean, Arbitrate, Verdict
  <2>6. CASE Release(d) \/ ReleaseFails(d) \/ ArbitrateOutside(d) \/ CleanOutside(d)
    <3>1. CASE pc'[d] \in {"done", "wipe"}
      BY <3>1
    <3>2. CASE pc'[d] \notin {"done", "wipe"}
      <4>1. /\ pc'[d] \in {"arbitrate-out", "clean-out"}
            /\ pc'[d] = "arbitrate-out" => outcome'[d] \in PlannedFailures
            /\ state' = state /\ seen' = seen /\ call' = call
        BY <2>6, <3>2 DEF Release, ReleaseFails, ArbitrateOutside, CleanOutside, Return
      <4>2. FinalOf(d)' = FinalOf(d)
        BY <4>1 DEF FinalOf, PlanOf
      <4>3. /\ state \in {seen[d], FinalOf(d)}
            /\ pc'[d] = "clean-out" => state = FinalOf(d)
        BY <1>1, <2>6, <3>2 DEF Release, ReleaseFails, ArbitrateOutside, CleanOutside, Return, Verdict
      <4> QED
        BY <4>1, <4>2, <4>3
    <3> QED
      BY <3>1, <3>2
  <2> QED
    BY <1>4, <2>1, <2>2, <2>3, <2>4, <2>5, <2>6 DEF Step
<1> QED
  BY <1>2, <1>3, <1>4 DEF Next

(* Every receipt was planned at or below the current revision, and the ones   *)
(* planned at it over a task that is not terminal.                            *)
LEMMA BuffersStep ==
    TypeOK /\ PlansAreFresh /\ BuffersAreLive /\ [Next]_vars => BuffersAreLive'
<1> SUFFICES ASSUME TypeOK, PlansAreFresh, BuffersAreLive, [Next]_vars
             PROVE  BuffersAreLive'
  OBVIOUS
<1>1. ASSUME UNCHANGED state, \A i \in Intents : receipts'[i] \in {receipts[i], Nothing}
      PROVE  BuffersAreLive'
  BY <1>1 DEF BuffersAreLive, RecoveryBuffer
<1>2. ASSUME NEW c \in Clients, ReplaceState(c) PROVE BuffersAreLive'
  <2>1. CASE UNCHANGED state
    BY <1>1, <1>2, <2>1 DEF ReplaceState
  <2>2. CASE Commit(c)
    <3>1. state'.revision = state.revision + 1 /\ state.revision \in Nat
      BY <1>2, <2>2 DEF ReplaceState, Commit, FinalOf, Committed, PlansAreFresh, IsFresh, Planned, TypeOK, TaskState, Revisions
    <3>2. \A i \in Intents : receipts[i] # Nothing => receipts[i].prior \in Nat /\ receipts[i].prior <= state.revision
      BY DEF BuffersAreLive, TypeOK, Transition, Revisions
    <3> QED
      BY <1>2, <3>1, <3>2 DEF ReplaceState, BuffersAreLive, RecoveryBuffer
  <2> QED
    BY <1>2, <2>1, <2>2 DEF ReplaceState
<1>3. ASSUME NEW c \in Clients, CreateReceipt(c) PROVE BuffersAreLive'
  <2>1. ~state.terminal /\ PlanOf(c).prior = state.revision
    BY <1>3 DEF CreateReceipt, PlansAreFresh, IsFresh, Planned, PlanOf
  <2>2. state.revision \in Nat
    BY DEF TypeOK, TaskState, Revisions
  <2>3. \A i \in Intents : receipts'[i] \in {receipts[i], PlanOf(c)}
    BY <1>3 DEF CreateReceipt, TypeOK
  <2>4. state' = state
    BY <1>3 DEF CreateReceipt
  <2> QED
    BY <2>1, <2>2, <2>3, <2>4 DEF BuffersAreLive, RecoveryBuffer
<1>4. ASSUME NEW c \in Clients, Start(c) \/ Step(c) \/ Crash(c), ~ReplaceState(c), ~CreateReceipt(c)
      PROVE  BuffersAreLive'
  <2>1. \A i \in Intents : receipts'[i] \in {receipts[i], Nothing}
    BY <1>4 DEF Step, Start, Acquire, AcquireFails, Crash, ReadState, PlanFresh, HandleExisting, Install,
       Resume, Project, Reread, Clean, Arbitrate, Release, ReleaseFails, ArbitrateOutside, CleanOutside,
       Wipe, Cleanup, WipeRuntime, files
  <2> QED
    BY <1>1, <1>4, <2>1, OnlyReplaceWrites
<1>5. CASE RepairLock \/ LocalClean \/ LocalWipe \/ WorldChanges
  <2>1. \A i \in Intents : receipts'[i] \in {receipts[i], Nothing}
    BY <1>5 DEF RepairLock, LocalClean, LocalWipe, WorldChanges, Cleanup, WipeRuntime, files
  <2> QED
    BY <1>1, <1>5, <2>1, OthersOnlyRead
<1>6. CASE UNCHANGED vars
  BY <1>1, <1>6 DEF vars
<1> QED
  BY <1>2, <1>3, <1>4, <1>5, <1>6 DEF Next, Step

(* What cleanups and wipes may take away.  No other client and no clean       *)
(* touches the files while a call is planned.                                 *)
LEMMA PlannedIsAlone ==
    ASSUME TypeOK, InsideHolds, PlansAreFresh, WipesAreLate, [Next]_vars,
           NEW d \in Clients, pc[d] \in Planned, ~Step(d)
    PROVE  UNCHANGED <<receipts, manifests>>
<1>1. ~state.terminal /\ lock = d
  BY DEF PlansAreFresh, IsFresh, InsideHolds, Inside, Locked
<1>2. ASSUME NEW c \in Clients, c # d, Start(c) \/ Step(c) \/ Crash(c) PROVE UNCHANGED <<receipts, manifests>>
  <2>1. ~Inside(c) /\ pc[c] # "wipe"
    BY <1>1, <1>2 DEF InsideHolds, WipesAreLate
  <2> QED
    BY <1>2, <2>1 DEF Step, Start, Acquire, AcquireFails, Crash, ReadState, PlanFresh, HandleExisting, Install,
       Resume, Project, CreateReceipt, ReplaceState, Reread, Clean, Arbitrate, Release, ReleaseFails,
       ArbitrateOutside, CleanOutside, Wipe, files, Inside, Locked, Unlocked, Planned
<1>3. CASE RepairLock \/ LocalClean \/ LocalWipe \/ WorldChanges \/ UNCHANGED vars
  BY <1>1, <1>3, DistinctAssumption DEF RepairLock, LocalClean, LocalWipe, WorldChanges, WipesAreLate, files, vars
<1>4. CASE Start(d) \/ Crash(d)
  BY <1>4 DEF Start, Crash
<1> QED
  BY <1>2, <1>3, <1>4 DEF Next

(* A call about to resume or to replace the state keeps its own receipt.      *)
LEMMA FiledStep ==
    TypeOK /\ Headroom /\ InsideHolds /\ PlansAreFresh /\ WipesAreLate /\ ReceiptFiled /\ [Next]_vars
    => ReceiptFiled'
<1> SUFFICES ASSUME TypeOK, Headroom, InsideHolds, PlansAreFresh, WipesAreLate, ReceiptFiled, [Next]_vars,
                    NEW d \in Clients
             PROVE  HasFiled(d)'
  BY DEF ReceiptFiled
<1>1. HasFiled(d)
  BY DEF ReceiptFiled
<1>2. ASSUME NEW c \in Clients, c # d, Start(c) \/ Step(c) \/ Crash(c), ~Step(d) PROVE HasFiled(d)'
  <2>1. pc'[d] = pc[d] /\ call'[d] = call[d] /\ PlanOf(d)' = PlanOf(d)
    BY <1>2, Bystander
  <2>2. pc[d] \in Planned => receipts' = receipts
    BY <1>2, PlannedIsAlone
  <2> QED
    BY <1>1, <2>1, <2>2 DEF HasFiled, Planned
<1>3. ASSUME RepairLock \/ LocalClean \/ LocalWipe \/ WorldChanges \/ UNCHANGED vars, ~Step(d)
      PROVE  HasFiled(d)'
  <2>1. UNCHANGED <<pc, call, seen>>
    BY <1>3, OthersOnlyRead DEF locals, vars
  <2>2. pc[d] \in Planned => receipts' = receipts
    BY <1>3, PlannedIsAlone
  <2> QED
    BY <1>1, <2>1, <2>2 DEF HasFiled, Planned, PlanOf
<1>4. ASSUME Start(d) \/ Step(d) \/ Crash(d) PROVE HasFiled(d)'
  <2> USE DEF HasFiled, TypeOK, Goto, Complete
  <2>1. CASE Start(d) \/ Acquire(d) \/ AcquireFails(d) \/ ReadState(d) \/ PlanFresh(d) \/ Install(d) \/ Crash(d)
    BY <2>1 DEF Start, Acquire, AcquireFails, ReadState, PlanFresh, Install, Crash, Return
  <2>2. CASE HandleExisting(d)
    <3> DEFINE i == call[d].intent
    <3>1. receipts[i] \in Transition /\ receipts[i].intent = i
      BY <2>2 DEF HandleExisting, Headroom, Call
    <3>2. call'[d] = call[d] /\ receipts' = receipts /\ seen' = seen
      BY <2>2 DEF HandleExisting, files
    <3>3. ASSUME pc'[d] \in {"resume", "reproject", "replace"} PROVE receipts[i] = PlanOf(d)
      <4>1. receipts[i].prior = seen[d].revision /\ SameRequest(call[d], receipts[i])
        BY <2>2, <3>3 DEF HandleExisting
      <4> QED
        BY <3>1, <4>1 DEF SameRequest, PlanOf, Transition
    <3>4. PlanOf(d)' = PlanOf(d)
      BY <3>2 DEF PlanOf
    <3> QED
      BY <3>2, <3>3, <3>4
  <2>3. CASE Resume(d) \/ Project(d)
    <3>1. UNCHANGED <<receipts, call, seen>>
      BY <2>3 DEF Resume, Project, files
    <3>2. PlanOf(d)' = PlanOf(d)
      BY <3>1 DEF PlanOf
    <3> QED
      BY <1>1, <2>3, <3>1, <3>2 DEF Resume, Project
  <2>4. CASE CreateReceipt(d)
    <3>1. UNCHANGED <<call, seen>> /\ call[d].intent \in Intents
      BY <2>4 DEF CreateReceipt, Call
    <3>2. PlanOf(d)' = PlanOf(d)
      BY <3>1 DEF PlanOf
    <3> QED
      BY <2>4, <3>1, <3>2 DEF CreateReceipt
  <2>5. CASE ReplaceState(d) \/ Reread(d) \/ Clean(d) \/ Arbitrate(d)
    BY <2>5 DEF ReplaceState, Reread, Clean, Arbitrate
  <2>6. CASE Release(d) \/ ReleaseFails(d) \/ ArbitrateOutside(d) \/ CleanOutside(d) \/ Wipe(d)
    BY <2>6 DEF Release, ReleaseFails, ArbitrateOutside, CleanOutside, Wipe, Return
  <2> QED
    BY <1>4, <2>1, <2>2, <2>3, <2>4, <2>5, <2>6 DEF Step
<1> QED
  BY <1>2, <1>3, <1>4 DEF Next

(* A call past installation keeps its manifest.                               *)
LEMMA ResultStep ==
    TypeOK /\ InsideHolds /\ PlansAreFresh /\ WipesAreLate /\ ResultInstalled /\ [Next]_vars
    => ResultInstalled'
<1> SUFFICES ASSUME TypeOK, InsideHolds, PlansAreFresh, WipesAreLate, ResultInstalled, [Next]_vars,
                    NEW d \in Clients
             PROVE  HasResult(d)'
  BY DEF ResultInstalled
<1>1. HasResult(d)
  BY DEF ResultInstalled
<1>2. ASSUME NEW c \in Clients, c # d, Start(c) \/ Step(c) \/ Crash(c), ~Step(d) PROVE HasResult(d)'
  <2>1. pc'[d] = pc[d] /\ call'[d] = call[d] /\ PlanOf(d)' = PlanOf(d)
    BY <1>2, Bystander
  <2>2. pc[d] \in Planned => manifests' = manifests
    BY <1>2, PlannedIsAlone
  <2> QED
    BY <1>1, <2>1, <2>2 DEF HasResult, Planned, ManifestOf
<1>3. ASSUME RepairLock \/ LocalClean \/ LocalWipe \/ WorldChanges \/ UNCHANGED vars, ~Step(d)
      PROVE  HasResult(d)'
  <2>1. UNCHANGED <<pc, call, seen>>
    BY <1>3, OthersOnlyRead DEF locals, vars
  <2>2. pc[d] \in Planned => manifests' = manifests
    BY <1>3, PlannedIsAlone
  <2> QED
    BY <1>1, <2>1, <2>2 DEF HasResult, Planned, PlanOf, ManifestOf
<1>4. ASSUME Start(d) \/ Step(d) \/ Crash(d) PROVE HasResult(d)'
  <2> USE DEF HasResult, TypeOK, Goto, Complete
  <2>1. CASE Start(d) \/ Acquire(d) \/ AcquireFails(d) \/ ReadState(d) \/ PlanFresh(d) \/ HandleExisting(d)
    BY <2>1 DEF Start, Acquire, AcquireFails, ReadState, PlanFresh, HandleExisting, Return
  <2>2. CASE Install(d) \/ Resume(d) \/ Project(d) \/ CreateReceipt(d)
    <3>1. UNCHANGED <<call, seen>>
      BY <2>2 DEF Install, Resume, Project, CreateReceipt
    <3>2. PlanOf(d)' = PlanOf(d)
      BY <3>1 DEF PlanOf
    <3> QED
      BY <1>1, <2>2, <3>1, <3>2 DEF Install, Resume, Project, CreateReceipt, files, ManifestOf
  <2>3. CASE ReplaceState(d) \/ Reread(d) \/ Clean(d) \/ Arbitrate(d) \/ Crash(d)
    BY <2>3 DEF ReplaceState, Reread, Clean, Arbitrate, Crash
  <2>4. CASE Release(d) \/ ReleaseFails(d) \/ ArbitrateOutside(d) \/ CleanOutside(d) \/ Wipe(d)
    BY <2>4 DEF Release, ReleaseFails, ArbitrateOutside, CleanOutside, Wipe, Return
  <2> QED
    BY <1>4, <2>1, <2>2, <2>3, <2>4 DEF Step
<1> QED
  BY <1>2, <1>3, <1>4 DEF Next

(* Every result the state names is installed: a commit adds one its call      *)
(* installed, and a cleanup keeps the ones the state names.                   *)
LEMMA InstalledStep ==
    TypeOK /\ PlansAreFresh /\ WritesAreKnown /\ ResultInstalled /\ AuthorityInstalled /\ [Next]_vars
    => AuthorityInstalled'
<1> SUFFICES ASSUME TypeOK, PlansAreFresh, WritesAreKnown, ResultInstalled, AuthorityInstalled, [Next]_vars
             PROVE  AuthorityInstalled'
  OBVIOUS
<1> USE DEF AuthorityInstalled
<1>1. ASSUME NEW c \in Clients, ReplaceState(c) PROVE AuthorityInstalled'
  <2>1. seen[c] = state
    BY <1>1 DEF ReplaceState, PlansAreFresh, IsFresh, Planned
  <2>2. FinalOf(c).results \subseteq manifests
    <3>1. PlanOf(c).request \in Installing => ManifestOf(PlanOf(c)) \in manifests
      BY <1>1 DEF ReplaceState, ResultInstalled, HasResult, PlanOf
    <3> QED
      BY <2>1, <3>1 DEF FinalOf, Committed, ResultsAfter
  <2> QED
    BY <1>1, <2>2 DEF ReplaceState, Commit
<1>2. ASSUME NEW c \in Clients, Clean(c) \/ CleanOutside(c) PROVE AuthorityInstalled'
  <2>1. state = FinalOf(c)
    BY <1>2 DEF Clean, CleanOutside, WritesAreKnown, WriteKnown
  <2> QED
    BY <1>2, <2>1 DEF Clean, CleanOutside, Cleanup
<1>3. ASSUME NEW c \in Clients, Start(c) \/ Step(c) \/ Crash(c),
             ~ReplaceState(c), ~Clean(c), ~CleanOutside(c)
      PROVE  AuthorityInstalled'
  <2>1. state' = state
    BY <1>3, OnlyReplaceWrites
  <2>2. manifests \subseteq manifests'
    BY <1>3 DEF Step, Start, Acquire, AcquireFails, Crash, ReadState, PlanFresh, HandleExisting, Install,
       Resume, Project, CreateReceipt, Reread, Arbitrate, Release, ReleaseFails, ArbitrateOutside, Wipe, files
  <2> QED
    BY <2>1, <2>2
<1>4. CASE RepairLock \/ LocalClean \/ LocalWipe \/ WorldChanges
  BY <1>4 DEF RepairLock, LocalClean, Cleanup, LocalWipe, WorldChanges, files
<1>5. CASE UNCHANGED vars
  BY <1>5 DEF vars
<1> QED
  BY <1>1, <1>2, <1>3, <1>4, <1>5 DEF Next, Step

(* The state document is the newest entry of the log.                         *)
LEMMA LogStep ==
    TypeOK /\ PlansAreFresh /\ StateIsNewestCommit /\ [Next]_vars => StateIsNewestCommit'
<1> SUFFICES ASSUME TypeOK, PlansAreFresh, StateIsNewestCommit, [Next]_vars
             PROVE  StateIsNewestCommit'
  OBVIOUS
<1>1. ASSUME NEW c \in Clients, ReplaceState(c), Commit(c) PROVE StateIsNewestCommit'
  <2>1. seen[c] = state /\ PlanOf(c) \in Transition
    BY <1>1, PlanTyped DEF ReplaceState, PlansAreFresh, IsFresh, Planned
  <2>2. log \in Seq(Transition)
    BY DEF TypeOK
  <2>3. /\ Len(log') = Len(log) + 1
        /\ log'[Len(log')] = PlanOf(c)
        /\ log' # <<>>
    BY <1>1, <2>1, <2>2 DEF Commit
  <2>4. state'.revision = state.revision + 1 /\ state'.last = PlanOf(c)
    BY <1>1, <2>1 DEF Commit, FinalOf, Committed
  <2> QED
    BY <2>3, <2>4 DEF StateIsNewestCommit
<1>2. ASSUME UNCHANGED <<state, log>> PROVE StateIsNewestCommit'
  BY <1>2 DEF StateIsNewestCommit
<1>3. ASSUME NEW c \in Clients, Start(c) \/ Step(c) \/ Crash(c) PROVE StateIsNewestCommit'
  <2>1. CASE ReplaceState(c)
    BY <1>1, <1>2, <2>1 DEF ReplaceState
  <2> QED
    BY <1>2, <1>3, <2>1, OnlyReplaceWrites
<1> QED
  BY <1>2, <1>3, OthersOnlyRead DEF Next, vars

(* Crash arbitration always recognises what it finds.                         *)
LEMMA DecidesStep ==
    TypeOK /\ PlansAreFresh /\ WritesAreKnown /\ BuffersAreLive /\ ArbitrationDecides /\ [Next]_vars
    => ArbitrationDecides'
<1> SUFFICES ASSUME TypeOK, PlansAreFresh, WritesAreKnown, BuffersAreLive, ArbitrationDecides, [Next]_vars
             PROVE  ArbitrationDecides'
  OBVIOUS
<1>1. BuffersAreLive'
  BY BuffersStep
<1>2. ASSUME NEW d \in Clients
      PROVE  outcome'[d] \notin {"reconcile", "future-receipt"} /\ reply'[d] # "reconcile"
  <2>1. outcome[d] \notin {"reconcile", "future-receipt"} /\ reply[d] # "reconcile"
    BY DEF ArbitrationDecides
  <2>2. ASSUME NEW c \in Clients, c # d, Start(c) \/ Step(c) \/ Crash(c)
        PROVE  outcome'[d] = outcome[d] /\ reply'[d] = reply[d]
    BY <2>2, Bystander
  <2>3. CASE RepairLock \/ LocalClean \/ LocalWipe \/ WorldChanges \/ UNCHANGED vars
    BY <2>1, <2>3, OthersOnlyRead DEF locals, vars
  <2>4. ASSUME Start(d) \/ Step(d) \/ Crash(d)
        PROVE  outcome'[d] \notin {"reconcile", "future-receipt"} /\ reply'[d] # "reconcile"
    <3> USE DEF TypeOK, Goto, Complete, files, locals
    <3>1. CASE Start(d) \/ Acquire(d) \/ AcquireFails(d) \/ Crash(d) \/ Wipe(d)
      BY <2>1, <3>1 DEF Start, Acquire, AcquireFails, Crash, Wipe, Return
    <3>2. CASE ReadState(d) \/ PlanFresh(d)
      BY <2>1, <3>2 DEF ReadState, PlanFresh, DigestVerdict
    <3>3. CASE HandleExisting(d)
      <4>1. seen[d] = state /\ call[d].intent \in Intents
        BY <3>3 DEF HandleExisting, PlansAreFresh, IsFresh, Call
      <4>2. ~(receipts[call[d].intent].prior > seen[d].revision)
        <5>1. receipts[call[d].intent].prior \in Nat /\ seen[d].revision \in Nat
          BY <3>3, <4>1 DEF HandleExisting, Transition, TaskState, Revisions
        <5> QED
          BY <3>3, <4>1, <5>1 DEF HandleExisting, BuffersAreLive
      <4> QED
        BY <2>1, <3>3, <4>2 DEF HandleExisting, DigestVerdict
    <3>4. CASE Install(d) \/ Resume(d) \/ Project(d) \/ CreateReceipt(d) \/ ReplaceState(d)
      BY <2>1, <3>4 DEF Install, Resume, Project, CreateReceipt, ReplaceState
    <3>5. CASE Reread(d) \/ Clean(d) \/ Arbitrate(d)
      <4>1. pc[d] = "arbitrate" => state \in {seen[d], FinalOf(d)}
        BY DEF WritesAreKnown, WriteKnown
      <4> QED
        BY <2>1, <3>5, <4>1 DEF Reread, Clean, Arbitrate, Verdict
    <3>6. CASE Release(d) \/ ReleaseFails(d) \/ CleanOutside(d)
      BY <2>1, <3>6 DEF Release, ReleaseFails, CleanOutside, Return
    <3>7. CASE ArbitrateOutside(d)
      <4>1. state \in {seen[d], FinalOf(d)}
        BY <3>7 DEF ArbitrateOutside, WritesAreKnown, WriteKnown
      <4> QED
        BY <2>1, <3>7, <4>1 DEF ArbitrateOutside, Return, Verdict
    <3> QED
      BY <2>4, <3>1, <3>2, <3>3, <3>4, <3>5, <3>6, <3>7 DEF Step
  <2> QED
    BY <2>1, <2>2, <2>3, <2>4 DEF Next
<1> QED
  BY <1>1, <1>2 DEF ArbitrationDecides, BuffersAreLive

-----------------------------------------------------------------------------

(* Where the induction starts.                                                *)
LEMMA InitInv == Init => KernelInv
<1> SUFFICES ASSUME Init PROVE KernelInv
  OBVIOUS
<1>1. TypeOK
  <2>1. 0 \in Worlds /\ 0 \in 0 .. MaxCleans /\ <<>> \in Seq(Transition)
    BY BoundAssumption DEF Worlds
  <2> QED
    BY <2>1, NewTaskTyped DEF Init, TypeOK, Labels, Replies
<1>2. Headroom /\ BuffersAreLive /\ ArbitrationDecides
  BY DEF Init, Headroom, BuffersAreLive, ArbitrationDecides, Planned
<1>3. InsideHolds /\ PlansAreFresh /\ WritesAreKnown /\ WipesAreLate
  BY DEF Init, InsideHolds, PlansAreFresh, IsFresh, WritesAreKnown, WriteKnown, WipesAreLate,
     Inside, Locked, Unlocked, Planned
<1>4. ResultInstalled /\ ReceiptFiled /\ AuthorityInstalled
  BY DEF Init, ResultInstalled, HasResult, ReceiptFiled, HasFiled, AuthorityInstalled, NewTask
<1>5. StateIsNewestCommit
  BY DEF Init, StateIsNewestCommit, NewTask
<1> QED
  BY <1>1, <1>2, <1>3, <1>4, <1>5 DEF KernelInv

(* One step of the induction.                                                 *)
LEMMA KernelInvStep == KernelInv /\ [Next]_vars => KernelInv'
BY TypeStep, HeadroomStep, InsideStep, WipesStep, FreshStep, WritesStep, BuffersStep, FiledStep,
   ResultStep, InstalledStep, LogStep, DecidesStep DEF KernelInv

(* Every reachable state of the kernel satisfies the inductive invariant.     *)
THEOREM KernelInvariant == Spec => []KernelInv
BY InitInv, KernelInvStep, PTL DEF Spec

(* Every variable keeps its type; a revision never passes MaxRevision.        *)
THEOREM TypeCorrect == Spec => []TypeOK
<1>1. KernelInv => TypeOK
  BY DEF KernelInv
<1> QED
  BY <1>1, KernelInvariant, PTL

(* Whatever crashes, retries and failed releases happen, two calls are never  *)
(* between lock and last write together while the task is live.               *)
THEOREM LockExclusion == Spec => []LockExcludes
<1>1. KernelInv => LockExcludes
  BY DEF KernelInv, InsideHolds, LockExcludes
<1> QED
  BY <1>1, KernelInvariant, PTL

(* A call that will write still sees the state it read.                       *)
THEOREM NoUpdateIsLost == Spec => []NoLostUpdate
<1>1. KernelInv => NoLostUpdate
  BY DEF KernelInv, PlansAreFresh, IsFresh, NoLostUpdate
<1> QED
  BY <1>1, KernelInvariant, PTL

(* The durable state never names a result that is not installed.              *)
THEOREM AuthorityIsInstalled == Spec => []AuthorityInstalled
<1>1. KernelInv => AuthorityInstalled
  BY DEF KernelInv
<1> QED
  BY <1>1, KernelInvariant, PTL

(* A commit is durable as a whole or not at all.                              *)
THEOREM CommitIsAtomic == Spec => []StateIsNewestCommit
<1>1. KernelInv => StateIsNewestCommit
  BY DEF KernelInv
<1> QED
  BY <1>1, KernelInvariant, PTL

(* Arbitration of an interrupted call never finds a third document.           *)
THEOREM ArbitrationAlwaysDecides == Spec => []ArbitrationDecides
<1>1. KernelInv => ArbitrationDecides
  BY DEF KernelInv
<1> QED
  BY <1>1, KernelInvariant, PTL

(* A terminal task never commits again.                                       *)
THEOREM TerminalStays == Spec => TerminalIsFinal
<1>1. KernelInv /\ [Next]_vars => [state.terminal => state' = state]_vars
  <2> SUFFICES ASSUME KernelInv, Next, state.terminal PROVE state' = state
    BY DEF vars
  <2>1. ASSUME NEW c \in Clients, ReplaceState(c) PROVE FALSE
    BY <2>1 DEF KernelInv, PlansAreFresh, IsFresh, Planned, ReplaceState
  <2> QED
    BY <2>1, OnlyReplaceWrites, OthersOnlyRead DEF Next
<1> QED
  BY <1>1, KernelInvariant, PTL DEF Spec, TerminalIsFinal

(* An intent that left a receipt over the current revision commits exactly    *)
(* the request that receipt was prepared for.                                 *)
THEOREM BufferIsBinding == Spec => BufferBindsIntent
<1> DEFINE Bound == \A i \in Intents :
              RecoveryBuffer(receipts[i], state) /\ state' # state /\ state'.last.intent = i
              => state'.last = receipts[i]
<1>1. KernelInv /\ [Next]_vars => [Bound]_vars
  <2> SUFFICES ASSUME KernelInv, Next, NEW i \in Intents, state' # state, state'.last.intent = i
               PROVE  state'.last = receipts[i]
    BY DEF vars
  <2>1. PICK c \in Clients : ReplaceState(c) /\ Commit(c)
    BY OnlyReplaceWrites, OthersOnlyRead DEF Next, ReplaceState
  <2>2. state'.last = PlanOf(c) /\ PlanOf(c).intent = call[c].intent
    BY <2>1 DEF Commit, FinalOf, Committed, PlanOf
  <2>3. receipts[call[c].intent] = PlanOf(c)
    BY <2>1 DEF KernelInv, ReceiptFiled, HasFiled, ReplaceState
  <2> QED
    BY <2>2, <2>3
<1> QED
  BY <1>1, KernelInvariant, PTL DEF Spec, BufferBindsIntent

-----------------------------------------------------------------------------
(* The kernel implements the revision log.  Beside the inductive invariant,    *)
(* the mapping needs to know what an outcome says of the log.                  *)

Untouched == PlannedFailures \ {"ambiguous", "reconcile"}

(* The transition this call planned is in the log. *)
Appended(c) == seen[c].revision < Len(log) /\ log[seen[c].revision + 1] = PlanOf(c)

(* A call has an outcome from the release of its lock on: "ok" only if it      *)
(* committed, a plain failure only if the state did not move.                  *)
OutcomeFits(c) ==
    /\ pc[c] \notin {"release", "arbitrate-out", "clean-out", "wipe"} => outcome[c] = "none"
    /\ pc[c] = "release" => outcome[c] # "none"
    /\ pc[c] = "wipe" => outcome[c] \in {"ok", "replayed"}
    /\ pc[c] \in {"arbitrate-out", "clean-out"} => outcome[c] \in PlannedFailures
    /\ pc[c] \in {"release", "wipe"} /\ outcome[c] = "ok" => Appended(c)
    /\ pc[c] = "release" /\ outcome[c] \in Untouched => state = seen[c]

(* A call that plans was neither stale nor a retry of the last transition.     *)
Compared(c) ==
    pc[c] \in Planned \cup {"lookup"} =>
        /\ call[c].expected = seen[c].revision
        /\ seen[c].last # Nothing => seen[c].last.intent # call[c].intent

OutcomesFit == \A c \in Clients : OutcomeFits(c)
AllCompared == \A c \in Clients : Compared(c)

AnswerInv == KernelInv /\ OutcomesFit /\ AllCompared

(* The log only grows.                                                        *)
LEMMA LogGrows ==
    ASSUME TypeOK, [Next]_vars
    PROVE  Len(log) <= Len(log') /\ \A n \in 1 .. Len(log) : log'[n] = log[n]
<1>1. ASSUME NEW c \in Clients, Commit(c)
      PROVE  Len(log) <= Len(log') /\ \A n \in 1 .. Len(log) : log'[n] = log[n]
  <2>1. PlanOf(c) \in Transition /\ log \in Seq(Transition) /\ log' = Append(log, PlanOf(c))
    BY <1>1, PlanTyped DEF Commit, TypeOK
  <2> QED
    BY <2>1
<1>2. CASE log' = log
  BY <1>2 DEF TypeOK
<1>3. ASSUME NEW c \in Clients, ReplaceState(c)
      PROVE  Commit(c) \/ log' = log
  BY <1>3 DEF ReplaceState
<1> QED
  BY <1>1, <1>2, <1>3, OnlyReplaceWrites, OthersOnlyRead DEF Next, vars

LEMMA AppendedStays ==
    ASSUME TypeOK, [Next]_vars, NEW c \in Clients, Appended(c),
           UNCHANGED <<call[c], seen[c]>>
    PROVE  Appended(c)'
<1>1. PlanOf(c)' = PlanOf(c)
  BY DEF PlanOf
<1>2. seen[c].revision \in Nat /\ Len(log) \in Nat
  BY DEF TypeOK, TaskState, Revisions
<1>3. seen[c].revision + 1 \in 1 .. Len(log)
  BY <1>2 DEF Appended
<1>4. Len(log') \in Nat
  <2>1. log' \in Seq(Transition) \/ log' = log \/ \E d \in Clients : log' = Append(log, PlanOf(d))
    BY OnlyReplaceWrites, OthersOnlyRead DEF Next, vars, ReplaceState, Commit
  <2> QED
    BY <2>1, PlanTyped DEF TypeOK
<1> QED
  BY <1>1, <1>2, <1>3, <1>4, LogGrows DEF Appended

(* A call's own document at the head of the state is its transition at the    *)
(* head of the log; while the state is the one it read, its transition is not  *)
(* in the log.                                                                *)
LEMMA OwnIsAppended ==
    ASSUME TypeOK, StateIsNewestCommit, NEW c \in Clients, state = FinalOf(c)
    PROVE  Appended(c)
<1>1. state.revision = seen[c].revision + 1 /\ state.last = PlanOf(c)
  BY DEF FinalOf, Committed
<1>2. seen[c].revision \in Nat /\ Len(log) = seen[c].revision + 1
  BY <1>1 DEF StateIsNewestCommit, TypeOK, TaskState, Revisions
<1>3. log # <<>>
  BY <1>2
<1> QED
  BY <1>1, <1>2, <1>3 DEF StateIsNewestCommit, Appended

LEMMA UnmovedIsNotAppended ==
    ASSUME TypeOK, StateIsNewestCommit, NEW c \in Clients, state = seen[c]
    PROVE  ~Appended(c)
BY DEF StateIsNewestCommit, Appended, TypeOK, TaskState, Revisions

LEMMA OutcomesStep == KernelInv /\ OutcomesFit /\ [Next]_vars => OutcomesFit'
<1> SUFFICES ASSUME KernelInv, OutcomesFit, [Next]_vars, NEW d \in Clients
             PROVE  OutcomeFits(d)'
  BY DEF OutcomesFit
<1> USE DEF KernelInv
<1>1. OutcomeFits(d)
  BY DEF OutcomesFit
<1>2. ASSUME UNCHANGED <<pc[d], call[d], seen[d], outcome[d]>>,
             pc[d] = "release" => state' = state
      PROVE  OutcomeFits(d)'
  <2>1. Appended(d) => Appended(d)'
    BY <1>2, AppendedStays
  <2> QED
    BY <1>1, <1>2, <2>1 DEF OutcomeFits
<1>3. ASSUME NEW c \in Clients, Start(c) \/ Step(c) \/ Crash(c), c # d
      PROVE  OutcomeFits(d)'
  <2>1. UNCHANGED <<pc[d], call[d], seen[d], outcome[d]>>
    BY <1>3, Bystander
  <2>2. pc[d] = "release" => state' = state
    BY <1>3, WriterIsAlone, OnlyReplaceWrites DEF Inside, Locked
  <2> QED
    BY <1>2, <2>1, <2>2
<1>4. CASE RepairLock \/ LocalClean \/ LocalWipe \/ WorldChanges \/ UNCHANGED vars
  BY <1>2, <1>4, OthersOnlyRead DEF locals, vars
<1>5. ASSUME Start(d) \/ Step(d) \/ Crash(d) PROVE OutcomeFits(d)'
  <2> USE DEF OutcomeFits, TypeOK, Goto, Complete
  <2>1. CASE Start(d) \/ Acquire(d) \/ AcquireFails(d) \/ Crash(d)
    BY <1>1, <2>1 DEF Start, Acquire, AcquireFails, Crash, Return
  <2>2. CASE ReadState(d)
    BY <1>1, <2>2 DEF ReadState, DigestVerdict, Refusals, PlannedFailures, Untouched
  <2>3. CASE PlanFresh(d) \/ HandleExisting(d)
    <3>1. /\ pc'[d] \notin {"arbitrate-out", "clean-out", "wipe"}
          /\ pc'[d] # "release" => outcome'[d] = "none"
          /\ pc'[d] = "release" => outcome'[d] \in Refusals
      BY <1>1, <2>3 DEF PlanFresh, HandleExisting, DigestVerdict, Refusals
    <3> QED
      BY <3>1 DEF Refusals, PlannedFailures, Untouched
  <2>4. CASE Install(d) \/ Resume(d) \/ Project(d) \/ CreateReceipt(d) \/ ReplaceState(d)
    <3>1. /\ pc'[d] \notin {"arbitrate-out", "clean-out", "wipe"}
          /\ pc'[d] # "release" => outcome'[d] = "none"
          /\ pc'[d] = "release" => /\ outcome'[d] \in Untouched
                                   /\ UNCHANGED <<state, seen>>
      BY <1>1, <2>4 DEF Install, Resume, Project, CreateReceipt, ReplaceState, files,
                        Untouched, PlannedFailures
    <3>2. pc[d] \in Planned
      BY <2>4 DEF Install, Resume, Project, CreateReceipt, ReplaceState, Planned
    <3>3. pc'[d] = "release" => state' = seen'[d]
      BY <3>1, <3>2 DEF PlansAreFresh, IsFresh
    <3> QED
      BY <3>1, <3>3 DEF Untouched, PlannedFailures
  <2>5. CASE Reread(d)
    BY <1>1, <2>5 DEF Reread, Untouched, PlannedFailures
  <2>6. CASE Clean(d)
    <3>1. Appended(d)
      BY <2>6, OwnIsAppended DEF Clean, WritesAreKnown, WriteKnown
    <3>2. UNCHANGED <<call, seen>> /\ pc'[d] = "release" /\ outcome'[d] = "ok"
      BY <2>6 DEF Clean
    <3>3. Appended(d)'
      BY <3>1, <3>2, AppendedStays
    <3> QED
      BY <3>2, <3>3 DEF Untouched, PlannedFailures
  <2>7. CASE Arbitrate(d)
    BY <1>1, <2>7 DEF Arbitrate, Verdict, files, Untouched, PlannedFailures
  <2>8. CASE Release(d)
    <3>1. CASE Finished(d)
      <4>1. UNCHANGED <<call, seen, outcome>> /\ pc'[d] = "wipe" /\ pc[d] = "release"
        BY <2>8, <3>1 DEF Release
      <4> QED
        BY <1>1, <3>1, <4>1, AppendedStays DEF Finished
    <3>2. CASE ~Finished(d)
      BY <2>8, <3>2 DEF Release, Return
    <3> QED
      BY <3>1, <3>2
  <2>9. CASE ReleaseFails(d)
    <3>1. CASE pc'[d] = "wipe"
      <4>1. UNCHANGED <<call, seen, outcome>> /\ Finished(d) /\ pc[d] = "release"
        BY <2>9, <3>1 DEF ReleaseFails, Return
      <4> QED
        BY <1>1, <3>1, <4>1, AppendedStays DEF Finished
    <3>2. CASE pc'[d] # "wipe"
      BY <2>9, <3>2 DEF ReleaseFails, Return
    <3> QED
      BY <3>1, <3>2
  <2>10. CASE ArbitrateOutside(d) \/ CleanOutside(d) \/ Wipe(d)
    BY <1>1, <2>10 DEF ArbitrateOutside, CleanOutside, Wipe, Return
  <2> QED
    BY <1>5, <2>1, <2>2, <2>3, <2>4, <2>5, <2>6, <2>7, <2>8, <2>9, <2>10 DEF Step
<1> QED
  BY <1>3, <1>4, <1>5 DEF Next

LEMMA ComparedStep == KernelInv /\ AllCompared /\ [Next]_vars => AllCompared'
<1> SUFFICES ASSUME KernelInv, AllCompared, [Next]_vars, NEW d \in Clients
             PROVE  Compared(d)'
  BY DEF AllCompared
<1> USE DEF KernelInv
<1>1. Compared(d)
  BY DEF AllCompared
<1>2. ASSUME NEW c \in Clients, Start(c) \/ Step(c) \/ Crash(c), c # d
      PROVE  Compared(d)'
  BY <1>1, <1>2, Bystander DEF Compared
<1>3. CASE RepairLock \/ LocalClean \/ LocalWipe \/ WorldChanges \/ UNCHANGED vars
  BY <1>1, <1>3, OthersOnlyRead DEF locals, vars, Compared
<1>4. ASSUME Start(d) \/ Step(d) \/ Crash(d) PROVE Compared(d)'
  <2> USE DEF Compared, Planned, TypeOK, Goto, Complete
  <2>1. CASE Start(d) \/ Acquire(d) \/ AcquireFails(d) \/ Crash(d) \/ Wipe(d)
    BY <2>1 DEF Start, Acquire, AcquireFails, Crash, Wipe, Return
  <2>2. CASE ReadState(d)
    BY <2>2 DEF ReadState, Claims
  <2>3. CASE PlanFresh(d) \/ HandleExisting(d) \/ Install(d) \/ Resume(d) \/ Project(d) \/ CreateReceipt(d)
    BY <1>1, <2>3 DEF PlanFresh, HandleExisting, Install, Resume, Project, CreateReceipt
  <2>4. CASE ReplaceState(d) \/ Reread(d) \/ Clean(d) \/ Arbitrate(d)
    BY <2>4 DEF ReplaceState, Reread, Clean, Arbitrate
  <2>5. CASE Release(d) \/ ReleaseFails(d) \/ ArbitrateOutside(d) \/ CleanOutside(d)
    BY <2>5 DEF Release, ReleaseFails, ArbitrateOutside, CleanOutside, Return
  <2> QED
    BY <1>4, <2>1, <2>2, <2>3, <2>4, <2>5 DEF Step
<1> QED
  BY <1>2, <1>3, <1>4 DEF Next

LEMMA AnswerInvStep == AnswerInv /\ [Next]_vars => AnswerInv'
BY KernelInvStep, OutcomesStep, ComparedStep DEF AnswerInv

LEMMA InitAnswer == Init => AnswerInv
<1>1. Init => OutcomesFit /\ AllCompared
  BY DEF Init, OutcomesFit, OutcomeFits, AllCompared, Compared, Planned
<1> QED
  BY <1>1, InitInv DEF AnswerInv

-----------------------------------------------------------------------------
(* What a step of the kernel is to the log, action by action.                 *)

FateMap == [c \in Clients |-> FateOf(c)]

(* A call at work that was not answered from the log is pending until its      *)
(* transition is in the log.                                                  *)
LEMMA AtWork ==
    ASSUME NEW c \in Clients, pc[c] \notin {"idle", "crashed", "done"}, outcome[c] # "replayed"
    PROVE  /\ HasCommitted(c) => FateOf(c) = "committed"
           /\ ~HasCommitted(c) => FateOf(c) = "pending"
BY DEF FateOf

LEMMA AtWorkNext ==
    ASSUME NEW c \in Clients, pc'[c] \notin {"idle", "crashed", "done"}, outcome'[c] # "replayed"
    PROVE  /\ HasCommitted(c)' => FateOf(c)' = "committed"
           /\ ~HasCommitted(c)' => FateOf(c)' = "pending"
BY DEF FateOf

(* Before the write nothing is in the log. *)
LEMMA EarlyIsPending ==
    ASSUME OutcomesFit, NEW c \in Clients, pc[c] \in Planned \cup {"acquire", "read", "lookup"}
    PROVE  FateOf(c) = "pending"
BY DEF OutcomesFit, OutcomeFits, FateOf, HasCommitted, Planned

LEMMA EarlyIsPendingNext ==
    ASSUME OutcomesFit', NEW c \in Clients, pc'[c] \in Planned \cup {"acquire", "read", "lookup"}
    PROVE  FateOf(c)' = "pending"
BY DEF OutcomesFit, OutcomeFits, FateOf, HasCommitted, Planned

(* A client's step leaves every other client's fate alone: while it commits,   *)
(* no other call is between its own write and its answer.                     *)
LEMMA FateOthers ==
    ASSUME KernelInv, NEW c \in Clients, Start(c) \/ Step(c) \/ Crash(c), NEW d \in Clients, d # c
    PROVE  FateOf(d)' = FateOf(d)
<1> USE DEF KernelInv
<1>1. /\ pc'[d] = pc[d] /\ call'[d] = call[d] /\ seen'[d] = seen[d]
      /\ outcome'[d] = outcome[d] /\ reply'[d] = reply[d] /\ PlanOf(d)' = PlanOf(d)
  BY Bystander
<1>2. CASE ReplaceState(c)
  <2>1. ~Inside(d) /\ pc[d] # "wipe"
    BY <1>2, WriterIsAlone DEF ReplaceState, WipesAreLate, PlansAreFresh, IsFresh, Planned
  <2>2. ~HasCommitted(d) /\ ~HasCommitted(d)'
    BY <1>1, <2>1 DEF HasCommitted, Inside, Locked, Unlocked
  <2> QED
    BY <1>1, <2>2 DEF FateOf
<1>3. CASE ~ReplaceState(c)
  <2>1. log' = log
    BY <1>3, OnlyReplaceWrites
  <2>2. HasCommitted(d)' <=> HasCommitted(d)
    BY <1>1, <2>1 DEF HasCommitted
  <2> QED
    BY <1>1, <2>2 DEF FateOf
<1> QED
  BY <1>2, <1>3

LEMMA FateUpdate ==
    ASSUME NEW c \in Clients, \A d \in Clients : d # c => FateOf(d)' = FateOf(d), NEW f, FateOf(c)' = f
    PROVE  FateMap' = [FateMap EXCEPT ![c] = f]
BY DEF FateMap

LEMMA FateStutter ==
    ASSUME \A d \in Clients : FateOf(d)' = FateOf(d)
    PROVE  FateMap' = FateMap
BY DEF FateMap

LEMMA Fated == \A c \in Clients : FateMap[c] = FateOf(c)
BY DEF FateMap

LEMMA StartMaps ==
    ASSUME AnswerInv, AnswerInv', NEW c \in Clients, Start(c)
    PROVE  Promise!Begin(c)
<1> USE DEF AnswerInv, KernelInv
<1>1. FateOf(c) \in {"idle", "ok", "refused", "unknown"}
  BY DEF Start, FateOf
<1>2. FateOf(c)' = "pending"
  BY EarlyIsPendingNext DEF Start, Goto, TypeOK
<1>3. FateMap' = [FateMap EXCEPT ![c] = "pending"]
  BY <1>2, FateOthers, FateUpdate
<1>4. \E k \in Call : call' = [call EXCEPT ![c] = k]
  <2>1. PICK i \in Intents, r \in Requests, w \in 0 .. world, e \in 0 .. state.revision :
          call' = [call EXCEPT ![c] = [intent |-> i, request |-> r, world |-> w, expected |-> e]]
    BY DEF Start
  <2>2. w \in Worlds /\ e \in Revisions
    BY BoundAssumption DEF TypeOK, Worlds, TaskState, Revisions
  <2> QED
    BY <2>1, <2>2 DEF Call
<1>5. log' = log
  BY DEF Start
<1> QED
  BY <1>1, <1>3, <1>4, <1>5, Fated DEF Promise!Begin, FateMap

(* The steps that only change fate, or nothing of the log's.                  *)
LEMMA RefuseMaps ==
    ASSUME KernelInv, NEW c \in Clients, Start(c) \/ Step(c) \/ Crash(c), UNCHANGED <<log, call>>,
           FateOf(c) = "pending", FateOf(c)' = "refused"
    PROVE  Promise!Refuse(c)
BY FateOthers, FateUpdate, Fated DEF Promise!Refuse, FateMap

LEMMA LoseMaps ==
    ASSUME KernelInv, NEW c \in Clients, Start(c) \/ Step(c) \/ Crash(c), UNCHANGED <<log, call>>,
           FateOf(c) \in {"pending", "committed", "ok"}, FateOf(c)' = "unknown"
    PROVE  Promise!Lose(c)
BY FateOthers, FateUpdate, Fated DEF Promise!Lose, FateMap

LEMMA ConfirmMaps ==
    ASSUME KernelInv, NEW c \in Clients, Start(c) \/ Step(c) \/ Crash(c), UNCHANGED <<log, call>>,
           FateOf(c) = "committed", FateOf(c)' = "ok"
    PROVE  Promise!Confirm(c)
BY FateOthers, FateUpdate, Fated DEF Promise!Confirm, FateMap

LEMMA StutterMaps ==
    ASSUME KernelInv, NEW c \in Clients, Start(c) \/ Step(c) \/ Crash(c), UNCHANGED <<log, call>>,
           FateOf(c)' = FateOf(c)
    PROVE  UNCHANGED <<log, call, FateMap>>
BY FateOthers, FateStutter

(* A call that did not write and ends with a plain failure is still pending.   *)
LEMMA FailureIsPending ==
    ASSUME KernelInv', NEW c \in Clients, pc'[c] = "release", outcome'[c] # "replayed",
           outcome'[c] \in Refusals \/ state' = seen'[c]
    PROVE  FateOf(c)' = "pending"
<1>1. ~HasCommitted(c)'
  <2>1. CASE outcome'[c] \in Refusals
    BY <2>1 DEF HasCommitted
  <2>2. CASE state' = seen'[c]
    BY <2>2 DEF HasCommitted, KernelInv, StateIsNewestCommit, TypeOK, TaskState, Revisions
  <2> QED
    BY <2>1, <2>2
<1> QED
  BY <1>1, AtWorkNext

LEMMA EarlyMaps ==
    ASSUME AnswerInv, AnswerInv', NEW c \in Clients,
           \/ Acquire(c) \/ PlanFresh(c) \/ HandleExisting(c)
           \/ Install(c) \/ Resume(c) \/ Project(c) \/ CreateReceipt(c)
    PROVE  UNCHANGED <<log, call, FateMap>>
<1> USE DEF AnswerInv, KernelInv
<1>1. Step(c)
  BY DEF Step
<1>2. UNCHANGED <<log, call, seen, state>>
  BY DEF Acquire, PlanFresh, HandleExisting, Install, Resume, Project, CreateReceipt, files
<1>3. FateOf(c) = "pending"
  BY EarlyIsPending DEF Acquire, PlanFresh, HandleExisting, Install, Resume, Project,
     CreateReceipt, Planned
<1>4. FateOf(c)' = "pending"
  <2>1. \/ pc'[c] \in Planned \cup {"read", "lookup"}
        \/ pc'[c] = "arbitrate"
        \/ pc'[c] = "release" /\ outcome'[c] \in Refusals \cup PlannedFailures
    BY DEF Acquire, PlanFresh, HandleExisting, Install, Resume, Project, CreateReceipt, Goto, Complete,
       DigestVerdict, Planned, TypeOK, Refusals, PlannedFailures
  <2>2. CASE pc'[c] \in Planned \cup {"read", "lookup"}
    BY <2>2, EarlyIsPendingNext
  <2>3. pc[c] \in Planned \cup {"lookup"} => seen'[c] = state'
    BY <1>2 DEF PlansAreFresh, IsFresh
  <2>4. pc'[c] # "read" => pc[c] \in Planned \cup {"lookup"}
    BY DEF Acquire, PlanFresh, HandleExisting, Install, Resume, Project, CreateReceipt, Goto,
       Planned, TypeOK
  <2>5. CASE pc'[c] = "arbitrate"
    <3>1. ~HasCommitted(c)'
      BY <2>3, <2>4, <2>5 DEF HasCommitted, StateIsNewestCommit, TypeOK, TaskState, Revisions
    <3>2. outcome'[c] = "none"
      BY <2>5 DEF OutcomesFit, OutcomeFits
    <3> QED
      BY <2>5, <3>1, <3>2, AtWorkNext
  <2>6. CASE pc'[c] = "release" /\ outcome'[c] \in Refusals \cup PlannedFailures
    BY <2>3, <2>4, <2>6, FailureIsPending DEF Refusals, PlannedFailures
  <2> QED
    BY <2>1, <2>2, <2>5, <2>6
<1> QED
  BY <1>1, <1>2, <1>3, <1>4, StutterMaps

LEMMA ReadMaps ==
    ASSUME AnswerInv, AnswerInv', NEW c \in Clients, ReadState(c)
    PROVE  Promise!Replay(c) \/ UNCHANGED <<log, call, FateMap>>
<1> USE DEF AnswerInv, KernelInv
<1>1. Step(c) /\ UNCHANGED <<log, call, state>> /\ pc[c] = "read"
  BY DEF Step, ReadState, files
<1>2. FateOf(c) = "pending"
  BY <1>1, EarlyIsPending
<1>3. CASE outcome'[c] = "replayed"
  <2>1. /\ state.last # Nothing /\ state.last.intent = call[c].intent
        /\ DigestVerdict(call[c], state.last, "replayed") = "replayed"
        /\ pc'[c] = "release"
    BY <1>3 DEF ReadState, Claims, Complete, Goto, TypeOK, OutcomesFit, OutcomeFits
  <2>2. SameRequest(call[c], state.last)
    BY <2>1 DEF DigestVerdict, SameRequest
  <2>3. Len(log) > 0 /\ log[Len(log)] = state.last
    BY <2>1 DEF StateIsNewestCommit, TypeOK
  <2>4. FateOf(c)' = "ok"
    BY <1>3, <2>1 DEF FateOf
  <2>5. FateMap' = [FateMap EXCEPT ![c] = "ok"]
    BY <1>1, <2>4, FateOthers, FateUpdate
  <2> QED
    BY <1>1, <1>2, <2>1, <2>2, <2>3, <2>5, Fated
    DEF Promise!Replay, Promise!Answers, Promise!Newest, FateMap, SameRequest
<1>4. CASE outcome'[c] # "replayed"
  <2>1. \/ pc'[c] = "lookup"
        \/ pc'[c] = "release" /\ outcome'[c] \in Refusals
    BY <1>4 DEF ReadState, DigestVerdict, Complete, Goto, TypeOK, Refusals
  <2>2. FateOf(c)' = "pending"
    BY <1>4, <2>1, EarlyIsPendingNext, FailureIsPending
  <2> QED
    BY <1>1, <1>2, <2>2, StutterMaps
<1> QED
  BY <1>3, <1>4

LEMMA ReplaceMaps ==
    ASSUME AnswerInv, AnswerInv', NEW c \in Clients, ReplaceState(c)
    PROVE  Promise!Commit(c) \/ UNCHANGED <<log, call, FateMap>>
<1> USE DEF AnswerInv, KernelInv
<1>1. Step(c) /\ pc[c] = "replace" /\ UNCHANGED <<call, seen>>
  BY DEF Step, ReplaceState
<1>2. FateOf(c) = "pending" /\ seen[c] = state
  BY <1>1, EarlyIsPending DEF PlansAreFresh, IsFresh, Planned
<1>3. CASE Commit(c)
  <2>1. /\ call[c].expected = Len(log)
        /\ Len(log) > 0 => log[Len(log)].intent # call[c].intent
    BY <1>1, <1>2, NothingAssumption
    DEF AllCompared, Compared, Planned, StateIsNewestCommit, TypeOK
  <2>2. PlanOf(c) = [intent |-> call[c].intent, request |-> call[c].request,
                     world |-> call[c].world, prior |-> Len(log)]
    BY <1>2 DEF PlanOf, StateIsNewestCommit
  <2>3. pc'[c] \in {"reread", "arbitrate"} /\ outcome'[c] = "none"
    <3>1. pc'[c] \in {"reread", "arbitrate", "release"} /\ (pc'[c] = "release" => UNCHANGED <<state, log>>)
      BY DEF ReplaceState, Goto, Complete, TypeOK
    <3>2. log' # log
      <4>1. log \in Seq(Transition) /\ PlanOf(c) \in Transition
        BY PlanTyped DEF TypeOK
      <4> QED
        BY <1>3, <4>1 DEF Commit
    <3> QED
      BY <3>1, <3>2 DEF OutcomesFit, OutcomeFits
  <2>4. Appended(c)'
    <3>1. log \in Seq(Transition) /\ PlanOf(c) \in Transition
      BY PlanTyped DEF TypeOK
    <3>2. seen[c].revision = Len(log) /\ PlanOf(c)' = PlanOf(c)
      BY <1>1, <1>2 DEF StateIsNewestCommit, PlanOf
    <3> QED
      BY <1>1, <1>3, <3>1, <3>2 DEF Commit, Appended
  <2>5. FateOf(c)' = "committed"
    <3>1. HasCommitted(c)'
      BY <2>3, <2>4 DEF HasCommitted, Appended, Refusals
    <3> QED
      BY <2>3, <3>1, AtWorkNext
  <2>6. FateMap' = [FateMap EXCEPT ![c] = "committed"]
    BY <1>1, <2>5, FateOthers, FateUpdate
  <2> QED
    BY <1>1, <1>2, <1>3, <2>1, <2>2, <2>6, Fated DEF Promise!Commit, Promise!Newest, FateMap, Commit
<1>4. CASE UNCHANGED <<state, log>>
  <2>1. \/ pc'[c] \in {"arbitrate", "release"} /\ (pc'[c] = "release" => outcome'[c] = "io")
        \/ Commit(c)
    BY DEF ReplaceState, Goto, Complete, TypeOK
  <2>2. CASE pc'[c] \in {"arbitrate", "release"} /\ (pc'[c] = "release" => outcome'[c] = "io")
    <3>1. ~HasCommitted(c)'
      BY <1>1, <1>2, <1>4 DEF HasCommitted, StateIsNewestCommit, TypeOK, TaskState, Revisions
    <3>2. outcome'[c] # "replayed"
      BY <2>2 DEF OutcomesFit, OutcomeFits
    <3>3. FateOf(c)' = "pending"
      BY <2>2, <3>1, <3>2, AtWorkNext
    <3> QED
      BY <1>1, <1>2, <1>4, <3>3, StutterMaps
  <2> QED
    BY <1>3, <2>1, <2>2
<1> QED
  BY <1>3, <1>4 DEF ReplaceState

LEMMA SettleMaps ==
    ASSUME AnswerInv, AnswerInv', NEW c \in Clients, Reread(c) \/ Clean(c) \/ Arbitrate(c)
    PROVE  UNCHANGED <<log, call, FateMap>>
<1> USE DEF AnswerInv, KernelInv
<1>1. Step(c) /\ UNCHANGED <<log, call, seen>>
  BY DEF Step, Reread, Clean, Arbitrate
<1>2. /\ pc[c] \in {"reread", "clean", "arbitrate"} /\ outcome[c] = "none"
      /\ pc'[c] \in {"clean", "release"}
      /\ outcome'[c] \in {"none", "ok", "io", "ambiguous", "reconcile"}
  BY DEF Reread, Clean, Arbitrate, Verdict, Goto, Complete, TypeOK, OutcomesFit, OutcomeFits
<1>3. PlanOf(c)' = PlanOf(c)
  BY <1>1 DEF PlanOf
<1>4. HasCommitted(c)' <=> HasCommitted(c)
  BY <1>1, <1>2, <1>3 DEF HasCommitted, Refusals
<1>5. FateOf(c)' = FateOf(c)
  BY <1>2, <1>4 DEF FateOf
<1> QED
  BY <1>1, <1>5, StutterMaps

(* What the caller is told decides the fate of a call that is over. *)
LEMMA Told ==
    ASSUME NEW c \in Clients, pc'[c] = "done"
    PROVE  /\ reply'[c] \in {"ok", "replayed"} => FateOf(c)' = "ok"
           /\ reply'[c] \in {"ambiguous", "reconcile"} => FateOf(c)' = "unknown"
           /\ reply'[c] \notin {"ok", "replayed", "ambiguous", "reconcile"} => FateOf(c)' = "refused"
BY DEF FateOf

(* The answer to a call that leaves its locked section with outcome o.         *)
LEMMA AnswerMaps ==
    ASSUME AnswerInv, NEW c \in Clients, Step(c), UNCHANGED <<log, call>>,
           pc[c] \in {"release", "wipe"}, pc'[c] = "done", reply'[c] = outcome[c]
    PROVE  [Promise!Next]_<<log, call, FateMap>>
<1> USE DEF AnswerInv, KernelInv
<1>1. OutcomeFits(c)
  BY DEF OutcomesFit
<1>2. CASE outcome[c] = "replayed"
  <2>1. FateOf(c) = "ok" /\ FateOf(c)' = "ok"
    BY <1>2, Told DEF FateOf
  <2> QED
    BY <2>1, StutterMaps
<1>3. CASE outcome[c] = "ok"
  <2>1. HasCommitted(c)
    BY <1>1, <1>3 DEF OutcomeFits, HasCommitted, Appended, Refusals
  <2>2. FateOf(c) = "committed" /\ FateOf(c)' = "ok"
    BY <1>3, <2>1, Told, AtWork
  <2> QED
    BY <2>2, ConfirmMaps DEF Promise!Next
<1>4. CASE outcome[c] \in Refusals
  <2>1. ~HasCommitted(c) /\ outcome[c] \notin {"ok", "replayed", "ambiguous", "reconcile"}
    BY <1>4 DEF HasCommitted, Refusals
  <2>2. FateOf(c) = "pending" /\ FateOf(c)' = "refused"
    BY <2>1, Told, AtWork
  <2> QED
    BY <2>2, RefuseMaps DEF Promise!Next
<1>5. CASE outcome[c] \in Untouched
  <2>1. pc[c] = "release" /\ outcome[c] \notin {"ok", "replayed", "ambiguous", "reconcile"}
    BY <1>1, <1>5 DEF OutcomeFits, Untouched, PlannedFailures
  <2>2. ~HasCommitted(c)
    BY <1>1, <1>5, <2>1, UnmovedIsNotAppended DEF OutcomeFits, HasCommitted, Appended
  <2>3. FateOf(c) = "pending" /\ FateOf(c)' = "refused"
    BY <2>1, <2>2, Told, AtWork
  <2> QED
    BY <2>3, RefuseMaps DEF Promise!Next
<1>6. CASE outcome[c] \in {"ambiguous", "reconcile"}
  <2>1. FateOf(c) \in {"pending", "committed"} /\ FateOf(c)' = "unknown"
    BY <1>6, Told, AtWork
  <2> QED
    BY <2>1, LoseMaps DEF Promise!Next
<1> QED
  <2>1. outcome[c] \in Replies \ {"none"}
    BY <1>1 DEF OutcomeFits, TypeOK
  <2> QED
    BY <1>2, <1>3, <1>4, <1>5, <1>6, <2>1 DEF Replies, Untouched

(* Going on to the wipe or to the arbitration outside the lock answers nothing. *)
LEMMA OnwardMaps ==
    ASSUME AnswerInv, NEW c \in Clients, Step(c), UNCHANGED <<log, call, seen, outcome>>,
           \/ pc[c] = "release" /\ pc'[c] \in {"wipe", "arbitrate-out"}
           \/ pc[c] = "arbitrate-out" /\ pc'[c] = "clean-out"
    PROVE  UNCHANGED <<log, call, FateMap>>
<1>1. PlanOf(c)' = PlanOf(c)
  BY DEF PlanOf
<1>2. FateOf(c)' = FateOf(c)
  BY <1>1 DEF FateOf, HasCommitted
<1> QED
  BY <1>2, StutterMaps DEF AnswerInv

LEMMA ReleaseMaps ==
    ASSUME AnswerInv, NEW c \in Clients, Release(c) \/ Wipe(c)
    PROVE  [Promise!Next]_<<log, call, FateMap>>
<1> USE DEF AnswerInv, KernelInv
<1>1. Step(c) /\ UNCHANGED <<log, call>>
  BY DEF Step, Release, Wipe
<1>2. CASE Release(c) /\ Finished(c)
  BY <1>1, <1>2, OnwardMaps DEF Release, Goto, TypeOK
<1>3. CASE Wipe(c) \/ (Release(c) /\ ~Finished(c))
  <2>1. pc[c] \in {"release", "wipe"} /\ pc'[c] = "done" /\ reply'[c] = outcome[c]
    BY <1>3 DEF Release, Wipe, Return, Goto, TypeOK
  <2> QED
    BY <1>1, <2>1, AnswerMaps
<1> QED
  BY <1>2, <1>3

LEMMA ReleaseFailsMaps ==
    ASSUME AnswerInv, NEW c \in Clients, ReleaseFails(c)
    PROVE  [Promise!Next]_<<log, call, FateMap>>
<1> USE DEF AnswerInv, KernelInv
<1>1. Step(c) /\ UNCHANGED <<log, call>> /\ pc[c] = "release"
  BY DEF Step, ReleaseFails
<1>2. CASE outcome[c] \in {"ok", "replayed"} /\ pc'[c] = "done"
  <2>1. reply'[c] = outcome[c]
    BY <1>2 DEF ReleaseFails, Return, Goto, TypeOK, Refusals, PlannedFailures
  <2> QED
    BY <1>1, <1>2, <2>1, AnswerMaps
<1>3. CASE outcome[c] \in Refusals
  <2>1. pc'[c] = "done" /\ reply'[c] = "io"
    BY <1>3 DEF ReleaseFails, Return, Goto, TypeOK, Refusals, PlannedFailures, Finished
  <2>2. ~HasCommitted(c) /\ outcome[c] # "replayed"
    BY <1>3 DEF HasCommitted, Refusals
  <2>3. FateOf(c) = "pending" /\ FateOf(c)' = "refused"
    BY <1>1, <2>1, <2>2, Told, AtWork
  <2> QED
    BY <1>1, <2>3, RefuseMaps DEF Promise!Next
<1>4. CASE pc'[c] \in {"wipe", "arbitrate-out"}
  <2>1. UNCHANGED <<seen, outcome>>
    BY <1>4 DEF ReleaseFails, Return, Goto, TypeOK
  <2> QED
    BY <1>1, <1>4, <2>1, OnwardMaps
<1> QED
  BY <1>2, <1>3, <1>4 DEF ReleaseFails, Return, Goto, TypeOK

LEMMA OutsideMaps ==
    ASSUME AnswerInv, NEW c \in Clients, ArbitrateOutside(c) \/ CleanOutside(c)
    PROVE  [Promise!Next]_<<log, call, FateMap>>
<1> USE DEF AnswerInv, KernelInv
<1>1. Step(c) /\ UNCHANGED <<log, call>> /\ pc[c] \in {"arbitrate-out", "clean-out"}
  BY DEF Step, ArbitrateOutside, CleanOutside
<1>2. outcome[c] \in PlannedFailures /\ outcome[c] # "replayed"
  BY <1>1 DEF OutcomesFit, OutcomeFits, PlannedFailures
<1>3. CASE CleanOutside(c)
  <2>1. HasCommitted(c)
    <3>1. Appended(c) /\ pc[c] = "clean-out"
      BY <1>3, OwnIsAppended DEF CleanOutside, WritesAreKnown, WriteKnown
    <3> QED
      BY <1>2, <3>1 DEF HasCommitted, Appended, PlannedFailures, Refusals
  <2>2. pc'[c] = "done" /\ reply'[c] = "ok"
    BY <1>3 DEF CleanOutside, Return, Goto, TypeOK
  <2>3. FateOf(c) = "committed" /\ FateOf(c)' = "ok"
    BY <1>1, <1>2, <2>1, <2>2, Told, AtWork
  <2> QED
    BY <1>1, <2>3, ConfirmMaps DEF Promise!Next
<1>4. CASE ArbitrateOutside(c) /\ pc'[c] = "clean-out"
  <2>1. UNCHANGED <<seen, outcome>> /\ pc[c] = "arbitrate-out"
    BY <1>4 DEF ArbitrateOutside, Return, Goto, TypeOK
  <2> QED
    BY <1>1, <1>4, <2>1, OnwardMaps
<1>5. CASE ArbitrateOutside(c) /\ pc'[c] = "done" /\ reply'[c] \in {"ambiguous", "reconcile"}
  <2>1. FateOf(c) \in {"pending", "committed"} /\ FateOf(c)' = "unknown"
    BY <1>1, <1>2, <1>5, Told, AtWork
  <2> QED
    BY <1>1, <2>1, LoseMaps DEF Promise!Next
<1>6. CASE ArbitrateOutside(c) /\ pc'[c] = "done" /\ reply'[c] \notin {"ambiguous", "reconcile"}
  <2>1. state = seen[c] /\ reply'[c] = outcome[c]
    BY <1>6 DEF ArbitrateOutside, Return, Goto, Verdict, TypeOK
  <2>2. ~HasCommitted(c)
    BY <2>1, UnmovedIsNotAppended DEF HasCommitted, Appended
  <2>3. FateOf(c) = "pending" /\ FateOf(c)' = "refused"
    BY <1>1, <1>2, <1>6, <2>1, <2>2, Told, AtWork DEF PlannedFailures
  <2> QED
    BY <1>1, <2>3, RefuseMaps DEF Promise!Next
<1> QED
  BY <1>3, <1>4, <1>5, <1>6 DEF ArbitrateOutside, Return, Goto, TypeOK

LEMMA EndingMaps ==
    ASSUME AnswerInv, NEW c \in Clients, AcquireFails(c) \/ Crash(c)
    PROVE  [Promise!Next]_<<log, call, FateMap>>
<1> USE DEF AnswerInv, KernelInv
<1>1. (Step(c) \/ Crash(c)) /\ UNCHANGED <<log, call>>
  BY DEF Step, AcquireFails, Crash
<1>2. CASE AcquireFails(c)
  <2>1. FateOf(c) = "pending"
    BY <1>2, EarlyIsPending DEF AcquireFails
  <2>2. FateOf(c)' = "refused"
    BY <1>2, Told DEF AcquireFails, Return, Goto, TypeOK
  <2> QED
    BY <1>1, <2>1, <2>2, RefuseMaps DEF Promise!Next
<1>3. CASE Crash(c)
  <2>1. FateOf(c) \in {"pending", "committed", "ok"}
    BY <1>3 DEF Crash, FateOf
  <2>2. FateOf(c)' = "unknown"
    BY <1>3 DEF Crash, Goto, TypeOK, FateOf
  <2> QED
    BY <1>1, <2>1, <2>2, LoseMaps DEF Promise!Next
<1> QED
  BY <1>2, <1>3

LEMMA StepMaps == AnswerInv /\ AnswerInv' /\ [Next]_vars => [Promise!Next]_<<log, call, FateMap>>
<1> SUFFICES ASSUME AnswerInv, AnswerInv', [Next]_vars
             PROVE  [Promise!Next]_<<log, call, FateMap>>
  OBVIOUS
<1>1. ASSUME NEW c \in Clients, Start(c) PROVE Promise!Next
  BY <1>1, StartMaps DEF Promise!Next
<1>2. ASSUME NEW c \in Clients, Step(c) PROVE [Promise!Next]_<<log, call, FateMap>>
  <2>1. CASE Acquire(c) \/ PlanFresh(c) \/ HandleExisting(c)
    BY <2>1, EarlyMaps
  <2>2. CASE Install(c) \/ Resume(c) \/ Project(c) \/ CreateReceipt(c)
    BY <2>2, EarlyMaps
  <2>3. CASE ReadState(c)
    BY <2>3, ReadMaps DEF Promise!Next
  <2>4. CASE ReplaceState(c)
    BY <2>4, ReplaceMaps DEF Promise!Next
  <2>5. CASE Reread(c) \/ Clean(c) \/ Arbitrate(c)
    BY <2>5, SettleMaps
  <2>6. CASE Release(c) \/ Wipe(c)
    BY <2>6, ReleaseMaps
  <2>7. CASE ReleaseFails(c)
    BY <2>7, ReleaseFailsMaps
  <2>8. CASE ArbitrateOutside(c) \/ CleanOutside(c)
    BY <2>8, OutsideMaps
  <2>9. CASE AcquireFails(c)
    BY <2>9, EndingMaps
  <2> QED
    BY <1>2, <2>1, <2>2, <2>3, <2>4, <2>5, <2>6, <2>7, <2>8, <2>9 DEF Step
<1>3. ASSUME NEW c \in Clients, Crash(c) PROVE [Promise!Next]_<<log, call, FateMap>>
  BY <1>3, EndingMaps
<1>4. CASE RepairLock \/ LocalClean \/ LocalWipe \/ WorldChanges \/ UNCHANGED vars
  <2>1. UNCHANGED <<log, locals>>
    BY <1>4, OthersOnlyRead DEF locals, vars
  <2>2. \A c \in Clients : PlanOf(c)' = PlanOf(c)
    BY <2>1 DEF locals, PlanOf
  <2>3. \A c \in Clients : FateOf(c)' = FateOf(c)
    BY <2>1, <2>2 DEF locals, FateOf, HasCommitted
  <2> QED
    BY <2>1, <2>3, FateStutter DEF locals
<1> QED
  BY <1>1, <1>2, <1>3, <1>4 DEF Next

(* For every number of clients, intents and requests, whatever crashes, failed *)
(* writes, repairs, cleanups and wipes fall between the file system calls,     *)
(* every answer of the kernel is one an atomic compare-and-swap log would give. *)
THEOREM KernelIsRevisionLog == Spec => ImplementsRevisionLog
<1>1. Init => Promise!Init
  <2> SUFFICES ASSUME Init PROVE Promise!Init
    OBVIOUS
  <2>1. \A c \in Clients : FateOf(c) = "idle"
    BY DEF Init, FateOf
  <2> QED
    BY <2>1 DEF Init, Promise!Init
<1>2. AnswerInv /\ AnswerInv' /\ [Next]_vars => [Promise!Next]_<<log, call, FateMap>>
  BY StepMaps
<1> QED
  BY <1>1, <1>2, InitAnswer, AnswerInvStep, PTL DEF Spec, ImplementsRevisionLog, Promise!Spec, FateMap

-----------------------------------------------------------------------------
(* What cleanup leaves to a call that was interrupted.                         *)

(* A step that changes a receipt of the current revision ends a terminal task's *)
(* runtime: a receipt is created only where there is none, and every cleanup    *)
(* works from the durable state.                                               *)
LEMMA CleanupKeepsBuffers ==
    ASSUME NEW s, Cleanup(s), TypeOK, NEW i \in Intents, RecoveryBuffer(receipts[i], s)
    PROVE  receipts'[i] = receipts[i]
BY DEF Cleanup, TypeOK

LEMMA CreateKeepsBuffers ==
    ASSUME TypeOK, NEW c \in Clients, CreateReceipt(c), NEW i \in Intents, receipts[i] # Nothing
    PROVE  receipts'[i] = receipts[i]
BY DEF CreateReceipt, TypeOK, Call

LEMMA ReceiptsChange ==
    ASSUME [Next]_vars
    PROVE  \/ receipts' = receipts
           \/ \E c \in Clients : CreateReceipt(c) \/ Clean(c) \/ CleanOutside(c) \/ Wipe(c)
           \/ LocalClean \/ LocalWipe
BY DEF Next, vars, files, locals, Step, Start, Acquire, AcquireFails, Crash, ReadState, PlanFresh,
       HandleExisting, Install, Resume, Project, ReplaceState, Reread, Arbitrate, Release,
       ReleaseFails, ArbitrateOutside, RepairLock, WorldChanges

(* Whoever cleans, whenever: while the task is live and the state stands, the  *)
(* receipt an interrupted call left for its retry stays.                      *)
THEOREM InterruptedCallKeepsReceipt == Spec => BuffersSurvive
<1> DEFINE Survive == \A i \in Intents :
              RecoveryBuffer(receipts[i], state) /\ state' = state /\ ~state.terminal
              => receipts'[i] = receipts[i]
<1>1. KernelInv /\ [Next]_vars => [Survive]_vars
  <2> SUFFICES ASSUME KernelInv, [Next]_vars, NEW i \in Intents,
                      RecoveryBuffer(receipts[i], state), state' = state, ~state.terminal
               PROVE  receipts'[i] = receipts[i]
    OBVIOUS
  <2> USE DEF KernelInv
  <2>1. ASSUME NEW c \in Clients, CreateReceipt(c) PROVE receipts'[i] = receipts[i]
    BY <2>1, CreateKeepsBuffers DEF RecoveryBuffer
  <2>2. ASSUME NEW c \in Clients, Clean(c) \/ CleanOutside(c) PROVE receipts'[i] = receipts[i]
    <3>1. Cleanup(FinalOf(c)) /\ state = FinalOf(c)
      BY <2>2 DEF Clean, CleanOutside, WritesAreKnown, WriteKnown
    <3> QED
      BY <3>1, CleanupKeepsBuffers
  <2>3. ASSUME NEW c \in Clients, Wipe(c) PROVE FALSE
    BY <2>3 DEF Wipe, WipesAreLate
  <2>4. CASE LocalClean
    BY <2>4, CleanupKeepsBuffers DEF LocalClean
  <2>5. CASE LocalWipe
    BY <2>5 DEF LocalWipe, WipesAreLate
  <2> QED
    BY <2>1, <2>2, <2>3, <2>4, <2>5, ReceiptsChange
<1> QED
  BY <1>1, KernelInvariant, PTL DEF Spec, BuffersSurvive

(* After a commit, while its call is not answered, nobody has prepared over    *)
(* the new state.                                                             *)
Answering == {"reread", "clean", "arbitrate", "arbitrate-out", "clean-out"}

NotYetPlannedOver(c) ==
    \/ pc[c] \in Answering
    \/ pc[c] = "release" /\ outcome[c] \in PlannedFailures
    => (state = FinalOf(c) =>
          \A i \in Intents : receipts[i] # Nothing => receipts[i].prior < state.revision)

NobodyPlannedOver == \A c \in Clients : NotYetPlannedOver(c)

ResumeInv == KernelInv /\ NobodyPlannedOver

(* A step never adds a receipt but by CreateReceipt. *)
LEMMA ReceiptsOnlyGo ==
    ASSUME TypeOK, [Next]_vars, \A c \in Clients : ~CreateReceipt(c), NEW i \in Intents
    PROVE  receipts'[i] \in {receipts[i], Nothing}
<1>1. ASSUME NEW s, Cleanup(s) PROVE receipts'[i] \in {receipts[i], Nothing}
  BY <1>1 DEF Cleanup, TypeOK
<1>2. CASE WipeRuntime
  BY <1>2 DEF WipeRuntime
<1> QED
  BY <1>1, <1>2, ReceiptsChange DEF Clean, CleanOutside, Wipe, LocalClean, LocalWipe

LEMMA SeenIsNotFinal ==
    ASSUME TypeOK, NEW c \in Clients, state = seen[c] PROVE state # FinalOf(c)
BY DEF TypeOK, TaskState, Revisions, FinalOf, Committed

LEMMA PlannedOverStep == KernelInv /\ NobodyPlannedOver /\ [Next]_vars => NobodyPlannedOver'
<1> SUFFICES ASSUME KernelInv, NobodyPlannedOver, [Next]_vars, NEW d \in Clients
             PROVE  NotYetPlannedOver(d)'
  BY DEF NobodyPlannedOver
<1> USE DEF KernelInv
<1>1. NotYetPlannedOver(d)
  BY DEF NobodyPlannedOver
<1>2. ASSUME UNCHANGED <<pc[d], outcome[d], state>>, FinalOf(d)' = FinalOf(d),
             \A c \in Clients : ~CreateReceipt(c)
      PROVE  NotYetPlannedOver(d)'
  BY <1>1, <1>2, ReceiptsOnlyGo DEF NotYetPlannedOver
<1>3. ASSUME NEW c \in Clients, Start(c) \/ Step(c) \/ Crash(c), c # d
      PROVE  NotYetPlannedOver(d)'
  <2>1. UNCHANGED <<pc[d], outcome[d]>> /\ FinalOf(d)' = FinalOf(d)
    BY <1>3, Bystander
  <2>2. CASE pc[c] \in Planned
    <3>1. ~Inside(d)
      BY <1>3, <2>2 DEF InsideHolds, PlansAreFresh, IsFresh, Inside, Locked
    <3> QED
      BY <2>1, <3>1 DEF NotYetPlannedOver, Answering, Inside, Locked, Unlocked
  <2>3. CASE pc[c] \notin Planned
    <3>1. ~CreateReceipt(c) /\ ~ReplaceState(c)
      BY <2>3 DEF CreateReceipt, ReplaceState, Planned
    <3>2. \A i \in Intents : receipts'[i] \in {receipts[i], Nothing}
      <4>1. ASSUME NEW s, Cleanup(s), NEW i \in Intents PROVE receipts'[i] \in {receipts[i], Nothing}
        BY <4>1 DEF Cleanup, TypeOK
      <4>2. CASE Clean(c) \/ CleanOutside(c)
        BY <4>1, <4>2 DEF Clean, CleanOutside
      <4>3. CASE ~(Clean(c) \/ CleanOutside(c))
        BY <1>3, <3>1, <4>3 DEF files, Step, Start, Acquire, AcquireFails, Crash, ReadState, PlanFresh,
           HandleExisting, Install, Resume, Project, Reread, Arbitrate, Release,
           ReleaseFails, ArbitrateOutside, Wipe, WipeRuntime
      <4> QED
        BY <4>2, <4>3
    <3>3. state' = state
      BY <1>3, <3>1, OnlyReplaceWrites
    <3> QED
      BY <1>1, <2>1, <3>2, <3>3 DEF NotYetPlannedOver
  <2> QED
    BY <2>2, <2>3
<1>4. CASE RepairLock \/ LocalClean \/ LocalWipe \/ WorldChanges \/ UNCHANGED vars
  <2>1. UNCHANGED <<state, locals>>
    BY <1>4, OthersOnlyRead DEF locals, vars
  <2>2. \A i \in Intents : receipts'[i] \in {receipts[i], Nothing}
    BY <1>4 DEF RepairLock, LocalClean, LocalWipe, WipeRuntime, WorldChanges, Cleanup, files, vars, TypeOK
  <2>3. FinalOf(d)' = FinalOf(d)
    BY <2>1 DEF locals, FinalOf, PlanOf
  <2> QED
    BY <1>1, <2>1, <2>2, <2>3 DEF NotYetPlannedOver, locals
<1>5. ASSUME Start(d) \/ Step(d) \/ Crash(d) PROVE NotYetPlannedOver(d)'
  <2> USE DEF TypeOK, Goto, Complete
  <2>1. CASE Start(d) \/ Acquire(d) \/ AcquireFails(d) \/ Crash(d)
    BY <2>1 DEF Start, Acquire, AcquireFails, Crash, Return, NotYetPlannedOver, Answering
  <2>2. CASE ReadState(d) \/ PlanFresh(d) \/ HandleExisting(d)
    <3>1. /\ pc'[d] \notin Answering
          /\ pc'[d] = "release" => outcome'[d] \in Refusals \cup {"replayed"}
      BY <2>2 DEF ReadState, PlanFresh, HandleExisting, DigestVerdict, Refusals, Answering
    <3> QED
      BY <3>1 DEF NotYetPlannedOver, Answering, Refusals, PlannedFailures
  <2>3. CASE Install(d) \/ Resume(d) \/ Project(d) \/ CreateReceipt(d)
    <3>1. UNCHANGED <<state, call, seen>> /\ seen[d] = state
      BY <2>3 DEF Install, Resume, Project, CreateReceipt, files, PlansAreFresh, IsFresh, Planned
    <3>2. FinalOf(d)' = FinalOf(d) /\ state # FinalOf(d)
      BY <3>1, SeenIsNotFinal DEF FinalOf, PlanOf
    <3> QED
      BY <3>1, <3>2 DEF NotYetPlannedOver
  <2>4. CASE ReplaceState(d)
    <3>1. UNCHANGED <<receipts, call, seen>> /\ seen[d] = state
      BY <2>4 DEF ReplaceState, PlansAreFresh, IsFresh, Planned
    <3>2. FinalOf(d)' = FinalOf(d) /\ state # FinalOf(d)
      BY <3>1, SeenIsNotFinal DEF FinalOf, PlanOf
    <3>3. state.revision \in Nat /\ FinalOf(d).revision = state.revision + 1
      BY <3>1 DEF FinalOf, Committed, TaskState, Revisions
    <3>4. \A i \in Intents : receipts[i] # Nothing =>
              receipts[i].prior \in Nat /\ receipts[i].prior <= state.revision
      BY DEF BuffersAreLive, Transition, Revisions
    <3>5. state' \in {state, FinalOf(d)}
      BY <2>4 DEF ReplaceState, Commit
    <3> QED
      BY <3>1, <3>2, <3>3, <3>4, <3>5 DEF NotYetPlannedOver
  <2>5. CASE Reread(d) \/ Arbitrate(d)
    <3>1. pc[d] \in Answering /\ UNCHANGED <<state, receipts, call, seen>>
      BY <2>5 DEF Reread, Arbitrate, files, Answering
    <3>2. FinalOf(d)' = FinalOf(d)
      BY <3>1 DEF FinalOf, PlanOf
    <3> QED
      BY <1>1, <3>1, <3>2 DEF NotYetPlannedOver
  <2>6. CASE Clean(d) \/ Wipe(d) \/ CleanOutside(d) \/ Release(d)
    BY <2>6 DEF Clean, Wipe, CleanOutside, Release, Return, NotYetPlannedOver, Answering, PlannedFailures
  <2>7. CASE ReleaseFails(d) \/ ArbitrateOutside(d)
    <3>1. /\ UNCHANGED <<state, receipts, call>>
          /\ pc'[d] \notin {"arbitrate-out", "clean-out"} => pc'[d] \notin Answering \cup {"release"}
          /\ pc'[d] \in {"arbitrate-out", "clean-out"} => UNCHANGED seen
      BY <2>7 DEF ReleaseFails, ArbitrateOutside, Return, Answering
    <3>2. CASE pc'[d] \in {"arbitrate-out", "clean-out"}
      <4>1. FinalOf(d)' = FinalOf(d)
        BY <3>1, <3>2 DEF FinalOf, PlanOf
      <4>2. \/ pc[d] \in Answering
            \/ pc[d] = "release" /\ outcome[d] \in PlannedFailures
        BY <2>7, <3>2 DEF ReleaseFails, ArbitrateOutside, Return, Answering
      <4> QED
        BY <1>1, <3>1, <4>1, <4>2 DEF NotYetPlannedOver
    <3> QED
      BY <3>1, <3>2 DEF NotYetPlannedOver
  <2> QED
    BY <1>5, <2>1, <2>2, <2>3, <2>4, <2>5, <2>6, <2>7 DEF Step
<1> QED
  BY <1>3, <1>4, <1>5 DEF Next

(* Only cleanups take manifests away. *)
LEMMA ManifestsKept ==
    ASSUME [Next]_vars, ~LocalClean, \A c \in Clients : ~Clean(c) /\ ~CleanOutside(c)
    PROVE  manifests \subseteq manifests'
BY DEF Next, vars, files, Step, Start, Acquire, AcquireFails, Crash, ReadState, PlanFresh,
       HandleExisting, Install, Resume, Project, CreateReceipt, ReplaceState, Reread, Arbitrate,
       Release, ReleaseFails, ArbitrateOutside, Wipe, RepairLock, LocalWipe, WorldChanges

(* No step but a local clean takes from a receipt the result it needs. *)
LEMMA ReachableStep ==
    ASSUME KernelInv, NobodyPlannedOver, [Next]_vars, cleans' = cleans,
           NEW i \in Intents, ~Stranded(i)
    PROVE  ~Stranded(i)'
<1> USE DEF KernelInv
<1> SUFFICES ASSUME RecoveryBuffer(receipts'[i], state'),
                    receipts'[i].request \in Installing
             PROVE  ManifestOf(receipts'[i]) \in manifests'
  BY DEF Stranded, RecoveryBuffer, ManifestOf
<1>1. ~LocalClean
  BY DEF LocalClean, TypeOK
<1>2. ASSUME NEW c \in Clients, Clean(c) \/ CleanOutside(c) PROVE FALSE
  <2>1. state = FinalOf(c) /\ state' = state /\ pc[c] \in Answering
    BY <1>2 DEF Clean, CleanOutside, WritesAreKnown, WriteKnown, Answering
  <2>2. receipts'[i] = receipts[i]
    <3>1. receipts'[i] \in {receipts[i], Nothing}
      BY <1>2 DEF Clean, CleanOutside, Cleanup, TypeOK
    <3> QED
      BY <3>1 DEF RecoveryBuffer
  <2>3. receipts[i].prior < state.revision /\ receipts[i].prior = state.revision
    BY <2>1, <2>2 DEF RecoveryBuffer, NobodyPlannedOver, NotYetPlannedOver
  <2>4. state.revision \in Nat
    BY DEF TypeOK, TaskState, Revisions
  <2> QED
    BY <2>3, <2>4
<1>3. manifests \subseteq manifests'
  BY <1>1, <1>2, ManifestsKept
<1>4. ASSUME NEW c \in Clients, CreateReceipt(c) PROVE ManifestOf(receipts'[i]) \in manifests'
  <2>1. state' = state /\ pc[c] = "receipt" /\ receipts'[i] \in {receipts[i], PlanOf(c)}
    BY <1>4 DEF CreateReceipt, TypeOK
  <2>2. CASE receipts'[i] = receipts[i]
    BY <1>3, <2>1, <2>2 DEF Stranded, RecoveryBuffer, ManifestOf
  <2>3. CASE receipts'[i] = PlanOf(c)
    <3>1. call[c].request \in Installing
      BY <2>3 DEF PlanOf
    <3>2. ManifestOf(PlanOf(c)) \in manifests
      BY <2>1, <3>1 DEF ResultInstalled, HasResult
    <3> QED
      BY <1>3, <2>3, <3>2
  <2> QED
    BY <2>1, <2>2, <2>3
<1>5. CASE \A c \in Clients : ~CreateReceipt(c)
  <2>1. receipts'[i] = receipts[i]
    BY <1>5, ReceiptsOnlyGo DEF RecoveryBuffer
  <2>2. state' = state
    <3>1. ASSUME NEW c \in Clients, ReplaceState(c), Commit(c) PROVE FALSE
      <4>1. state'.revision = state.revision + 1
        BY <3>1 DEF ReplaceState, Commit, FinalOf, Committed, PlansAreFresh, IsFresh, Planned
      <4>2. receipts[i].prior <= state.revision /\ state.revision \in Nat
        BY <2>1 DEF BuffersAreLive, RecoveryBuffer, TypeOK, TaskState, Revisions
      <4> QED
        BY <2>1, <4>1, <4>2 DEF RecoveryBuffer
    <3> QED
      BY <3>1, OnlyReplaceWrites, OthersOnlyRead DEF Next, vars, ReplaceState
  <2> QED
    BY <1>3, <2>1, <2>2 DEF Stranded, RecoveryBuffer, ManifestOf
<1> QED
  BY <1>4, <1>5

(* A call that commits under an intent has the result of its receipt. *)
LEMMA CommitHasResult ==
    ASSUME KernelInv, [Next]_vars, state' # state, NEW i \in Intents, state'.last.intent = i
    PROVE  ~Stranded(i)
<1> USE DEF KernelInv
<1>1. PICK c \in Clients : ReplaceState(c) /\ Commit(c)
  BY OnlyReplaceWrites, OthersOnlyRead DEF Next, vars, ReplaceState
<1>2. pc[c] = "replace" /\ receipts[call[c].intent] = PlanOf(c)
  BY <1>1 DEF ReplaceState, ReceiptFiled, HasFiled
<1>3. call[c].intent = i
  BY <1>1 DEF Commit, FinalOf, Committed, PlanOf
<1>4. call[c].request \in Installing => ManifestOf(PlanOf(c)) \in manifests
  BY <1>2 DEF ResultInstalled, HasResult
<1> QED
  BY <1>2, <1>3, <1>4 DEF Stranded, PlanOf

(* A call interrupted after its receipt finds the result it needs to resume,   *)
(* whatever crashes, calls and cleanups of other calls come in between; only a *)
(* local clean can take it away, and then the call is never committed without. *)
THEOREM OnlyACleanStrands == Spec => OnlyCleanStrands
<1>1. Init => ResumeInv
  <2>1. Init => NobodyPlannedOver
    BY DEF Init, NobodyPlannedOver, NotYetPlannedOver, Answering
  <2> QED
    BY <2>1, InitInv DEF ResumeInv
<1>2. ResumeInv /\ [Next]_vars => ResumeInv'
  BY KernelInvStep, PlannedOverStep DEF ResumeInv
<1>3. ASSUME ResumeInv, [Next]_vars, NEW i \in Intents
      PROVE  /\ Stranded(i)' => Stranded(i) \/ cleans' # cleans
             /\ Stranded(i) /\ state' # state => state'.last.intent # i
  BY <1>3, ReachableStep, CommitHasResult DEF ResumeInv
<1>4. ResumeInv /\ [Next]_vars =>
        [\A i \in Intents : /\ Stranded(i)' => Stranded(i) \/ cleans' # cleans
                            /\ Stranded(i) /\ state' # state => state'.last.intent # i]_vars
  BY <1>3
<1> QED
  BY <1>1, <1>2, <1>4, PTL DEF Spec, OnlyCleanStrands

-----------------------------------------------------------------------------
(* The lock: TaskLock, for every number of writers, concurrent repairs and  *)
(* reusable inode numbers.                                                  *)

LEMMA LockTypeStep == LockTypeOK /\ [LockNext]_lockVars => LockTypeOK'
<1> SUFFICES ASSUME LockTypeOK, [LockNext]_lockVars PROVE LockTypeOK'
  OBVIOUS
<1> USE DEF LockTypeOK, RepairLabels, writerVars, repairVars
<1>1. ASSUME NEW w \in Writers, Mkdir(w) PROVE LockTypeOK'
  <2>1. made + 1 \in 1 .. MaxMade
    BY <1>1, MadeAssumption DEF Mkdir
  <2>2. fixed' \in Dir
    BY <1>1, <2>1 DEF Mkdir, Dir
  <2> QED
    BY <1>1, <2>1, <2>2, MadeAssumption DEF Mkdir
<1>2. ASSUME NEW w \in Writers, Ask(w) \/ GiveUp(w) \/ Rmdir(w) \/ WriterDies(w) PROVE LockTypeOK'
  BY <1>2, MadeAssumption DEF Ask, GiveUp, Rmdir, WriterDies
<1>3. ASSUME NEW r \in Repairers, Lstat(r) PROVE LockTypeOK'
  BY <1>3 DEF Lstat, Dir
<1>4. ASSUME NEW r \in Repairers, Open(r) \/ Confirm(r) \/ Verify(r) PROVE LockTypeOK'
  BY <1>4 DEF Open, Confirm, Verify, EndRepair, SameNumber
<1>5. ASSUME NEW r \in Repairers, Rename(r) \/ Check(r) \/ Remove(r) \/ RepairFails(r) PROVE LockTypeOK'
  BY <1>5 DEF Rename, Check, Remove, RepairFails, EndRepair
<1>6. CASE UNCHANGED lockVars
  BY <1>6 DEF lockVars
<1> QED
  BY <1>1, <1>2, <1>3, <1>4, <1>5, <1>6 DEF LockNext

LEMMA DirFields == \A d \in Dir : d.ino \in Inodes /\ d.birth \in 1 .. MaxMade
BY DEF Dir

LEMMA InUseAreDirs == LockTypeOK => InUse \subseteq Dir
BY DEF LockTypeOK, InUse

LEMMA MkdirMakes ==
    ASSUME LockTypeOK, NEW w \in Writers, Mkdir(w)
    PROVE  /\ fixed' \in Dir /\ fixed' # None /\ fixed'.birth = made + 1
           /\ InUse' = InUse \cup {fixed'}
           /\ \A e \in InUse : e.ino # fixed'.ino
<1>1. /\ fixed' \in Dir /\ fixed'.birth = made + 1
      /\ \A e \in InUse : e.ino # fixed'.ino
  <2>1. made + 1 \in 1 .. MaxMade
    BY MadeAssumption DEF LockTypeOK, Mkdir
  <2> QED
    BY <2>1 DEF Mkdir, Dir
<1>2. fixed' # None /\ fixed = None /\ UNCHANGED <<aside, strays, handle>>
  BY <1>1, NoneAssumption DEF Mkdir, repairVars
<1> QED
  BY <1>1, <1>2 DEF InUse

LEMMA InUseShrinks ==
    ASSUME LockTypeOK, [LockNext]_lockVars, \A w \in Writers : ~Mkdir(w)
    PROVE  InUse' \subseteq InUse /\ made' = made
<1> USE DEF LockTypeOK, InUse, writerVars, repairVars
<1>1. ASSUME NEW w \in Writers, Ask(w) \/ GiveUp(w) \/ Rmdir(w) \/ WriterDies(w)
      PROVE  InUse' \subseteq InUse /\ made' = made
  BY <1>1 DEF Ask, GiveUp, Rmdir, WriterDies
<1>2. ASSUME NEW r \in Repairers, EndRepair(r), fixed' = fixed PROVE InUse' \subseteq InUse
  BY <1>2 DEF EndRepair
<1>3. ASSUME NEW r \in Repairers, Lstat(r) \/ Open(r) \/ Confirm(r) \/ Verify(r)
      PROVE  InUse' \subseteq InUse /\ made' = made
  BY <1>2, <1>3 DEF Lstat, Open, Confirm, Verify, SameNumber
<1>4. ASSUME NEW r \in Repairers, Rename(r) \/ Check(r) \/ Remove(r) \/ RepairFails(r)
      PROVE  InUse' \subseteq InUse /\ made' = made
  BY <1>2, <1>4 DEF Rename, Check, Remove, RepairFails
<1>5. CASE UNCHANGED lockVars
  BY <1>5 DEF lockVars
<1> QED
  BY <1>1, <1>3, <1>4, <1>5 DEF LockNext

(* Only mkdir brings a directory into use, under a number nobody uses.        *)
LEMMA InUseGrows ==
    ASSUME LockTypeOK, [LockNext]_lockVars
    PROVE  \/ InUse' \subseteq InUse
           \/ \E d : InUse' = InUse \cup {d} /\ \A e \in InUse : e.ino # d.ino
BY MkdirMakes, InUseShrinks

LEMMA NumbersStep == LockTypeOK /\ NumbersDiffer /\ [LockNext]_lockVars => NumbersDiffer'
BY InUseGrows DEF NumbersDiffer

LEMMA PinnedStep == LockTypeOK /\ PlansArePinned /\ [LockNext]_lockVars => PlansArePinned'
<1> SUFFICES ASSUME LockTypeOK, PlansArePinned, [LockNext]_lockVars PROVE PlansArePinned'
  OBVIOUS
<1> USE DEF LockTypeOK, PlansArePinned, writerVars, repairVars
<1>1. ASSUME NEW w \in Writers, Ask(w) \/ Mkdir(w) \/ GiveUp(w) \/ Rmdir(w) \/ WriterDies(w) PROVE PlansArePinned'
  BY <1>1 DEF Ask, Mkdir, GiveUp, Rmdir, WriterDies
<1>2. ASSUME NEW r \in Repairers, Lstat(r) \/ Open(r) \/ Confirm(r) \/ Verify(r) PROVE PlansArePinned'
  BY <1>2 DEF Lstat, Open, Confirm, Verify, SameNumber, EndRepair
<1>3. ASSUME NEW r \in Repairers, Rename(r) \/ Check(r) \/ Remove(r) \/ RepairFails(r) PROVE PlansArePinned'
  BY <1>3 DEF Rename, Check, Remove, RepairFails, EndRepair
<1>4. CASE UNCHANGED lockVars
  BY <1>4 DEF lockVars
<1> QED
  BY <1>1, <1>2, <1>3, <1>4 DEF LockNext

LEMMA RemovesStep == RepairInv /\ [LockNext]_lockVars => RemovesOnlyInspected'
<1> SUFFICES ASSUME RepairInv, [LockNext]_lockVars, NEW q \in Repairers, rpc'[q] = "remove"
             PROVE  aside'[q] = handle'[q]
  BY DEF RemovesOnlyInspected
<1> USE DEF RepairInv, LockTypeOK, writerVars, repairVars
<1>1. CASE Check(q)
  <2>1. aside[q].ino = handle[q].ino /\ UNCHANGED <<aside, handle>>
    BY <1>1 DEF Check, EndRepair
  <2>2. aside[q] \in InUse /\ handle[q] \in InUse
    BY <1>1 DEF Check, PlansArePinned, InUse
  <2> QED
    BY <2>1, <2>2 DEF NumbersDiffer
<1>2. CASE ~Check(q)
  <2>1. rpc[q] = "remove" /\ aside'[q] = aside[q] /\ handle'[q] = handle[q]
    <3>1. ASSUME NEW w \in Writers, Ask(w) \/ Mkdir(w) \/ GiveUp(w) \/ Rmdir(w) \/ WriterDies(w)
          PROVE  UNCHANGED <<rpc, aside, handle>>
      BY <3>1 DEF Ask, Mkdir, GiveUp, Rmdir, WriterDies
    <3>2. ASSUME NEW r \in Repairers, Lstat(r) \/ Open(r) \/ Confirm(r) \/ Verify(r)
          PROVE  rpc[q] = "remove" /\ aside'[q] = aside[q] /\ handle'[q] = handle[q]
      BY <3>2 DEF Lstat, Open, Confirm, Verify, SameNumber, EndRepair
    <3>3. ASSUME NEW r \in Repairers, Rename(r) \/ Check(r) \/ Remove(r) \/ RepairFails(r)
          PROVE  rpc[q] = "remove" /\ aside'[q] = aside[q] /\ handle'[q] = handle[q]
      BY <1>2, <3>3 DEF Rename, Check, Remove, RepairFails, EndRepair
    <3>4. CASE UNCHANGED lockVars
      BY <3>4 DEF lockVars
    <3> QED
      BY <3>1, <3>2, <3>3, <3>4 DEF LockNext
  <2> QED
    BY <2>1 DEF RemovesOnlyInspected
<1> QED
  BY <1>1, <1>2

LEMMA InitRepair == LockInit => RepairInv
BY MadeAssumption DEF LockInit, RepairInv, LockTypeOK, RepairLabels, NumbersDiffer, InUse, PlansArePinned, RemovesOnlyInspected

(* However many repairs race each other and the writers, and whatever numbers *)
(* the file system reuses, a repair deletes only the directory it inspected:  *)
(* the open handle keeps its number from being given away.                    *)
THEOREM RepairsRemoveOnlyInspected == LockSpec => []RemovesOnlyInspected
<1>1. RepairInv /\ [LockNext]_lockVars => RepairInv'
  BY LockTypeStep, NumbersStep, PinnedStep, RemovesStep DEF RepairInv
<1>2. RepairInv => RemovesOnlyInspected
  BY DEF RepairInv
<1> QED
  BY <1>1, <1>2, InitRepair, PTL DEF LockSpec

-----------------------------------------------------------------------------
(* The refinement, for one repair at a time: the repair a human runs.  With   *)
(* two, one may clear the path, a writer make its own directory there, and    *)
(* the other rename that one; it would not remove it (above), but the writer   *)
(* would work without the lock.                                               *)

Working(w) == wpc[w] = "working"

BirthsMade == \A d \in InUse : d.birth <= made

(* A writer at work has its own directory at the path. *)
WorkersHold == \A w \in Writers : Working(w) => fixed # None /\ mine[w] = fixed.birth

OneWorks == \A w, v \in Writers : Working(w) /\ Working(v) => w = v

(* Whatever is made after the confirmation, it is not what the repair pinned. *)
ConfirmedIsLeft ==
    \A r \in Repairers : rpc[r] = "confirmed" =>
        \A w \in Writers : Working(w) => mine[w] # handle[r].birth

RenamesAbandoned ==
    \A r \in Repairers : rpc[r] = "rename" =>
        fixed # None /\ \A w \in Writers : ~Working(w)

LockInv ==
    /\ RepairInv
    /\ BirthsMade
    /\ WorkersHold
    /\ OneWorks
    /\ ConfirmedIsLeft
    /\ RenamesAbandoned

OneRepair == \A r, s \in Repairers : r = s

LEMMA BirthsStep == LockTypeOK /\ BirthsMade /\ [LockNext]_lockVars => BirthsMade'
<1> SUFFICES ASSUME LockTypeOK, BirthsMade, [LockNext]_lockVars PROVE BirthsMade'
  OBVIOUS
<1>1. made \in Nat /\ \A d \in InUse : d.birth \in Nat
  BY InUseAreDirs, DirFields, MadeAssumption DEF LockTypeOK
<1>2. ASSUME NEW w \in Writers, Mkdir(w) PROVE BirthsMade'
  <2>1. made' = made + 1
    BY <1>2 DEF Mkdir
  <2> QED
    BY <1>1, <1>2, <2>1, MkdirMakes DEF BirthsMade
<1> QED
  BY <1>2, InUseShrinks DEF BirthsMade

(* What a step does that is neither a mkdir, an rmdir, a crash nor a rename.  *)
LEMMA QuietStep ==
    ASSUME LockTypeOK, [LockNext]_lockVars,
           \A w \in Writers : ~(Mkdir(w) \/ Rmdir(w) \/ WriterDies(w)),
           \A r \in Repairers : ~Rename(r)
    PROVE  /\ fixed' = fixed
           /\ \A w \in Writers : (Working(w)' <=> Working(w)) /\ mine'[w] = mine[w]
<1> USE DEF LockTypeOK, Working, writerVars, repairVars
<1>1. ASSUME NEW w \in Writers, Ask(w) \/ GiveUp(w)
      PROVE  /\ fixed' = fixed
             /\ \A v \in Writers : (Working(v)' <=> Working(v)) /\ mine'[v] = mine[v]
  BY <1>1 DEF Ask, GiveUp
<1>2. ASSUME NEW r \in Repairers,
             \/ Lstat(r) \/ Open(r) \/ Confirm(r) \/ Verify(r)
             \/ Check(r) \/ Remove(r) \/ RepairFails(r)
      PROVE  fixed' = fixed /\ UNCHANGED <<wpc, mine>>
  BY <1>2 DEF Lstat, Open, Confirm, Verify, Check, Remove, RepairFails
<1>3. CASE UNCHANGED lockVars
  BY <1>3 DEF lockVars
<1> QED
  BY <1>1, <1>2, <1>3 DEF LockNext

(* The writer's own steps. *)
LEMMA MkdirWorks ==
    ASSUME LockTypeOK, NEW w \in Writers, Mkdir(w)
    PROVE  /\ Working(w)' /\ mine'[w] = made + 1 /\ fixed = None
           /\ \A v \in Writers \ {w} : (Working(v)' <=> Working(v)) /\ mine'[v] = mine[v]
           /\ UNCHANGED repairVars
BY DEF LockTypeOK, Working, Mkdir

LEMMA WriterEnds ==
    ASSUME LockTypeOK, NEW w \in Writers, Rmdir(w) \/ WriterDies(w)
    PROVE  /\ ~Working(w)' /\ fixed' \in {None, fixed}
           /\ ~Working(w) => fixed' = fixed
           /\ \A v \in Writers \ {w} : (Working(v)' <=> Working(v)) /\ mine'[v] = mine[v]
           /\ UNCHANGED repairVars
BY DEF LockTypeOK, Working, Rmdir, WriterDies

LEMMA RenameMoves ==
    ASSUME LockTypeOK, NEW r \in Repairers, Rename(r)
    PROVE  /\ fixed' \in {None, fixed} /\ rpc'[r] # "rename" /\ rpc'[r] # "confirmed"
           /\ \A q \in Repairers \ {r} : rpc'[q] = rpc[q] /\ handle'[q] = handle[q]
           /\ UNCHANGED <<wpc, mine>>
BY DEF LockTypeOK, Rename, EndRepair, writerVars

LEMMA WorkersStep == LockInv /\ [LockNext]_lockVars => WorkersHold' /\ OneWorks'
<1> SUFFICES ASSUME LockInv, [LockNext]_lockVars PROVE WorkersHold' /\ OneWorks'
  OBVIOUS
<1> USE DEF LockInv, RepairInv, WorkersHold, OneWorks
<1>1. ASSUME NEW w \in Writers, Mkdir(w) PROVE WorkersHold' /\ OneWorks'
  BY <1>1, MkdirMakes, MkdirWorks
<1>2. ASSUME NEW w \in Writers, Rmdir(w) \/ WriterDies(w) PROVE WorkersHold' /\ OneWorks'
  BY <1>2, WriterEnds
<1>3. ASSUME NEW r \in Repairers, Rename(r) PROVE WorkersHold' /\ OneWorks'
  <2>1. \A w \in Writers : ~Working(w)'
    BY <1>3, RenameMoves DEF RenamesAbandoned, Rename, Working
  <2> QED
    BY <2>1
<1> QED
  BY <1>1, <1>2, <1>3, QuietStep

LEMMA ConfirmedStep == LockInv /\ [LockNext]_lockVars => ConfirmedIsLeft'
<1> SUFFICES ASSUME LockInv, [LockNext]_lockVars, NEW q \in Repairers, rpc'[q] = "confirmed",
                    NEW v \in Writers, Working(v)'
             PROVE  mine'[v] # handle'[q].birth
  BY DEF ConfirmedIsLeft, Working
<1> USE DEF LockInv, RepairInv
<1>1. ASSUME NEW w \in Writers, Mkdir(w) PROVE mine'[v] # handle'[q].birth
  <2>1. rpc[q] = "confirmed" /\ handle'[q] = handle[q]
    BY <1>1, MkdirWorks DEF repairVars
  <2>2. handle[q] \in InUse
    BY <2>1 DEF PlansArePinned, InUse, LockTypeOK
  <2>3. handle[q].birth \in Nat /\ handle[q].birth <= made /\ made \in Nat
    BY <2>2, InUseAreDirs, DirFields, MadeAssumption DEF BirthsMade, LockTypeOK
  <2>4. CASE v = w
    BY <1>1, <2>1, <2>3, <2>4, MkdirWorks
  <2>5. CASE v # w
    BY <1>1, <2>1, <2>5, MkdirWorks DEF ConfirmedIsLeft
  <2> QED
    BY <2>4, <2>5
<1>2. ASSUME NEW w \in Writers, Rmdir(w) \/ WriterDies(w) PROVE mine'[v] # handle'[q].birth
  BY <1>2, WriterEnds DEF ConfirmedIsLeft, repairVars
<1>3. ASSUME NEW r \in Repairers, Rename(r) PROVE mine'[v] # handle'[q].birth
  BY <1>3, RenameMoves DEF ConfirmedIsLeft, Working
<1>4. CASE Confirm(q)
  BY <1>4 DEF Confirm, Working, writerVars
<1>5. CASE /\ \A w \in Writers : ~(Mkdir(w) \/ Rmdir(w) \/ WriterDies(w))
           /\ \A r \in Repairers : ~Rename(r)
           /\ ~Confirm(q)
  <2>1. Working(v) /\ mine'[v] = mine[v]
    BY <1>5, QuietStep
  <2>2. rpc[q] = "confirmed" /\ handle'[q] = handle[q]
    <3> USE DEF LockTypeOK, writerVars, repairVars
    <3>1. ASSUME NEW w \in Writers, Ask(w) \/ GiveUp(w)
          PROVE  rpc[q] = "confirmed" /\ handle'[q] = handle[q]
      BY <3>1 DEF Ask, GiveUp
    <3>2. ASSUME NEW r \in Repairers, Lstat(r) \/ Open(r) \/ Confirm(r) \/ Verify(r)
          PROVE  rpc[q] = "confirmed" /\ handle'[q] = handle[q]
      BY <1>5, <3>2 DEF Lstat, Open, Confirm, Verify, EndRepair
    <3>3. ASSUME NEW r \in Repairers, Check(r) \/ Remove(r) \/ RepairFails(r)
          PROVE  rpc[q] = "confirmed" /\ handle'[q] = handle[q]
      BY <3>3 DEF Check, Remove, RepairFails, EndRepair
    <3>4. CASE UNCHANGED lockVars
      BY <3>4 DEF lockVars
    <3> QED
      BY <1>5, <3>1, <3>2, <3>3, <3>4 DEF LockNext
  <2> QED
    BY <2>1, <2>2 DEF ConfirmedIsLeft
<1> QED
  BY <1>1, <1>2, <1>3, <1>4, <1>5

(* Once the path is verified to hold the pinned directory, nobody is at work. *)
LEMMA VerifiedIsAbandoned ==
    ASSUME LockInv, NEW r \in Repairers, rpc[r] = "confirmed",
           SameNumber(r), handle[r].ino = noted[r]
    PROVE  fixed # None /\ \A w \in Writers : ~Working(w)
<1> USE DEF LockInv, RepairInv
<1>1. fixed \in InUse /\ handle[r] \in InUse
  BY DEF SameNumber, PlansArePinned, InUse, LockTypeOK
<1>2. fixed = handle[r]
  BY <1>1 DEF SameNumber, NumbersDiffer
<1> QED
  BY <1>2 DEF SameNumber, WorkersHold, ConfirmedIsLeft

LEMMA RenamesStep == OneRepair /\ LockInv /\ [LockNext]_lockVars => RenamesAbandoned'
<1> SUFFICES ASSUME OneRepair, LockInv, [LockNext]_lockVars, NEW q \in Repairers, rpc'[q] = "rename"
             PROVE  fixed' # None /\ \A w \in Writers : ~Working(w)'
  BY DEF RenamesAbandoned, Working
<1> USE DEF LockInv, RepairInv
<1>1. ASSUME NEW w \in Writers, Mkdir(w) PROVE FALSE
  BY <1>1, MkdirWorks DEF RenamesAbandoned, repairVars
<1>2. ASSUME NEW w \in Writers, Rmdir(w) \/ WriterDies(w)
      PROVE  fixed' # None /\ \A v \in Writers : ~Working(v)'
  BY <1>2, WriterEnds DEF RenamesAbandoned, repairVars
<1>3. ASSUME NEW r \in Repairers, Rename(r) PROVE FALSE
  BY <1>3, RenameMoves DEF OneRepair
<1>4. CASE Verify(q)
  <2>1. SameNumber(q) /\ handle[q].ino = noted[q] /\ rpc[q] = "confirmed"
    BY <1>4 DEF Verify, EndRepair, LockTypeOK
  <2> QED
    BY <1>4, <2>1, VerifiedIsAbandoned DEF Verify, Working, writerVars
<1>5. CASE /\ \A w \in Writers : ~(Mkdir(w) \/ Rmdir(w) \/ WriterDies(w))
           /\ \A r \in Repairers : ~Rename(r)
           /\ ~Verify(q)
  <2>1. rpc[q] = "rename"
    <3> USE DEF LockTypeOK, writerVars, repairVars
    <3>1. ASSUME NEW w \in Writers, Ask(w) \/ GiveUp(w) PROVE rpc[q] = "rename"
      BY <3>1 DEF Ask, GiveUp
    <3>2. ASSUME NEW r \in Repairers, Lstat(r) \/ Open(r) \/ Confirm(r) \/ Verify(r)
          PROVE  rpc[q] = "rename"
      BY <1>5, <3>2 DEF Lstat, Open, Confirm, Verify, EndRepair
    <3>3. ASSUME NEW r \in Repairers, Check(r) \/ Remove(r) \/ RepairFails(r)
          PROVE  rpc[q] = "rename"
      BY <3>3 DEF Check, Remove, RepairFails, EndRepair
    <3>4. CASE UNCHANGED lockVars
      BY <3>4 DEF lockVars
    <3> QED
      BY <1>5, <3>1, <3>2, <3>3, <3>4 DEF LockNext
  <2> QED
    BY <1>5, <2>1, QuietStep DEF RenamesAbandoned
<1> QED
  BY <1>1, <1>2, <1>3, <1>4, <1>5

LEMMA LockInvInit == LockInit => LockInv
<1> SUFFICES ASSUME LockInit PROVE LockInv
  OBVIOUS
<1>1. RepairInv
  BY InitRepair
<1>2. InUse = {}
  BY DEF LockInit, InUse
<1> QED
  BY <1>1, <1>2 DEF LockInit, LockInv, BirthsMade, WorkersHold, OneWorks, ConfirmedIsLeft,
                    RenamesAbandoned, Working

LEMMA LockStep == OneRepair /\ LockInv /\ [LockNext]_lockVars => LockInv'
BY LockTypeStep, NumbersStep, PinnedStep, RemovesStep, BirthsStep, WorkersStep, ConfirmedStep,
   RenamesStep DEF LockInv, RepairInv

-----------------------------------------------------------------------------
(* The holder the mapping chooses is the writer at work, and stale when the   *)
(* path is taken and nobody is.                                               *)

LEMMA HolderWorks ==
    ASSUME LockInv, NEW w \in Writers, Working(w)
    PROVE  Holder = w /\ fixed # None /\ \A v \in Writers : Working(v) => v = w
BY DEF LockInv, WorkersHold, OneWorks, Holder, Working

LEMMA HolderWorksNext ==
    ASSUME LockInv', NEW w \in Writers, Working(w)'
    PROVE  Holder' = w /\ \A v \in Writers : Working(v)' => v = w
BY DEF LockInv, WorkersHold, OneWorks, Holder, Working

LEMMA HolderIdle ==
    ASSUME \A w \in Writers : ~Working(w)
    PROVE  Holder = IF fixed = None THEN Free ELSE Stale
BY DEF Holder, Working

LEMMA HolderIdleNext ==
    ASSUME \A w \in Writers : ~Working(w)'
    PROVE  Holder' = IF fixed' = None THEN Free ELSE Stale
BY DEF Holder, Working

InsideNow == {w \in Writers : wpc[w] = "working"}

(* What a step of the protocol is to the lock: a writer takes it, leaves it   *)
(* free or stale, the repair frees a stale one, or nothing.                   *)
LEMMA LockStepMaps ==
    OneRepair /\ LockInv /\ LockInv' /\ [LockNext]_lockVars
        => [Mutex!Next]_<<Holder, InsideNow>>
<1> SUFFICES ASSUME OneRepair, LockInv, LockInv', [LockNext]_lockVars
             PROVE  [Mutex!Next]_<<Holder, InsideNow>>
  OBVIOUS
<1>0. LockTypeOK
  BY DEF LockInv, RepairInv
<1>1. ASSUME NEW w \in Writers, Mkdir(w) PROVE Mutex!Take(w)
  <2>1. \A v \in Writers : ~Working(v)
    BY <1>0, <1>1, MkdirWorks DEF LockInv, WorkersHold
  <2>2. Holder = Free
    BY <1>0, <1>1, <2>1, MkdirWorks, HolderIdle
  <2>3. Holder' = w /\ InsideNow' = InsideNow \cup {w}
    <3>1. Holder' = w
      BY <1>0, <1>1, MkdirWorks, HolderWorksNext
    <3>2. \A v \in Writers : Working(v)' <=> Working(v) \/ v = w
      BY <1>0, <1>1, MkdirWorks
    <3> QED
      BY <3>1, <3>2 DEF InsideNow, Working
  <2> QED
    BY <2>2, <2>3 DEF Mutex!Take, InsideNow
<1>2. ASSUME NEW w \in Writers, Working(w), Rmdir(w) \/ WriterDies(w) PROVE Mutex!Leave(w)
  <2>1. Holder = w /\ \A v \in Writers : Working(v) => v = w
    BY <1>2, HolderWorks
  <2>2. \A v \in Writers : ~Working(v)'
    BY <1>0, <1>2, <2>1, WriterEnds
  <2>3. Holder' \in {Free, Stale}
    BY <2>2, HolderIdleNext
  <2>4. InsideNow' = InsideNow \ {w}
    BY <2>1, <2>2 DEF InsideNow, Working
  <2> QED
    BY <2>1, <2>3, <2>4 DEF Mutex!Leave, InsideNow
<1>3. ASSUME NEW r \in Repairers, Rename(r), fixed' # fixed PROVE Mutex!Repair
  <2>1. fixed # None /\ fixed' = None /\ \A w \in Writers : ~Working(w)
    BY <1>0, <1>3, RenameMoves DEF LockInv, RenamesAbandoned, Rename
  <2>2. wpc' = wpc
    BY <1>0, <1>3, RenameMoves
  <2>3. Holder = Stale /\ Holder' = Free
    BY <2>1, <2>2, HolderIdle, HolderIdleNext DEF Working
  <2> QED
    BY <2>2, <2>3 DEF Mutex!Repair, InsideNow
<1>4. ASSUME fixed' = fixed, \A w \in Writers : (Working(w)' <=> Working(w))
      PROVE  UNCHANGED <<Holder, InsideNow>>
  <2>1. InsideNow' = InsideNow
    BY <1>4 DEF InsideNow, Working
  <2>2. ASSUME NEW w \in Writers, Working(w) PROVE Holder' = Holder
    BY <1>4, <2>2, HolderWorks, HolderWorksNext
  <2>3. CASE \A w \in Writers : ~Working(w)
    BY <1>4, <2>1, <2>3, HolderIdle, HolderIdleNext
  <2> QED
    BY <2>1, <2>2, <2>3
<1>5. ASSUME NEW w \in Writers, ~Working(w), Rmdir(w) \/ WriterDies(w)
      PROVE  UNCHANGED <<Holder, InsideNow>>
  BY <1>0, <1>4, <1>5, WriterEnds
<1>6. ASSUME NEW r \in Repairers, Rename(r), fixed' = fixed
      PROVE  UNCHANGED <<Holder, InsideNow>>
  BY <1>0, <1>4, <1>6, RenameMoves DEF Working
<1>7. CASE /\ \A w \in Writers : ~(Mkdir(w) \/ Rmdir(w) \/ WriterDies(w))
           /\ \A r \in Repairers : ~Rename(r)
  BY <1>0, <1>4, <1>7, QuietStep
<1> QED
  BY <1>1, <1>2, <1>3, <1>5, <1>6, <1>7 DEF Mutex!Next

(* For any number of writers, any reuse of numbers and any crashes, and with   *)
(* one repair at a time, the directory protocol is the lock the transaction    *)
(* kernel relies on.                                                          *)
THEOREM LockIsMutex == OneRepair => (LockSpec => ImplementsTaskMutex)
<1> SUFFICES ASSUME OneRepair PROVE LockSpec => ImplementsTaskMutex
  OBVIOUS
<1>1. LockInit => Mutex!Init
  <2> SUFFICES ASSUME LockInit PROVE Mutex!Init
    OBVIOUS
  <2>1. \A w \in Writers : ~Working(w)
    BY DEF LockInit, Working
  <2>2. Holder = Free /\ InsideNow = {}
    BY <2>1, HolderIdle DEF LockInit, InsideNow, Working
  <2> QED
    BY <2>2 DEF Mutex!Init, InsideNow
<1>2. LockInv /\ [LockNext]_lockVars => LockInv'
  BY LockStep
<1>3. LockInv /\ LockInv' /\ [LockNext]_lockVars => [Mutex!Next]_<<Holder, InsideNow>>
  BY LockStepMaps
<1> QED
  BY <1>1, <1>2, <1>3, LockInvInit, PTL DEF LockSpec, ImplementsTaskMutex, Mutex!Spec, InsideNow
=============================================================================
