----------------------------- MODULE TaskKernel -----------------------------
(***************************************************************************)
(* The state transaction kernel of one task (src/state/transaction.ts with  *)
(* lock.ts, atomic.ts and workspace-cleanup.ts).                            *)
(*                                                                          *)
(* Clients are processes that issue one call at a time against the same     *)
(* task.  A call takes the task-local lock directory, compares the revision *)
(* its caller expects with the durable one, installs its result under       *)
(* authority/results, writes an intent receipt (the recovery buffer),       *)
(* replaces state.json and cleans up.  A step of the module is one file     *)
(* system effect, so a crash or another client can fall between any two.    *)
(***************************************************************************)
EXTENDS Naturals, Sequences

CONSTANTS
    Clients,       \* processes that issue calls against the task
    Intents,       \* intent ids a caller may choose, or reuse on a retry
    Requests,      \* what a request asks for (the digested operation fields)
    Installing,    \* requests that install an authoritative result
    Finishing,     \* requests whose commit makes the task terminal
    MaxRevision,   \* the revision no commit passes (Number.MAX_SAFE_INTEGER)
    MaxWorld,      \* how often the live input fingerprint may change
    MaxCleans,     \* how often `archflow-local clean` is run
    NoClient,      \* the lock directory does not exist
    Orphan,        \* the lock directory outlived the process that made it
    Nothing        \* no receipt, no last transition

ASSUME SubsetAssumption == Installing \subseteq Requests /\ Finishing \subseteq Requests
ASSUME BoundAssumption == MaxRevision \in Nat /\ MaxWorld \in Nat /\ MaxCleans \in Nat
ASSUME DistinctAssumption == NoClient \notin Clients /\ Orphan \notin Clients /\ NoClient # Orphan

Revisions == 0 .. MaxRevision
Worlds == 0 .. MaxWorld

(* The identity of a committed or prepared call: a request digest covers the *)
(* request and its input fingerprint, never the expected revision.           *)
Transition == [intent : Intents, request : Requests, world : Worlds, prior : Revisions]
ASSUME NothingAssumption == Nothing \notin Transition

(* A result manifest is content addressed. *)
Manifest == [request : Requests, world : Worlds]

TaskState ==
    [revision : Revisions, last : Transition \cup {Nothing},
     results : SUBSET Manifest, terminal : BOOLEAN]

Call == [intent : Intents, request : Requests, world : Worlds, expected : Revisions]

VARIABLES
    state,      \* state.json
    receipts,   \* transient/intents/<intent>.json
    manifests,  \* installed authority/results/<digest>.json with their payloads
    lock,       \* transient/.transaction-lock: absent, made by a client, or orphaned
    runtime,    \* whether the runtime directory that holds the lock exists
    world,      \* the live input fingerprint (config, evidence, Git position)
    cleans,     \* how many local cleans have run
    wiping,     \* a local clean of a terminal task has its wipe still to do
    pc,         \* where each client's call is
    call,       \* each client's current call
    seen,       \* the state document each call read under the lock
    outcome,    \* the result the locked section completed with
    reply,      \* what the caller was told
    log         \* history: the committed transitions, oldest first

files == <<state, receipts, manifests, lock, runtime>>
cleaner == <<cleans, wiping>>
locals == <<pc, call, seen, outcome, reply>>
vars == <<state, receipts, manifests, lock, runtime, world, cleans, wiping,
          pc, call, seen, outcome, reply, log>>

(* Outcomes decided before a plan exists, and after. *)
Refusals == {"unreadable", "conflict", "mismatch", "fingerprint", "not-current",
             "future-receipt", "rejected", "ceiling"}
PlannedFailures == {"not-installed", "resume-unavailable", "io", "ambiguous", "reconcile"}
Replies == {"none", "ok", "replayed"} \cup Refusals \cup PlannedFailures

Planned == {"install", "resume", "project", "reproject", "receipt", "replace"}
Locked == Planned \cup {"read", "lookup", "reread", "clean", "arbitrate", "release"}
Unlocked == {"arbitrate-out", "clean-out"}
Labels == {"idle", "acquire", "wipe", "done", "crashed"} \cup Locked \cup Unlocked

NewTask == [revision |-> 0, last |-> Nothing, results |-> {}, terminal |-> FALSE]

Init ==
    /\ state = NewTask
    /\ receipts = [i \in Intents |-> Nothing]
    /\ manifests = {}
    /\ lock = NoClient
    /\ runtime = FALSE
    /\ world = 0
    /\ cleans = 0
    /\ wiping = FALSE
    /\ pc = [c \in Clients |-> "idle"]
    /\ call \in [Clients -> Call]      \* never read before Start sets it
    /\ seen = [c \in Clients |-> NewTask]
    /\ outcome = [c \in Clients |-> "none"]
    /\ reply = [c \in Clients |-> "none"]
    /\ log = <<>>

-----------------------------------------------------------------------------
(* What a call would commit over the state it read. *)

ManifestOf(t) == [request |-> t.request, world |-> t.world]

PlanOf(c) ==
    [intent |-> call[c].intent, request |-> call[c].request,
     world |-> call[c].world, prior |-> seen[c].revision]

(* The results of the next state: a fresh result takes the place of the one *)
(* recorded for the same request.                                           *)
ResultsAfter(s, t) ==
    IF t.request \in Installing
    THEN {m \in s.results : m.request # t.request} \cup {ManifestOf(t)}
    ELSE s.results

Committed(s, t) ==
    [revision |-> s.revision + 1, last |-> t, results |-> ResultsAfter(s, t),
     terminal |-> t.request \in Finishing]

FinalOf(c) == Committed(seen[c], PlanOf(c))

SameRequest(k, t) == k.request = t.request /\ k.world = t.world

(* What a stored transition answers to a call that repeats its intent. *)
DigestVerdict(k, t, same) ==
    IF k.world # t.world THEN "fingerprint"
    ELSE IF k.request # t.request THEN "mismatch" ELSE same

Goto(c, label) == pc' = [pc EXCEPT ![c] = label]
Complete(c, result) == outcome' = [outcome EXCEPT ![c] = result] /\ Goto(c, "release")

(* The caller is told the result and the call's locals die. *)
Return(c, result) ==
    /\ reply' = [reply EXCEPT ![c] = result]
    /\ outcome' = [outcome EXCEPT ![c] = "none"]
    /\ seen' = [seen EXCEPT ![c] = NewTask]
    /\ Goto(c, "done")

(* Receipts that post-commit cleanup keeps: the ones prepared over s. *)
RecoveryBuffer(t, s) == t # Nothing /\ t.prior = s.revision

(* What-if: cleanup forgets that a receipt may be a recovery buffer. *)
CleanupOfEverything(s) ==
    /\ receipts' = [i \in Intents |-> Nothing]
    /\ manifests' = manifests \cap s.results

(* A cleanup that finishes removes every stale receipt and unreferenced     *)
(* manifest; one that fails part way (its error is swallowed) removed some. *)
Cleanup(s) ==
    LET stale == {i \in Intents : receipts[i] # Nothing /\ ~RecoveryBuffer(receipts[i], s)}
    IN  \/ /\ receipts' = [i \in Intents |-> IF i \in stale THEN Nothing ELSE receipts[i]]
           /\ manifests' = manifests \cap s.results
        \/ \E gone \in SUBSET stale :
              /\ receipts' = [i \in Intents |-> IF i \in gone THEN Nothing ELSE receipts[i]]
              /\ UNCHANGED manifests

-----------------------------------------------------------------------------
(* The caller composed its request from a state it read at some revision and *)
(* a fingerprint it computed then, makes the intent directory and waits.     *)
Start(c) ==
    /\ pc[c] \in {"idle", "done", "crashed"}
    /\ \E i \in Intents, r \in Requests, w \in 0 .. world, e \in 0 .. state.revision :
          call' = [call EXCEPT ![c] = [intent |-> i, request |-> r, world |-> w, expected |-> e]]
    /\ runtime' = TRUE
    /\ reply' = [reply EXCEPT ![c] = "none"]
    /\ Goto(c, "acquire")
    /\ UNCHANGED <<state, receipts, manifests, lock, world, cleaner, seen, outcome, log>>

(* mkdir succeeds for exactly one caller. *)
Acquire(c) ==
    /\ pc[c] = "acquire"
    /\ runtime
    /\ lock = NoClient
    /\ lock' = c
    /\ Goto(c, "read")
    /\ UNCHANGED <<state, receipts, manifests, runtime, world, cleaner, call, seen, outcome, reply, log>>

(* What-if: a caller that timed out breaks the lock. *)
AcquireFailsAndBreaks(c) ==
    /\ pc[c] = "acquire"
    /\ lock # NoClient
    /\ Return(c, "io")
    /\ lock' = NoClient
    /\ UNCHANGED <<state, receipts, manifests, runtime, world, cleaner, call, log>>

(* What-if: no deadline on the lock. *)
AcquireFailsNever(c) ==
    /\ pc[c] = "acquire"
    /\ ~runtime
    /\ Return(c, "io")
    /\ UNCHANGED <<files, world, cleaner, call, log>>

(* The 250 ms deadline passed on a held lock, or the runtime directory is   *)
(* gone (mkdir fails with something other than EEXIST).                     *)
AcquireFails(c) ==
    /\ pc[c] = "acquire"
    /\ lock # NoClient \/ ~runtime
    /\ Return(c, "io")
    /\ UNCHANGED <<files, world, cleaner, call, log>>

(* The newest transition carries this call's intent: the call is a retry. *)
Claims(c) == state.last # Nothing /\ state.last.intent = call[c].intent

(* Under the lock: the state document, replay of the last transition, and   *)
(* the revision compare.                                                    *)
ReadState(c) ==
    /\ pc[c] = "read"
    /\ \/ Complete(c, "unreadable") /\ UNCHANGED seen
       \/ LET k == call[c] IN
          /\ seen' = [seen EXCEPT ![c] = state]
          /\ \/ /\ Claims(c)
                /\ Complete(c, IF k.expected \in {state.revision, state.last.prior}
                               THEN DigestVerdict(k, state.last, "replayed")
                               ELSE "conflict")
             \/ /\ ~Claims(c)
                /\ k.expected # state.revision
                /\ Complete(c, "conflict")
             \/ /\ ~Claims(c)
                /\ k.expected = state.revision
                /\ Goto(c, "lookup")
                /\ UNCHANGED outcome
    /\ UNCHANGED <<files, world, cleaner, call, reply, log>>

(* What-if: the planner does not reject a move on a terminal task. *)
PlanFreshWhenTerminal(c) ==
    /\ pc[c] = "lookup"
    /\ receipts[call[c].intent] = Nothing
    /\ seen[c].revision < MaxRevision
    /\ call[c].world = world
    /\ Goto(c, IF call[c].request \in Installing THEN "install" ELSE "receipt")
    /\ UNCHANGED <<files, world, cleaner, call, seen, outcome, reply, log>>

(* What-if: the receipt is written before the result is installed. *)
PlanFreshReceiptFirst(c) ==
    /\ pc[c] = "lookup"
    /\ receipts[call[c].intent] = Nothing
    /\ seen[c].revision < MaxRevision
    /\ call[c].world = world
    /\ ~seen[c].terminal
    /\ Goto(c, "receipt")
    /\ UNCHANGED <<files, world, cleaner, call, seen, outcome, reply, log>>

(* No receipt: identify the request against the live world and plan. The     *)
(* planner rejects every move on a terminal task.                            *)
PlanFresh(c) ==
    /\ pc[c] = "lookup"
    /\ receipts[call[c].intent] = Nothing
    /\ \/ seen[c].revision = MaxRevision /\ Complete(c, "ceiling")
       \/ /\ seen[c].revision < MaxRevision
          /\ call[c].world # world
          /\ Complete(c, "fingerprint")
       \/ /\ seen[c].revision < MaxRevision
          /\ call[c].world = world
          /\ seen[c].terminal
          /\ Complete(c, "rejected")
       \/ /\ seen[c].revision < MaxRevision
          /\ call[c].world = world
          /\ ~seen[c].terminal
          /\ Goto(c, IF call[c].request \in Installing THEN "install" ELSE "receipt")
          /\ UNCHANGED outcome
    /\ UNCHANGED <<files, world, cleaner, call, seen, reply, log>>

(* A receipt under this intent: resume it, or say why not. *)
HandleExisting(c) ==
    LET k == call[c]
        t == receipts[k.intent]
    IN  /\ pc[c] = "lookup"
        /\ t # Nothing
        /\ \/ /\ t.prior # seen[c].revision
              /\ Complete(c, IF t.prior > seen[c].revision THEN "future-receipt"
                             ELSE DigestVerdict(k, t, "not-current"))
           \/ /\ t.prior = seen[c].revision
              /\ k.world # world \/ ~SameRequest(k, t)
              /\ Complete(c, IF k.world # world THEN "fingerprint" ELSE "mismatch")
           \/ /\ t.prior = seen[c].revision
              /\ k.world = world /\ SameRequest(k, t)
              /\ Goto(c, IF k.request \in Installing THEN "resume" ELSE "replace")
              /\ UNCHANGED outcome
        /\ UNCHANGED <<files, world, cleaner, call, seen, reply, log>>

(* Payloads first and the manifest last: an interrupted or refused           *)
(* installation leaves no manifest.                                          *)
Install(c) ==
    /\ pc[c] = "install"
    /\ \/ /\ manifests' = manifests \cup {ManifestOf(PlanOf(c))}
          /\ Goto(c, "project")
          /\ UNCHANGED outcome
       \/ Complete(c, "not-installed") /\ UNCHANGED manifests
    /\ UNCHANGED <<state, receipts, lock, runtime, world, cleaner, call, seen, reply, log>>

(* What-if: a resumed call trusts its receipt and does not reload the result. *)
ResumeUnread(c) ==
    /\ pc[c] = "resume"
    /\ Goto(c, "reproject")
    /\ UNCHANGED <<files, world, cleaner, call, seen, outcome, reply, log>>

(* A resumed call reloads the result its receipt names; the receipt alone    *)
(* cannot rebuild it.                                                        *)
Resume(c) ==
    /\ pc[c] = "resume"
    /\ \/ /\ ManifestOf(PlanOf(c)) \in manifests
          /\ Goto(c, "reproject")
          /\ UNCHANGED outcome
       \/ /\ ManifestOf(PlanOf(c)) \notin manifests
          /\ Complete(c, "resume-unavailable")
    /\ UNCHANGED <<files, world, cleaner, call, seen, reply, log>>

(* The worktree projections of the result, before any receipt. *)
Project(c) ==
    /\ pc[c] \in {"project", "reproject"}
    /\ \/ /\ Goto(c, IF pc[c] = "project" THEN "receipt" ELSE "replace")
          /\ UNCHANGED outcome
       \/ Complete(c, "not-installed")
    /\ UNCHANGED <<files, world, cleaner, call, seen, reply, log>>

(* createExclusive: linked, refused before the link, or failed after trying  *)
(* to link, when the receipt may or may not be there.  A receipt that is     *)
(* already there is kept; a different one sends the call back to judge it.   *)
CreateReceipt(c) ==
    LET i == call[c].intent
        free == receipts[i] = Nothing
        linked == [receipts EXCEPT ![i] = IF free THEN PlanOf(c) ELSE @]
    IN  /\ pc[c] = "receipt"
        /\ runtime' = TRUE
        /\ \/ /\ receipts' = linked
              /\ Goto(c, IF linked[i] = PlanOf(c) THEN "replace" ELSE "lookup")
              /\ UNCHANGED outcome
           \/ Complete(c, "io") /\ UNCHANGED receipts
           \/ /\ receipts' \in {receipts, linked}
              /\ Goto(c, "arbitrate")
              /\ UNCHANGED outcome
        /\ UNCHANGED <<state, manifests, lock, world, cleaner, call, seen, reply, log>>

Commit(c) ==
    /\ state' = FinalOf(c)
    /\ log' = Append(log, PlanOf(c))

(* replace: renamed, failed before the rename, or failed after trying to     *)
(* rename, when state.json may or may not hold the new document.             *)
ReplaceState(c) ==
    /\ pc[c] = "replace"
    /\ \/ Commit(c) /\ Goto(c, "reread") /\ UNCHANGED outcome
       \/ Complete(c, "io") /\ UNCHANGED <<state, log>>
       \/ /\ Commit(c) \/ UNCHANGED <<state, log>>
          /\ Goto(c, "arbitrate")
          /\ UNCHANGED outcome
    /\ UNCHANGED <<receipts, manifests, lock, runtime, world, cleaner, call, seen, reply>>

(* The committed document is read back before success is reported. *)
Reread(c) ==
    /\ pc[c] = "reread"
    /\ \/ state = FinalOf(c) /\ Goto(c, "clean") /\ UNCHANGED outcome
       \/ Complete(c, "ambiguous")
    /\ UNCHANGED <<files, world, cleaner, call, seen, reply, log>>

(* What-if: cleanup works from the state document the call started from. *)
CleanStale(c) ==
    /\ pc[c] = "clean"
    /\ Cleanup(seen[c])
    /\ Complete(c, "ok")
    /\ UNCHANGED <<state, lock, runtime, world, cleaner, call, seen, reply, log>>

Clean(c) ==
    /\ pc[c] = "clean"
    /\ Cleanup(FinalOf(c))
    /\ Complete(c, "ok")
    /\ UNCHANGED <<state, lock, runtime, world, cleaner, call, seen, reply, log>>

(* What the durable state says of a write whose effect is unknown. *)
Verdict(c, unchanged) ==
    IF state = FinalOf(c) THEN "ok"
    ELSE IF state = seen[c] THEN unchanged
    ELSE "reconcile"

Arbitrate(c) ==
    /\ pc[c] = "arbitrate"
    /\ \/ /\ Verdict(c, "io") = "ok"
          /\ Goto(c, "clean")
          /\ UNCHANGED outcome
       \/ /\ Verdict(c, "io") # "ok"
          /\ Complete(c, Verdict(c, "io"))
       \/ Complete(c, "ambiguous")
    /\ UNCHANGED <<files, world, cleaner, call, seen, reply, log>>

Finished(c) == outcome[c] \in {"ok", "replayed"} /\ state.terminal

(* Leaving the locked section.  rmdir names the lock by its path.  A          *)
(* terminal task is wiped afterwards, outside the lock.                       *)
Release(c) ==
    /\ pc[c] = "release"
    /\ lock # NoClient
    /\ lock' = NoClient
    /\ IF Finished(c)
       THEN Goto(c, "wipe") /\ UNCHANGED <<seen, outcome, reply>>
       ELSE Return(c, outcome[c])
    /\ UNCHANGED <<state, receipts, manifests, runtime, world, cleaner, call, log>>

(* The call is over but the directory it made is still there. *)
Abandon(c) == lock' = IF lock = c THEN Orphan ELSE lock

(* What-if: a call that had a plan reports the failed release unarbitrated. *)
ReleaseFailsUnarbitrated(c) ==
    /\ pc[c] = "release"
    /\ IF Finished(c) THEN Goto(c, "wipe") /\ UNCHANGED <<lock, seen, outcome, reply>>
       ELSE Return(c, IF outcome[c] \in {"ok", "replayed"} THEN outcome[c] ELSE "io") /\ Abandon(c)
    /\ UNCHANGED <<state, receipts, manifests, runtime, world, cleaner, call, log>>

(* rmdir failed: success stands, a call that had a plan asks the durable      *)
(* state what became of it, any other reports the release.                    *)
ReleaseFails(c) ==
    /\ pc[c] = "release"
    /\ \/ /\ outcome[c] \in {"ok", "replayed"} /\ ~Finished(c)
          /\ Return(c, outcome[c])
          /\ Abandon(c)
       \/ /\ outcome[c] \in Refusals
          /\ Return(c, "io")
          /\ Abandon(c)
       \/ /\ Finished(c) \/ outcome[c] \in PlannedFailures
          /\ Goto(c, IF Finished(c) THEN "wipe" ELSE "arbitrate-out")
          /\ UNCHANGED <<lock, seen, outcome, reply>>
    /\ UNCHANGED <<state, receipts, manifests, runtime, world, cleaner, call, log>>

(* The same arbitration after the locked section ended; the failure the call *)
(* completed with stands when nothing changed.                                *)
ArbitrateOutside(c) ==
    /\ pc[c] = "arbitrate-out"
    /\ \/ /\ Verdict(c, outcome[c]) = "ok"
          /\ Goto(c, "clean-out")
          /\ UNCHANGED <<lock, seen, outcome, reply>>
       \/ /\ Verdict(c, outcome[c]) # "ok"
          /\ Return(c, Verdict(c, outcome[c]))
          /\ Abandon(c)
       \/ Return(c, "ambiguous") /\ Abandon(c)
    /\ UNCHANGED <<state, receipts, manifests, runtime, world, cleaner, call, log>>

CleanOutside(c) ==
    /\ pc[c] = "clean-out"
    /\ Cleanup(FinalOf(c))
    /\ Return(c, "ok")
    /\ Abandon(c)
    /\ UNCHANGED <<state, runtime, world, cleaner, call, log>>

(* rm -rf of the runtime directory: receipts, and whatever lock is there.     *)
WipeRuntime ==
    /\ runtime' = FALSE
    /\ receipts' = [i \in Intents |-> Nothing]
    /\ lock' = NoClient

Wipe(c) ==
    /\ pc[c] = "wipe"
    /\ \/ WipeRuntime
       \/ Abandon(c) /\ UNCHANGED <<runtime, receipts>>
    /\ Return(c, outcome[c])
    /\ UNCHANGED <<state, manifests, world, cleaner, call, log>>

Step(c) ==
    \/ Acquire(c) \/ AcquireFails(c) \/ ReadState(c) \/ PlanFresh(c) \/ HandleExisting(c)
    \/ Install(c) \/ Resume(c) \/ Project(c) \/ CreateReceipt(c) \/ ReplaceState(c)
    \/ Reread(c) \/ Clean(c) \/ Arbitrate(c) \/ Release(c) \/ ReleaseFails(c)
    \/ ArbitrateOutside(c) \/ CleanOutside(c) \/ Wipe(c)

(* The process dies where it stands; its lock directory stays. *)
Crash(c) ==
    /\ pc[c] \notin {"idle", "done", "crashed"}
    /\ Abandon(c)
    /\ outcome' = [outcome EXCEPT ![c] = "none"]
    /\ seen' = [seen EXCEPT ![c] = NewTask]
    /\ Goto(c, "crashed")
    /\ UNCHANGED <<state, receipts, manifests, runtime, world, cleaner, call, reply, log>>

(* A human confirmed no live writer; TaskLock has the steps of the repair. *)
RepairLock ==
    /\ lock = Orphan
    /\ lock' = NoClient
    /\ UNCHANGED <<state, receipts, manifests, runtime, world, cleaner, locals, log>>

(* `archflow-local clean`: under the lock, over the current state.  Its own  *)
(* crash or a failed rmdir leaves the lock directory behind.                 *)
LocalClean ==
    /\ cleans < MaxCleans
    /\ runtime /\ lock = NoClient
    /\ cleans' = cleans + 1
    /\ wiping' = state.terminal
    /\ lock' \in {NoClient, Orphan}
    /\ Cleanup(state)
    /\ UNCHANGED <<state, runtime, world, locals, log>>

(* A terminal task is then wiped, outside the lock. *)
LocalWipe ==
    /\ wiping
    /\ wiping' = FALSE
    /\ WipeRuntime
    /\ UNCHANGED <<state, manifests, world, cleans, locals, log>>

(* Something the fingerprint covers changed outside any transaction. *)
WorldChanges ==
    /\ world < MaxWorld
    /\ world' = world + 1
    /\ UNCHANGED <<files, cleaner, locals, log>>

Next ==
    \/ \E c \in Clients : Start(c) \/ Step(c) \/ Crash(c)
    \/ RepairLock \/ LocalClean \/ LocalWipe \/ WorldChanges

Spec == Init /\ [][Next]_vars

(* The process runs the call it started to its end unless it crashes. *)
FairSpec == Spec /\ \A c \in Clients : WF_vars(Step(c))

-----------------------------------------------------------------------------
(* Properties *)

TypeOK ==
    /\ state \in TaskState
    /\ receipts \in [Intents -> Transition \cup {Nothing}]
    /\ manifests \subseteq Manifest
    /\ lock \in Clients \cup {NoClient, Orphan}
    /\ runtime \in BOOLEAN
    /\ world \in Worlds
    /\ cleans \in 0 .. MaxCleans
    /\ wiping \in BOOLEAN
    /\ pc \in [Clients -> Labels]
    /\ call \in [Clients -> Call]
    /\ seen \in [Clients -> TaskState]
    /\ outcome \in [Clients -> Replies]
    /\ reply \in [Clients -> Replies]
    /\ log \in Seq(Transition)

Inside(c) == pc[c] \in Locked \cup Unlocked

(* Until the task is terminal, at most one call is between its lock mkdir and *)
(* its last write, counting the arbitration and the cleanup a call still does *)
(* after a failed rmdir.  (A terminal task's wipe removes a lock that another *)
(* call may hold.)                                                            *)
LockExcludes ==
    ~state.terminal =>
        \A c, d \in Clients : Inside(c) /\ Inside(d) => c = d

(* A call that is about to write still sees the durable state it read: its     *)
(* compare-and-swap cannot overwrite a commit it did not see.                 *)
NoLostUpdate == \A c \in Clients : pc[c] \in Planned => seen[c] = state

(* At every crash point the durable state names only results whose manifest   *)
(* and payloads are installed, whatever order calls, crashes and cleanups of   *)
(* other calls came in.                                                       *)
AuthorityInstalled == state.results \subseteq manifests

(* The revision is the number of commits and last_transition is the newest:    *)
(* a crash at any point leaves both sides of a commit or neither.              *)
StateIsNewestCommit ==
    /\ state.revision = Len(log)
    /\ state.last = IF log = <<>> THEN Nothing ELSE log[Len(log)]

(* Crash arbitration never has to guess: no receipt is ahead of the state, and *)
(* no call finds a third document where its own or its predecessor's must be.  *)
ArbitrationDecides ==
    /\ \A i \in Intents : receipts[i] # Nothing => receipts[i].prior <= state.revision
    /\ \A c \in Clients : outcome[c] \notin {"reconcile", "future-receipt"}
                            /\ reply[c] # "reconcile"

(* The retry of an interrupted call will meet its receipt and not the result   *)
(* the receipt names.                                                          *)
Stranded(i) ==
    /\ RecoveryBuffer(receipts[i], state)
    /\ receipts[i].request \in Installing
    /\ ManifestOf(receipts[i]) \notin manifests

(* Neither a crash nor the cleanup of another call strands an interrupted      *)
(* call: only a local clean does.  And as long as nobody installs that result  *)
(* again, a stranded call is never committed without it.                       *)
OnlyCleanStrands ==
    [][\A i \in Intents :
          /\ Stranded(i)' => Stranded(i) \/ cleans' # cleans
          /\ Stranded(i) /\ state' # state => state'.last.intent # i]_vars

(* While the state has not moved on, no cleanup takes away the receipt of an   *)
(* interrupted call (except with a terminal task's whole runtime).             *)
BuffersSurvive ==
    [][\A i \in Intents :
          RecoveryBuffer(receipts[i], state) /\ state' = state /\ ~state.terminal
          => receipts'[i] = receipts[i]]_vars

(* An intent that left a recovery buffer commits, from that revision, exactly  *)
(* the request it was prepared for: a retry cannot smuggle in another one.     *)
BufferBindsIntent ==
    [][\A i \in Intents :
          RecoveryBuffer(receipts[i], state) /\ state' # state /\ state'.last.intent = i
          => state'.last = receipts[i]]_vars

(* Nothing commits on a terminal task, although its wipe lets two calls in.    *)
TerminalIsFinal == [][state.terminal => state' = state]_vars

(* Every call whose process survives is answered, or its process crashed.      *)
EveryCallAnswered == \A c \in Clients : pc[c] = "acquire" ~> pc[c] \in {"done", "crashed"}

-----------------------------------------------------------------------------
(* The inductive invariant behind the safety properties. *)

(* A receipt belongs to the intent it is filed under, and neither a plan nor a *)
(* receipt starts at the last revision.                                        *)
Headroom ==
    /\ \A c \in Clients : pc[c] \in Planned => seen[c].revision < MaxRevision
    /\ \A i \in Intents : receipts[i] # Nothing =>
          receipts[i].prior < MaxRevision /\ receipts[i].intent = i

(* A receipt that can still be resumed was planned over a live task. *)
BuffersAreLive ==
    \A i \in Intents : receipts[i] # Nothing =>
        /\ receipts[i].prior <= state.revision
        /\ RecoveryBuffer(receipts[i], state) => ~state.terminal

(* Whoever is inside holds the lock directory, until a terminal wipe. *)
InsideHolds ==
    \A c \in Clients : Inside(c) /\ ~state.terminal => lock = c

(* The view of a call that will write is current. *)
IsFresh(c) ==
    /\ pc[c] = "lookup" => seen[c] = state
    /\ pc[c] \in Planned => seen[c] = state /\ ~state.terminal

PlansAreFresh == \A c \in Clients : IsFresh(c)

(* After the write: the state is the call's own document, or still the one it  *)
(* started from.                                                               *)
WriteKnown(c) ==
    /\ pc[c] \in {"reread", "clean", "clean-out"} => state = FinalOf(c)
    /\ \/ pc[c] \in {"arbitrate", "arbitrate-out"}
       \/ pc[c] = "release" /\ outcome[c] \in PlannedFailures
       => state \in {seen[c], FinalOf(c)}
    /\ pc[c] = "arbitrate-out" => outcome[c] \in PlannedFailures

WritesAreKnown == \A c \in Clients : WriteKnown(c)

(* A call past installation has its manifest. *)
HasResult(c) ==
    \/ pc[c] \in {"project", "reproject"}
    \/ pc[c] \in {"receipt", "replace"} /\ call[c].request \in Installing
    => ManifestOf(PlanOf(c)) \in manifests

ResultInstalled == \A c \in Clients : HasResult(c)

(* A call that resumes, or is about to replace the state, has filed exactly    *)
(* its own receipt.                                                            *)
HasFiled(c) ==
    pc[c] \in {"resume", "reproject", "replace"} => receipts[call[c].intent] = PlanOf(c)

ReceiptFiled == \A c \in Clients : HasFiled(c)

WipesAreLate ==
    /\ wiping => state.terminal
    /\ \A c \in Clients : pc[c] = "wipe" => state.terminal

KernelInv ==
    /\ TypeOK /\ Headroom /\ BuffersAreLive
    /\ InsideHolds /\ PlansAreFresh /\ WritesAreKnown /\ WipesAreLate
    /\ ResultInstalled /\ AuthorityInstalled
    /\ StateIsNewestCommit /\ ArbitrationDecides /\ ReceiptFiled

-----------------------------------------------------------------------------
(* The kernel implements the revision log.  A call counts as committed from    *)
(* the replace of state.json until it is answered.                             *)

HasCommitted(c) ==
    /\ pc[c] \in {"reread", "clean", "arbitrate", "release", "arbitrate-out", "clean-out", "wipe"}
    /\ outcome[c] \notin Refusals
    /\ seen[c].revision < Len(log)
    /\ log[seen[c].revision + 1] = PlanOf(c)

FateOf(c) ==
    IF pc[c] = "idle" THEN "idle"
    ELSE IF pc[c] = "crashed" THEN "unknown"
    ELSE IF pc[c] = "done"
    THEN IF reply[c] \in {"ok", "replayed"} THEN "ok"
         ELSE IF reply[c] \in {"ambiguous", "reconcile"} THEN "unknown" ELSE "refused"
    ELSE IF outcome[c] = "replayed" THEN "ok"
    ELSE IF HasCommitted(c) THEN "committed" ELSE "pending"

Promise == INSTANCE RevisionLog
    WITH Calls <- Call, fate <- [c \in Clients |-> FateOf(c)]

(* Every answer the kernel gives is one the atomic log would give.             *)
ImplementsRevisionLog == Promise!Spec
=============================================================================
