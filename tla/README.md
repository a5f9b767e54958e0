# Verification of ArchflowV2

ArchflowV2 is a TypeScript workflow engine: an MCP server and a local command
line that take a task through the phases prd, design, phase-design-N and
phase-impl-N, dispatch reviewers, ask a human at gates, and keep everything they
decide in files under `.archflow/tasks/<task>/`. Several processes (sessions,
the command line, a crashed server's successor) may act on one task at once, and
the files are all they share. This directory models the parts whose correctness
depends on that: TLA+ modules translated from `src/src`, TLC runs over small
instances, and TLAPS proofs for every value of the constants.

Paths below are relative to `src/` of the repository (so `src/state/lock.ts` is
`src/src/state/lock.ts` from the top).

## The system

### Inventory

| Component | State it keeps | Operations | What makes it hard |
|---|---|---|---|
| State transaction kernel (`state/transaction.ts`, `request.ts`, `atomic.ts`) | `state.json`, intent receipts, result manifests and payloads | run a transaction, replay, resume, arbitrate, clean up | crash between any two file effects, retries, writes whose effect is unknown |
| Task lock and repair (`state/lock.ts`, `repair.ts`) | `transient/.transaction-lock`, quarantined directories | acquire, release, inspect, remove | a path names different directories over time; inode reuse |
| Snapshots and projections (`state/snapshots.ts`) | files of one or several working trees | prepare, apply, roll back | a person edits the same files; several repositories, no common commit |
| Workspace cleanup (`state/workspace-cleanup.ts`) | everything durable state does not reference | clean after a commit, local clean, terminal wipe | what another interrupted call still needs |
| Workflow transitions (`state/transitions.ts`, `restart-authority.ts`, `mcp/handlers/state.ts`) | phase, step, attempt, result refs, approvals, settlements, restart history | produce, review, triage, re-entry, crossing, restart, recovery | authority that outlives the subject it was given for |
| Durable gates (`state/gates.ts` and helpers) | the open gate, decision archives | open, settle, enter revision, close | the archive and the state are two writes |
| Semantic actions (`state/semantic-actions.ts`, `next-action.ts`, `mcp/handlers/semantic.ts`) | none (derived) | offer and apply an action | an offer that is stale when applied |
| Results and evidence (`state/evidence-results.ts`, `production.ts`) | content-addressed manifests | prepare, authenticate, retain | evidence of an older subject |
| Reconciliation (`state/reconciliation*.ts`, `config-change.ts`) | drift records | discover, adopt a baseline | the world changes outside any transaction |
| Initialization and upgrade (`state/initialization.ts`, `init/`) | the first `state.json` | create, upgrade | a crash between reservation and first state |
| Review (`review/`) | none | fixed point over findings, effort policy | accepted findings carried over rounds |
| Dispatch (`dispatch/`) | `authority/dispatch-recovery.json`, child processes | dispatch, recover, route | the budget survives crashes; exit races deadline |
| MCP process (`mcp/server.ts`, `send-queue.ts`, `process-runner.ts`) | send queue, sessions | send, drain, shut down | back pressure and shutdown at once |
| Repository access (`repository/`), contracts (`contracts/`), command line (`local/`) | none | queries, schemas, commands | I/O and encoding |

Interactions: every durable change of a task goes through the kernel, which
holds the task lock; gates, the dispatch recovery record, initialization and the
command line take the same lock themselves. The state handler plans a transition
(pure) and gives it to the kernel; results are projected into the working trees
by the snapshot code, inside the kernel's locked section; after a commit the
kernel calls the cleanup. The semantic layer offers and composes calls to the
state handler. Reviewer processes and humans only enter through results and
decisions.

### What is hard, and the property that says so

`PROJECT.json` lists every hazard at its line with the properties about it. In
groups:

- two processes in one task, with lock failures, repairs and a terminal wipe
  that removes the lock from under a call: `NoLostUpdate`, `TerminalIsFinal`,
  `ImplementsTaskMutex`;
- a crash or an undecided write between any two file effects, and the retry of a
  call whose answer was lost: `AuthorityInstalled`, `BuffersSurvive`,
  `OnlyCleanStrands`, `ImplementsRevisionLog`, `EveryCallAnswered`;
- a person's edit racing an installation, and an installation failing half way:
  `OnlyRacedEditsLost`, `EndsAllOrNothing`, `LeftoversNeverCollide`;
- work observed in several repositories, file by file and twice, while a person
  goes on editing and committing: `OneMoment`, and refuted: `HonestWorkAccepted`;
- authority that outlives the work or the reset it was given for:
  `UpstreamAuthorized`, `AuthorityNeedsReview`, `ImplementsPhaseLedger`;
- a gate open in front of a human while sessions go on, and a human's request
  for changes crossing failures and resets: `OpenGateIsCurrent`,
  `UnreadableOnlyUnderRevision`, `HumanRevisionAnswered`;
- a planned bound that later phases re-derive: `BoundFits`;
- a decision that is archived and settled by different writes, perhaps of
  different calls, while HEAD and the configuration move: `AuthorityIsArchived`,
  `OpenIsAnswerable`, `EffectOnce`, `ArchivedIsSettled`;
- reviewers that run for minutes, die, hang or are cancelled, and a retry budget
  that has to outlive the process: `BudgetHolds`, `EvidenceIsCurrent`,
  `ChildrenHaveWorkspace`, `EveryReviewAnswered`;
- operations of several commits, planned from one snapshot, by agents that lose
  answers and send calls again: `RetryResumes`, `OfferedIsLegal`,
  `EffectsStayTogether`, `EveryApplyAnswered`, and refuted:
  `DecisionBindsItsGate`;
- a rule about rounds and settled findings that is recomputed from what was
  written before: `AdvanceIsReviewed`, `AcceptedIsAnswered`,
  `RoundsNeverInflated`, `LoopIsBounded`, `EveryRoundDecided`;
- back pressure, cancellation, the end of the input and signals in one event
  loop: `AnswersInOrder`, `NothingWaitsUnnoticed`, `EofEnds`, `SignalEnds`, and by
  proof alone `EofWaitsForHandlers`.

## Modules

| Module | Models | Composes with |
|---|---|---|
| `TaskKernel` | a call's path through `runStateTransaction`, one file effect per action | refines `RevisionLog`; assumes the lock of `TaskMutex` |
| `RevisionLog` | what callers may rely on: an atomic, append-only log with honest answers | abstract |
| `TaskLock` | each file system call of the lock and of its repair | refines `TaskMutex` |
| `TaskMutex` | a writer is inside only while it holds the lock; only a repair frees a stale one | abstract |
| `ProjectionInstall` | preparing, installing and rolling back a projection, one look or write per action | stands for `Project` in `TaskKernel`; a library without a specification |
| `WorkSubmission` | an implementation from its declared files to its durable result, over `ProjectionInstall` | its commit is one of `TaskKernel` |
| `TaskWorkflow` | the fixed workflow of one task: state handler, transition planner, gates, cutoffs | one action is one commit of `TaskKernel`; refines `PhaseLedger` |
| `PhaseLedger` | what the workflow promises about authority: a plain set of trusted subjects | abstract |
| `GateLifecycle` | a gate from its request file to its settled decision, one write per action | what `TaskWorkflow` takes as one commit |
| `ReviewDispatch` | the queue, the retry journal and the child processes of a counter-review | what `TaskWorkflow` and `ReviewRounds` take as one review |
| `ReviewRounds` | the review fixed point of one phase, with the steps that feed it | one action is one commit of `TaskKernel` |
| `SemanticActions` | status and apply: an operation as a sequence of substeps | a substep is a commit of `TaskKernel` or an archive of `GateLifecycle` |
| `SendQueue` | the ordered output of the server process, as functions of a pipe | used by `McpServer` |
| `McpServer` | line framer, runtime and process runner over the queue, one turn of the event loop per action | |
| `TaskKernelProofs` (with `TaskLock`), `TaskWorkflowProofs`, `GateLifecycleProofs`, `ReviewRoundsProofs`, `ReviewDispatchProofs`, `McpServerProofs`, `WorkSubmissionProofs`, `SemanticActionsProofs` | theorems and proofs | |
| `MC*` | sets, functions and symmetry for TLC | |

Operators commented "What-if" are plausible bugs of the definition that follows
them. No specification uses them; `PROJECT.json` ("mutants") pairs each with the
property that must catch it.

### TaskKernel

`state`, `receipts`, `manifests`, `lock`, `runtime` are the files; `pc`, `call`,
`seen`, `outcome`, `reply` are one call's locals; `log` is a history of commits
that no action reads. A call goes through

`Start` (the caller composed a request from a state and a fingerprint it once
saw) → `Acquire` / `AcquireFails` (mkdir, 250 ms deadline) → `ReadState` (replay
of the last transition, revision compare) → `PlanFresh` or `HandleExisting` (no
receipt, or one to resume or refuse) → `Install` / `Resume` → `Project` →
`CreateReceipt` → `ReplaceState` → `Reread` → `Clean` → `Release`.

Every write has three outcomes: done, surely not done, unknown
(`may_have_changed`); unknown goes to `Arbitrate`, which looks at `state.json`.
`ReleaseFails`, `ArbitrateOutside`, `CleanOutside` are the same after a failed
rmdir, when the code no longer holds itself to be inside. `Wipe` and
`LocalWipe` remove a terminal task's runtime directory *outside* the lock and
take whatever lock is in it. `Crash` may fall on any step; the lock directory
stays as `Orphan` until `RepairLock`. Data: a request is a model value that
either installs a result or not and finishes the task or not; the fingerprint of
config, evidence and Git position is a number `world`; a manifest is named by
request and fingerprint (content addressing). Not modelled here: schema
validation of the documents read (an unreadable one is an outcome of
`ReadState`), the second result of a counter review, directory fsyncs.

### TaskLock

Directories have an inode number and a birth; the code compares numbers and
millisecond time stamps, which may agree for two directories, so the model lets
only numbers tell them apart and pins a number while a handle is open. A writer
is `Ask`, `Mkdir` or `GiveUp`, `Rmdir`, `WriterDies`; a repair is `Lstat`, `Open`,
`Confirm` (the human, who is right at that moment), `Verify`, `Rename`,
`Check`, `Remove`, or `RepairFails` anywhere. `TaskKernel` uses the lock as
`TaskMutex` gives it, and the run `lock` shows that the protocol with one repair
at a time implements it. With two repairs it does not: see Observations.

### ProjectionInstall and WorkSubmission

The caller observes its declared files and sources of renames, repository by
repository (`Build`, `OpenRepository`, `ObserveOutput`, `ObserveSource`,
`Report`), and submits the artifact; the server looks again at every file and at
what the repositories report as changed (`Rescan`, `Verify`, `Recount`), captures
the before-images (`Capture`), and prepares, installs and records the result
(`Prepare`, `Install`, `Record`). A death between receipt and state leaves a
receipt to replay (`DieUnrecorded`, `Replay`). `content` are the trees, `head`
the tree of each HEAD, `seen` and `source` the artifact; a person saves, checks out
and commits at any step (`Save`, `Checkout`, `Commit`).

For an installation a file holds its before-image, its after-image, or something
else. `Plan` and `Check` go over all files; `Recheck`, `Look` and `Write` go
through each repository, `Undo*` backwards. `raced` remembers the edits made
after the last look. A throwing write may or may not have happened, and a rerun
meets what the last one left.

`together` is a history variable: the images of the artifact were all in the trees
at one moment. `OneMoment` says that work which becomes durable has it, unless three
saves, or a save and a call of git, come in between: then a file can be changed and
changed back between the two looks at it, which no comparison can see. A call of git
counts as two saves because it may change the file back and another one with it.
`Unwatched` are the files looked at for the last time whose before-image is not yet
captured, the sources of renames behind the loop included; an edit there, or between
an installer's last look and its write, is in `raced`.

Bounds: a file and room for another in each of two repositories, where the working
trees may hold a modified, moved, deleted, added or untouched file, two byte
strings, two saves, one Git call, one failing write at a time. Left out: the
index, parent documents, declared inputs, byte accounting, the secret scan;
design documents have one output and no rename.

### TaskWorkflow

One action is one committed revision of `state.json`: what `TaskKernel` shows
about a commit (it is made once, on the state it was planned for, or not at all)
is why the handlers may be modelled as atomic here. The variables are the fields
of the task state the decisions depend on:

| Variable | Field |
|---|---|
| `at` | `phase_instance`, `step`, `status`, `attempt` |
| `work`, `triage`, `predecessor` | the produce and triage references in `authoritative_results`, and the predecessor the produce result declares |
| `approved`, `settled` with `latest`, `resets` | `approvals`, `rule_settlements` (per subject, and which is the newest), `restart_history` with `milestone_recovery_history` |
| `gate`, `checkpoint` | `open_gate`, and `last_transition` when it is a settled decision to revise |
| `pendingHuman`, `pendingOverride` | `pending_human_revision`, `pending_validation_override` |
| `bound`, `terminal` | `planned_final_phase`, `terminal` |

Phases are numbered in workflow order: 1 is prd, 2 design, then planning and
implementation alternate. The steps are the handler's operations: `EnterStep`,
`Fail`, `Produce`, `Correct` (the editorial one-hop), `ReviseSimply` and
`ReviseSignificantly` (a human's request), `FinishReview`, `FinishTriage`,
`Advance`, `Complete`, `RequestOverride`; the gates' `OpenGate`, `Approve`,
`CloseGate`, `DecideRevision` with `EnterRevision` (connected host, two commits)
or `ReviseAtOnce` (local host, one), `AmendUpstream`; the resets `Restart`,
`RecoverMilestone`, `RecoverTrigger`; and the copies `RefreshBaseline` and
`SetCommitAuthority`.

Revisions. The code orders approvals, settlements and resets by the revision that
committed them, and only compares them with the resets. A record is therefore
stamped with one more than the number of resets before it, and `Eligible` asks
that every reset affecting the phase came earlier. A second settlement for the
same subject replaces the first in the model, because the code selects the latest
and a later one is at least as eligible. Digests bind their phase, so each phase
has its own possible results (`Results`), and what the approval rules may conclude
about them (`Conclusions`) is data: `none` when the configuration has no rule for
the phase, `wait` or `proceed`.

Guards. `Movable` and `Idle` are the planner's own refusals. Where the handler
would accept a call that status never offers (opening an approval gate for work
that has authority, advancing past the planned end), the guard is the offer: the
connected host only composes offered calls. `Readable` is the cross-field part
of the schema: every kernel commit has to satisfy it (`Readable'`), every read
requires it, and writing an opened gate does neither.

Left out: imported tasks and their audit gate, exhausted attempts and review
push-through, waivers, baseline adoption, several repositories, and the separate
adjudication result (a triage here stands for the review it closes). That a
milestone commit exists or disappeared is an observation the environment may make
at any time. `SetCommitAuthority` keeps the position: the handler takes it from the
call (`handlers/state.ts:551-553`), and the operator's command, its one caller, fills
in that of the state it read. The verdict `revise` of a triage stands for both things
that stop a simple revision, an accepted finding and the answer to revise.

`PhaseLedger` has no history: authority is a set of pairs of phase and subject.
Trust changes only where the task stands and for the work it holds, leaving a
phase takes it, going back withdraws it from everything revisited. The mapping
takes `trusted` to be the pairs for which `Authorized` holds.

### GateLifecycle

The files of `authority/decisions/<gate>/` are `request` and `archive`, the
gate's receipt is `receipt`, the interface document is `shown`, and `st` is the
task state reduced to what gates read and write; `call.next` is what the call in
progress still has to write. Opening writes the request, then the interface, then
the state that names the gate. A decision takes one of two ways: the connected
host archives it while the gate stays open and a later call settles it, after
installing a receipt where the choice earns one; the local command archives and
settles in one call. A settled revision leaves a checkpoint, from which
production is entered. Identities are digests of the request and the intent, so
asking the same again finds the same gate. `Retain` is the cleanup after a
commit: it removes the groups of files nothing refers to. `world` is HEAD, the
bytes of the worktree and the configuration, which move at any time.

`AuthenticApproval`, `AuthenticPushThrough`, `AuthenticOverride` and the waiver's
origin are the chains by which the code authenticates an authority it finds in
the state. `ArchivedIsSettled` assumes that the client of an open gate keeps
calling (weak fairness of the next write, of settling and of re-entering) and
excludes closures that are refused as things stand. Left out: the kinds
restore-collision, constitution-edit and migration-audit, which have the shapes
of adoption, revision and approval; the settlement of approval rules; decisions
in the format before archives.

### ReviewDispatch

A call waits in `fifo` for its turn in the process-wide queue, opens the review,
takes a workspace, seals an envelope and lets every role answer: from a retained
output, or from a child. `journal` is `authority/dispatch-recovery.json`, bound
to one subject; each entry counts the dispatches of one role, one envelope and one
human authorization. `op` is the operation of a role and its child, which may
exit, hang, be signalled by the deadline or an abort, and leave descendants that
hold its streams. The review commits when all roles have settled and the subject
is still the one that was sealed.

Bounds: two calls in one process, a reviewer with a judge and then with an effort
selector, two subjects, two dispatches per entry, one upset (crash, cancel, edit,
amendment, or a human's authorization to try again). Fairness: weak for every
step of a call and of its operations; a child may run for ever, its deadline
fires. Descendants that hold the streams are assumed to end: the code waits for
them (see Observations). A call may be answered by a refusal. An answer that cannot
become evidence fails its role after the dispatch was booked a success (`Built`); a
selector may have no route, and then settles by its default without a child. That the
first reason to stop a child names the outcome is in `ChildStop`, not in a property:
the properties are about what any order of exit, deadline, output cap and abort leaves
behind. Left out: the
command lines and output formats of each reviewer, version preflight, substitute
routes, attempt records.

### ReviewRounds

One phase. `at` is the cursor, `work`, `review` and `triage` the three results in
force, `gate`, `asked` and `pending` a human's part, `passes`, `approvals`,
`waivers` and `ruled` what was decided, each about some bytes. Nothing remembers
what the assessment said before: `Exact` and `Hop` say, from digests alone, which
evidence still speaks for the work, and `Next` of the assessment (`PolicyStep`,
`MustRevise`, `Count`, ...) follows. Production may submit any of three byte
strings, so bytes may come back; a correction names its predecessor. A phase
starts fresh or with an archived second review that awaits its triage.
`seen` is a history variable: which reviews were minted for which bytes, which
rounds were completed, what is owed.

Bounds: two rounds allowed, one human decision (with two, the safety properties
also hold, 2.5 million states), one failure or interruption, one minor
correction. Fairness: weak for the models' steps and for opening a gate; the
human, failures and interruptions owe nothing. A phase that ended or waits for
its human stops, so deadlock is not checked. `EveryRoundDecided` excludes two
dead ends of the code, `Stranded` and `Wedged` (see Observations), and
`LoopIsBounded` allows for one more autonomous round per human revision.
An implementation phase is a document none of whose archived answers is
editorial. Left out: material drift and upstream alignment of archived reviews,
the disposition ledger, effort reviews, migration audits, the running substep of
a triage.

The loop is driven along the offered actions. `Begin` enters the step the assessment
asks for, where the planner would let production start again from anywhere in the
phase (`transitions.ts:421-424`) and status re-enters it when material drifted
(`next-action.ts:637-638`): a caller that withdraws and redoes work outside the offers
is not counted by `LoopIsBounded`. `Count` has no branch for review evidence
of an older format without a round history, for which the code counts attempts
(`fixed-point.ts:55`). `SubmitMinor` asks for different bytes of an
implementation too, where the code checks that of documents only
(`evidence-results.ts:948`).

### SemanticActions

A client asks for status and holds an offer with its token; it may send the call,
and send it again, at any later time. Apply reads the task once, decides which
named substep of which operation comes first (`plan`), and commits one substep
after another with a fresh reading in between. A token is modelled as the offer
it is a digest of, an operation digest as the record it is computed from. A
review takes a turn of the server's dispatch queue (`queue`). A server may crash
between two substeps, recorded files may change (which calls for a baseline gate),
and a person may answer an open gate on the command line.

Bounds: two clients on one server or on two, the task at work, reviewed or
triaged, revisions up to 4 (new calls only), one crash, two changes of files.
Fairness: weak for every call's own step. Deadlock is not checked because the
bound on revisions ends every behaviour. `EffectsStayTogether` does not count
archived decisions, checkpoints, and the settlement of an empty review that
waited in the queue, of which it only says that it answers no review with findings
(a settlement that takes its turn without looking for that would need more revisions
to do harm than the run has; the theorem covers it); `OfferedIsLegal` does not count a stale gate that is answered
already, the settlement of another call's decision, and a settlement of an empty
review that is late or whose work is gone; `RetryResumes` does not count a triage
that such a settlement entered for newer work (see Observations). That last case
takes eight revisions, more than TLC can exhaust here: it was found by the proof,
which covers it. Changed files always lead to the gate here. Status has more to say of
them (`next-action.ts:479-536`): a produced subject or an upstream document that
drifted, or a result that is missing, re-enters production by `begin-work` without a
gate. These re-entries are left out, so the order of an operation's substeps is shown
for files that change into a gate only. Left out besides: waivers, exhausted
attempts, reopening, recoveries, the offers to commit, the rendering of a view.

### SendQueue and McpServer

A pipe is the queue of `createSendQueue` and the Node stream below it: what waits,
what is incomplete, what was handed to the stream (`wire`), the callbacks and the
drain it owes. `Pumped` gives every way a pump may end. `rt` is the runtime of the
SDK adapter: what the framer kept, the tokens of requests that owe an answer, the
handlers at work, the initialization gate, and its termination; `runner` is the
process runner with the first reason and the exit code; `host` is the other side.
Each action is one turn of the event loop, and microtasks run before the next
event (`Quiet`). `Deliver`, `EndInput`, `InputFails`, `Answer`, `WriteDone`,
`WriteFails`, `OutputFails`, `Drain`, `Microtask`, `CloseTail`, and `Start`,
`StartFails`, `Signal`, `Watch`, `CloseRuntime`, `Exit` of the runner.

Bounds: an initialize and two calls, one of them with a large answer, any four
frames, two entries and three bytes in the queue, two frames in the framer.
Fairness: only the process's own code, its microtasks and the steps of the runner.
`EofEnds` assumes besides that the others serve (`OthersServe`: handlers answer, the
stream calls back and drains). `SignalEnds` does not: a write that never calls back, a
handler that never answers or an output that never drains keeps no signalled process.
The host owes neither a frame nor the end of its input, and `start` need not resolve. A server nobody talks to stops, so deadlock is not
checked. Assumed of the host: it uses an id once, and cancels only tool calls.
The SDK and Node's stream are external: modelled from how the code uses them.

## Runs

| Run | Instance | Shows |
|---|---|---|
| `kernel` | 2 processes, 2 intents, 2 requests, 2 commits, 1 local clean | no lost update, installed authority, surviving buffers, results only the clean takes away, a final terminal state; the kernel implements `RevisionLog` |
| `live` | 2 processes, 1 commit that may finish the task, the fingerprint changes once, weak fairness per call | every call is answered |
| `lock` | 2 writers, 1 repair, 2 inode numbers, 4 directories | the protocol implements `TaskMutex` |
| `submission` | 2 repositories of 2 files, three trees, 2 saves, 1 commit or checkout, failing writes, deaths | work is recorded as it was at one moment; an installation ends with all or nothing, a rerun is not stopped by leftovers, saves are kept |
| `rename` | the same, nobody touches anything | violation, see Findings |
| `design` | 2 rounds, two designs (finite and open-ended), a rule that waits (prd), one that proceeds (design) and none (the rest), 2 attempts, 1 reset, 1 re-anchoring | authority, gates, human revisions, overrides and the bound, from prd to completion; the workflow implements `PhaseLedger` |
| `gates` | 2 gates of 6 kinds, 1 crash, 2 moves of the world | authority is archived, gates stay answerable, decisions take effect once and in the end |
| `dispatch` | 2 calls, 3 roles, 2 subjects, 1 upset | the budget, current evidence, workspaces; every review is answered |
| `review` | 3 byte strings, 2 rounds, 1 human decision, 1 failure, 1 minor correction | no unreviewed advance, accepted findings answered, rounds counted, a bounded loop |
| `actions` | 2 clients, 1 or 2 servers, 1 crash, 2 changes of files | substeps stay together, retries resume, offers are legal, calls are answered |
| `misdirected` | 2 clients on 2 servers, a baseline gate | violation, see Findings |
| `server` | 3 requests, 4 frames, a small queue, failing streams, signals | order, no forgotten message, the end of the input and a signal end the process |

Why the bounds are enough. Two calls are what it takes to race; a third behaves
like one of them after it ended, because a call may start again. Two commits
let a receipt be current, one behind and gone. Two directory numbers let one be
reused while another is in use; four directories let a repair meet a successor of
the successor. Two repositories of two files give a rollback a previous file in
the same repository, a previous repository, and a middle to fail in; two edits
can hit one file twice or the installed and the pending file. For the workflow, two
subjects in one phase are what it takes for authority to belong to other work than
the one that stands there; the remaining phases have one result because digests of
different phases never compare. One reset lets a record lie before and after it,
and two rounds are what later documents need to re-derive a bound. Two gates let a
second one be opened, superseded or confused with the first. Three byte strings
let work change, change again and come back. The proofs remove the bounds for the
properties they cover.

Deadlock is checked in `kernel`, `live` and `lock`. In the others
the system may stop: work that is recorded, a task that is completed, cancelled, waits for its human or
can no longer be read, a client that does not call again, a host that is silent.

Fairness. Weak fairness of a process's own steps: a Node process that started a
call and did not crash keeps running, and its file system calls return. There is
no fairness for starts, crashes, repairs, cleans, edits, failures or humans. It is
enough for the wait for the lock because the code's deadline always makes a step
possible; the sections of the modules say what else each run assumes.

## Proofs

`TaskKernelProofs` proves, for any sets of processes, intents and requests and
any bounds, `Spec => []KernelInv` and from it the type invariant, exclusion, no
lost update, installed authority, atomic commit, decided arbitration, and two
action properties: a terminal task never changes, and a recovery buffer binds
its intent. Assumptions: the named `ASSUME`s of `TaskKernel` (the installing and
finishing requests are requests, bounds are naturals, the special values are
none of the ordinary ones).

Why `KernelInv` is what it is. None of the safety properties is inductive:

- `NoLostUpdate` needs the lock, but a lock directory can be removed by a
  terminal wipe while a call is inside; so `InsideHolds` is claimed only while
  the task is not terminal, and `PlansAreFresh` adds that a call with a plan saw
  a task that is not terminal, hence two calls can be let in but never both have
  a plan.
- An undecided write needs `WritesAreKnown`: after it the state is either the
  call's own document or the one it read. This survives the wait outside the lock
  after a failed rmdir because the directory is still there.
- `AuthorityInstalled` is disturbed by cleanups from stale documents:
  `WritesAreKnown` says the document a cleanup uses is the current one, and
  `ResultInstalled` carries a call's manifest from installation to commit.
- `ArbitrationDecides` and `BufferBindsIntent` need that receipts are filed under
  their own intent (`Headroom`), never ahead of the state (`BuffersAreLive`), and
  that who replaces the state has filed exactly its plan (`ReceiptFiled`).

The proof has one step per action and below it one per conjunct of `KernelInv`
the action can disturb; the lemmas state what a cleanup, an ended call and an
abandoned lock preserve.

About `TaskLock` it proves, for any number of writers and repairs and any reuse
of numbers, that a repair removes only the directory it inspected. The invariant
(`RepairInv`) says that among the directories linked or pinned a number names one
directory, and that a repair past its open pins one.

`TaskWorkflowProofs` proves, for any number of rounds, any subjects and rule
conclusions, any plan each subject may record and any bounds on attempts, resets
and re-anchorings, the five state properties of the workflow's runs and
`ResetRevokes` and `HumanRevisionAnswered`. It assumes `WorkflowAssumption`: the
rules conclude only `none`, `wait` or `proceed`, results are subjects, and no
subject is the absent value. The invariant (`WorkflowInv`) adds three facts to
them:

- `StampsPast`: no record is stamped later than now. Without it a reset could
  fail to revoke a record "from the future", so `ResetRevokes` rests on it.
- `OneAsk`: nothing is asked of a completed task, and a checkpoint excludes an
  open gate and a pending revision. From it follows that a completed task takes
  no step, which is what keeps its last phase authorized.
- `AskedWorkExists`: a gate and its checkpoint ask about work that is there.

The argument goes over the shapes of a step rather than over each property and
each action. `StepShape` classifies every action once: it stays in its phase and
touches the results and authority of that phase only (`StaysInPhase`), or it
advances, completes, or is a reset. `StepAsks` says that a gate opens, a
checkpoint is left and a task completes by one action each, and that all but
four handlers check the cross-field rules. Each conjunct then follows from the
shapes: an upstream phase keeps its authority because steps that stay do not
reach it and resets go back past everything they affect (`EligibleAppend`).
None of this needs `MaxReanchors` to be zero: a revived settlement is a breach of
what the documentation says about revocation, not of upstream authority.

`McpServerProofs` proves, for any set of ids, any sizes of answers and any limits
of the queue and the framer, the type invariant, `AnswersInOrder`,
`NothingWaitsUnnoticed` and `EofWaitsForHandlers`. It assumes that initializes are
ids, that sizes and limits are numbers and that the absent value is not a
termination. `Sound` says of a pipe that what was accepted is what is on the wire
followed by what waits, and that only a stream that owes a drain pauses it.
`RtInv` adds three facts to the runtime's invariants: a framer that stopped kept
nothing, an open runtime has a token for every handler at work, and it has no
reason to end yet; without the second, "every token is settled" would not mean
"no handler is at work". Each operator of a turn gets a lemma that it keeps a
runtime sound and leaves its pipe alone or attended (`Turned`), so the actions,
which are compositions of these operators, need a few lines each.

Proved but not among the properties of a run, because the run's state space adds
nothing to a theorem for every instance: `StateIsNewestCommit`,
`ArbitrationDecides` and `BufferBindsIntent` of the kernel,
`RemovesOnlyInspected` of the lock's repair, `ResetRevokes` of the workflow,
`EofWaitsForHandlers` of the server, and the type invariants of these modules.

### Refinements

Each detailed specification is mapped step by step: the initial states of the one to
initial states of the other, every step to a step of the abstract specification or
to a stutter.

- `KernelIsRevisionLog`. The state file is the log and a call's place in the code is
  its place at the log's interface (`Inside`). `AnswerInv` adds to `KernelInv` what an
  answer is made of: an outcome belongs to the request of its call, and a call that
  writes has compared the revision it writes over. Crashes, temporary files, the
  removal of the lock and the cleanups map to stutters; the rename of the state file
  is the only step that appends.
- `LockIsMutex` needs `OneRepair`: with two repairs, one that was preempted after its
  verification renames whatever directory is at the path, and with it a live lock.
  That is a fact about the code (see Observations), so the theorem is stated with the
  hypothesis. `LockInv` says that a writer at work has its own directory at the path,
  so that one works at a time; that what a repair has confirmed belongs to no writer
  at work, then or later; and that a repair at its rename finds a directory there and
  nobody at work.
- `WorkflowIsLedger`. The trusted subjects of the ledger are the pairs the cutoffs
  leave authorized. The lemmas say what a settlement, an approval and a reset each do
  to that set (`SettleDecides`, `ApproveDecides`, `ResetDecides`), `StepGrants` says
  which of them a step is, and `AuthorityIsReviewed` follows from the same two.

### The kernel's receipts

`InterruptedCallKeepsReceipt` follows from `KernelInv`: every removal of a receipt
asks first whether it is a recovery buffer of the state that is there.
`OnlyACleanStrands` is about the result the receipt names, for any number of local
cleans: a step that leaves a resumable receipt without its result (`Stranded`) is a
local clean, and a stranded call commits only after somebody installed that result
again, because a call at its last write has its result (`CommitHasResult`). The first
half needs `NobodyPlannedOver`: from a commit until its call is answered or fails in a
way that was planned, every receipt was planned over an earlier state than the one it
committed, so that a result the call's cleanup removes is never one that somebody's
receipt still names (`ReachableStep`).

### Gates

`GateInv` holds for any number of gates and calls. `InOrder` numbers the openings,
so that a decision settled right after its opening cannot be settled again; `ChoiceFits`
and `OverrideFits` say that every archived decision is one the request allows;
`OpenStands` that what a request froze is still what the state shows; `CallStands`
what a call that has been overtaken by a crash may still do. The three
properties of `gates` are conjuncts of it or follow from it.

### Review rounds

`RoundsInv` has a part for each property and what those parts rest on. A review is
known by its number; `HistorySound` and `Minted` map the attempts of the history one
to one into the reviews that happened, so `CountedAreRounds` bounds the count from
above by an injection. `AloneRecorded` is the converse: since the last human decision
every review but the first has an entry of its own, since a step that only models
take raises the attempt. `AloneIsCounted` turns that into a lower bound of the count,
and `RoomLeft` into the bound of the loop: a round is begun below the limit, or for a
triage that has just spent a minor correction. The first review after a decision may
share its attempt with an earlier one, whence the one more of `LoopIsBounded`.
`Unjudged` and `OwedStands` say that a review nobody has triaged has not been pushed
through, so an accepted finding is passed over only by the round a human passed.
TLC checked the parts of `RoundsInv` as invariants of the run `review`.

### Dispatch of reviews

`DispatchInv` joins three arguments. The control: a call at work is the head of its
process's queue (`HasItsTurn`), only such a call has operations and each answers the
call's own envelope (`OpsBelong`), and they stay settled once all are (`DoneStays`);
`ChildrenHaveWorkspace` is a consequence, since two heads of one queue are one call.
The evidence: a call that found the tree edited when its last reviewer settled needs
somebody to restore it before it can authenticate the subject (`MatchedOrEdited`), and
a subject that has been reviewed is not open any more (`ReviewedOnce`). The budget:
`Accounts` says that while anything is spent on an envelope of the running review the
journal, bound to that review, has an entry without authorization that counts at least
as much. A lemma for each way the journal is written (`FailureBooked`,
`ObservationBooked`, `SuccessBooked`, `LaunchBooked`) shows that it is kept: what a
dispatch supersedes are other keys or failures over the same envelope, whose count it
carries on. What was spent on a subject that is past cannot grow, since only the
running review writes. The reviewers' steps differ in what they write and not in how
they move, so one lemma (`OperationSteps`) covers the control of all of them.

### Submitting and installing an implementation

`SubmissionInv` follows an implementation through three loops over its files, each of
which has files behind it and files ahead. The lemmas about `FirstOf`, `NextIn`,
`Following` and `Preceding` rest on the least and the greatest element of a finite
range of numbers; they say that a loop misses no file and takes none twice.

- Installing. `Installed` says what a file holds before and after its turn: checked
  and planned, written, or written back. A failed write may have happened, so only
  what the installer verified counts, and `Finished` is the outcome:
  `EndsAllOrNothing` and `LeftoversNeverCollide`. `Retained` is why a receipt can be
  replayed: each file nobody else changed holds its base or its new image.
- Watching. `Watched` and `Gathered` say that a file which was looked at for the last
  time and whose before-image is being captured holds what the artifact says, or was
  changed in that window. From it and `Installed` follows `OnlyRacedEditsLost`.
- One moment. `Recording` and `Spoiled` count the changes: while the artifact is
  recorded, without a change every recorded image is true and with one save at
  most one is false; once it is complete without having been true, somebody changed
  something, and a file that differs from its image is still ahead of the comparing
  loop, which will stop there. A second save can repair one image or spoil another,
  not both; a call of git can do both, so it counts twice.

Assumptions: at least one repository and room for one file in it, numbers as bounds,
trees over the images. TLC checked the parts of `SubmissionInv` as invariants of the
run `submission`. Two statements did not survive the attempt to prove them and were
corrected: `OneMoment` allowed a save together with a call of git, which can slip
through when a declared file is unmodified; and the sources of renames that a rebuilt
section has passed were missing from `Unwatched`.

### Status and apply

A client may send a call at any later time, so `SemanticInv` says of everything that
is kept, however old, what it still implies about the task that is there.

- `TaskInv`: `Positioned` relates the step, the status and the evidence; `Gated` says
  that a gate is open at the revision that opened it, over changed or over clean work;
  `Marked` what the last transition says of the position and of its operation, the
  only record of where an operation stopped; `Archived` that an archived decision is
  one of the choices of the open gate.
- `Issued` and `Begun` give the order that replaces freshness: a token is from this
  revision or an earlier one, and one from this revision is for this attempt and
  subject; an operation names a subject that is not newer than the task's, and while
  the subject stands the attempt does.
- `PlanInv`: `Planned` is what a plan carries through its substeps, `Waiting` what
  holds of a review in the queue as long as nothing was committed, `Joined` the
  substance of `EffectsStayTogether`, `Accepting` that of `OfferedIsLegal`.

A commit is proved once for all calls: `MovesTask` says that it leads to a position
that is sound, one revision on, without taking anything from the tokens, operations
and plans of others (`Moved`), and each substep is shown to be such a commit.
Continuing (`Refresh`), taking a turn and replaying leave the task alone and are
about the plan. `RetriesResume` then rebuilds, for a call that lost its answer, the
offer and the operation it began and shows that they are the ones planning computes.

Assumed: the absent value is not an operation, and a task is found in one of the
positions `Found` names. The type invariant leaves the contents of the queues out:
what a filter of a sequence returns is an induction over data. No property proved
here depends on the order of the queue.

TLC checked the parts of `SemanticInv` as invariants of instances like the run
`actions`. Three statements did not survive the attempt to prove them and were
corrected, all for the late settlement of an empty review: `RetryResumes` and
`OfferedIsLegal` claimed too much of it, and the type invariant too little of tokens
and operations to say so.

### Model-checked only

Liveness, and everything about fairness, is out of the prover's reach:
`EveryCallAnswered`, `EveryReviewAnswered`, `EveryRoundDecided`, `ArchivedIsSettled`,
`EveryApplyAnswered`, `EofEnds`, `SignalEnds` and what else the runs state with `~>`
stays with TLC.

## Findings

Each is a run that must fail, with the line it contradicts in `PROJECT.json`.

1. `misdirected`: a decision is planned for the gate that is open, and archived
   later, after a wait for the lock, for whatever gate is open then
   (`state/gates.ts:2001`). An answer given to one baseline gate can be recorded
   for files the human was not shown.
2. `rename`: an implementation that moves a file is built and verified, and its
   result is then refused. The before-image of the destination is captured from the
   tree that already holds the moved file, and the projection requires it to be
   absent (`snapshots.ts:704`).

### Observations

Behaviour met while modelling that the passing runs allow for or exclude by name,
and that a reader of the documentation may not expect.

Files and locks:

- A local clean keeps an interrupted call's receipt but removes the result the
  receipt names, so the retry is refused until the task has moved on
  (`local/commands.ts:185`). `OnlyCleanStrands` shows that nothing else does this, and
  that the retry does not commit without the result.
- A repair preempted between its verification and its rename moves whatever lock
  is at the path by then, perhaps a live one (`lock.ts:123`). It detects that and
  deletes nothing, but the path is free for a second writer. This is why `lock`
  runs one repair at a time.
- A write that throws in the middle of an installation ends it without the
  rollback that other refusals get (`snapshots.ts:780`); the rerun recognises the
  leftovers.
- The start of a task that crashes between the exclusive creation of its config or
  ask file and the write leaves an empty file that collides for ever; a start
  interrupted before a commit moved HEAD is refused for ever as an authority
  disagreement.

Authority and gates:

- A validation override asked for under a pending human revision opens a gate
  whose state the schema refuses on every read (`gates.ts:678` writes it
  unchecked). `UnreadableOnlyUnderRevision` shows that this is the only way to
  such a state.
- A produce that fails while a human revision is pending cannot be submitted
  again: the retry raises the attempt, and the pending revision names the old one
  (`Stranded` in `ReviewRounds`).
- `set-commit-authority` copies the phase's latest settlement to the new revision
  without asking whether a reset revoked it (`AuthorityNeedsReview` exempts the
  operator's hand, `PhaseLedger` has `Vouch` for it).
- A simple human revision that restores bytes an older no-wait settlement covers
  can leave the phase without the human.
- A finite approved design that is replaced by an open-ended one and then restored
  leaves its phase without `planned_final_phase` (`planned-final-phase.ts:149`).
- When HEAD moves while a design's approval is open, the approval is archived and
  its settlement refused for good.
- Waivers cleared by a milestone recovery lose their decisions to the next cleanup.

Review:

- A triage that asks for minor changes, followed by work that declares a
  significant revision, gets a fresh review and never counts as re-entry, so the
  round limit does not apply to such rounds (`fixed-point.ts:921`, `:969`).
  `MaxMinors` bounds them in the model.
- An interrupted review over unchanged bytes makes older evidence current again
  while the review runs, and status then offers what a running review refuses
  (`Wedged`).
- Two rounds that share an attempt are both dropped from the history
  (`fixed-point.ts:48`): rounds are undercounted, and a human loses the choice to
  push through.
- After a push-through with accepted and editorial findings in one triage, the
  editorial revision is reviewed again, which the push-through was to avoid.
- Waivers bind to the produced bytes while the fixed point looks for them on the
  bytes that were reviewed.
- Attempts of reviewers dispatched alternately with and without a human's
  authorization drop each other's failed entries (`dispatch/recovery.ts:156`).
- A reviewer that exits while a descendant holds its output is waited for:
  deadline and abort only signal while the direct child runs
  (`dispatch/process.ts:72`).

Agents and the server:

- The retry of a revision does not resume its operation: the old key is rebuilt
  from the current offer, which has no subject while work is produced
  (`status.ts:1516`).
- A completed task whose recorded files change later is offered a baseline gate.
- The settlement of an empty triage is planned before its call waits for the
  dispatch queue (`semantic-actions.ts:883`). When its turn comes after the work was
  revised and reviewed again, it enters the triage of the newer work under its own
  operation; the retry of that call is refused, and a client has to ask for status.
  `EffectsStayTogether` still says that it never answers a review that found something.
- A fresh triage with another decision continues under the interrupted one's digest.
- A request other than a tool call that is cancelled in the chunk it came in sends
  no answer and keeps its token, so the end of the input does not end the process
  (`mcp/sdk-adapter.ts:243`).
- At the end of the input the runtime ends when no request owes an answer, but an
  answer counts as given when it is queued (`mcp/sdk-adapter.ts:182`): if the
  stream fills again, queued answers are dropped and the process exits with 0.
- A queue that fails while paused, at the end of the input, ends the process with
  0: the drain observers run before the failure is reported.

## Plan

Left, in order: (1) initialization and the legacy upgrade, composed with
`TaskLock`; (2) reconciliation: what a baseline gate is opened for, and config
changes; (3) the milestones a commit is proven by; (4) `ask.md` and planning restarts; (5) waivers, exhausted attempts and
recoveries in `SemanticActions`; (6) imported tasks in `TaskWorkflow`.

## Not modelled

Schemas and canonical encoding (data whose shape the models take for granted),
path containment and Git queries (I/O without state), secret scanning, prompts
and rubrics, formatting of messages, assets, and the one-shot set-up of a
repository. `PROJECT.json` gives the status of every component.
