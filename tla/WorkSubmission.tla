---------------------------- MODULE WorkSubmission ----------------------------
(***************************************************************************)
(* Submitting an implementation: the declared files of every repository are *)
(* observed and compared with the base commits (state/implementation-       *)
(* manifest.ts, buildImplementationOutput), the artifact is submitted and    *)
(* verified against the trees once more (mcp/handlers/state-results.ts,      *)
(* prepareImplementationResult), a projection is planned and installed, and  *)
(* receipt and state make the work durable.  Every look at a file is a step  *)
(* of its own: a person goes on editing and committing while it runs, and    *)
(* the server may die between any two.                                       *)
(*                                                                          *)
(* The index, parent documents, declared inputs, byte accounting and the     *)
(* secret scan are left out.  A rename is found by its content, as Git does  *)
(* for a file that was moved unchanged.                                      *)
(***************************************************************************)
EXTENDS ProjectionInstall

CONSTANTS
    BaseTree,    \* what HEAD holds when the work starts: [Paths -> Images]
    WorkTrees,   \* what the working trees may hold when it is declared
    MaxGitCalls  \* bound: commits and checkouts a person makes meanwhile

ASSUME TreeAssumption == BaseTree \in [Paths -> Images] /\ WorkTrees \subseteq [Paths -> Images]
ASSUME BoundAssumption == MaxGitCalls \in Nat

Repositories == 1 .. Members

VARIABLES
    head,       \* the tree of each repository's HEAD
    moved,      \* how many commits each HEAD moved on
    gitCalls,   \* how often the person called git
    declared,   \* the outputs the caller declares
    bound,      \* the heads of the call's repository set
    gone,       \* files of the base the repository at hand had lost
    seen,       \* the artifact: after-images of the observed files
    source,     \* the artifact: where a renamed file came from
    report,     \* the artifact: undeclared changes
    submitted,  \* the artifact was built and handed to the server
    durable,    \* what of the result is durable: "nothing", "receipt", "state"
    together    \* the artifact's images were all in the trees at one moment

git == <<head, moved, gitCalls>>
artifact == <<seen, source, report>>
vars == <<content, plan, planned, pc, at, failing, result, ghosts, edits, git, declared, bound, gone,
          artifact, submitted, durable, together>>

Empty == [p \in Paths |-> Absent]

(* The work is declared against the heads of the moment: base commits. *)
Init ==
    /\ content \in WorkTrees
    /\ declared \in {D \in SUBSET Paths : D \cap FilesOf(1) # {}}
    /\ head = BaseTree /\ moved = [m \in Repositories |-> 0] /\ gitCalls = 0
    /\ bound = moved /\ gone = {}
    /\ seen = Empty /\ source = [p \in Paths |-> Nowhere] /\ report = {}
    /\ submitted = FALSE /\ durable = "nothing" /\ together = FALSE
    /\ scope = {} /\ before = Empty /\ after = Empty /\ planned = Empty
    /\ pc = "idle" /\ at = Nowhere /\ failing = 0 /\ result = "none"
    /\ written = {} /\ foreign = {} /\ raced = {} /\ edits = 0

Start(m) == <<m, 0>>

NextIn(S, p) == FirstOf({q \in S \cap FilesOf(p[1]) : Earlier(p, q)})

IsSource(p) == \E q \in declared : source[q] = p

(* sortedUniqueImplementationPaths: declared files and the sources of renames. *)
Scope == declared \cup {p \in Paths : IsSource(p)}

(* It is an error when a file is in the scope twice. *)
Conflicting(m) ==
    \E p, q \in declared \cap FilesOf(m) :
        source[p] # Nowhere /\ (source[p] = q \/ (p # q /\ source[p] = source[q]))

(* git status: what differs from HEAD outside the scope. *)
Undeclared(m) == {p \in FilesOf(m) \ Scope : content[p] # head[p]}

Deleted(m) == {p \in FilesOf(m) : BaseTree[p] # Absent /\ content[p] = Absent}

(* The one deleted file of the base with the same bytes, if there is one. *)
SourceOf(p) ==
    LET same == {q \in gone : BaseTree[q] = content[p]}
    IN  IF BaseTree[p] = Absent /\ content[p] # Absent /\ \E q \in same : same = {q}
        THEN FirstOf(same) ELSE Nowhere

(* The artifact is complete and its images are in the trees right now. *)
Holds ==
    /\ submitted \/ pc \in {"rescan", "verify", "submit"}
    /\ \A p \in Scope : content[p] = seen[p]

frame == <<content, plan, planned, failing, ghosts, edits, git, declared, durable>>

Refuse == Return("refused") /\ gone' = {}

Proceed(label, p) == Go(label, p) /\ UNCHANGED <<result, gone>>

-----------------------------------------------------------------------------
(* The builder *)

(* A call of the builder: the repository set is read anew, the artifact is new. *)
Build ==
    /\ pc = "idle" /\ ~submitted /\ result \notin {"refused"}
    /\ bound' = moved
    /\ seen' = Empty /\ source' = [p \in Paths |-> Nowhere] /\ report' = {}
    /\ Go("open", Start(1))
    /\ result' = "none"
    /\ UNCHANGED <<frame, gone, submitted>>

(* readRenameSources; a secondary repository must be at the commit that was     *)
(* named, the primary may have moved on.                                       *)
OpenRepository ==
    /\ pc = "open"
    /\ \/ /\ at[1] # 1 /\ bound[at[1]] # 0
          /\ Refuse
       \/ /\ at[1] = 1 \/ bound[at[1]] = 0
          /\ gone' = Deleted(at[1])
          /\ IF NextIn(declared, at) = Nowhere THEN Go("report", at)
             ELSE Go("observe", NextIn(declared, at))
          /\ UNCHANGED result
    /\ UNCHANGED <<frame, artifact, bound, submitted>>

Onward(p) ==
    IF NextIn(declared, p) = Nowhere THEN Proceed("report", Start(p[1]))
    ELSE Proceed("observe", NextIn(declared, p))

(* A secondary section is built twice, the second time by the server, and must  *)
(* come out the same: a look that differs ends in a refusal.                    *)
Differs(p, from) == submitted /\ (content[p] # seen[p] \/ from # source[p])

(* One declared file: added, modified, deleted or renamed, or in neither place. *)
ObserveOutput ==
    /\ pc = "observe"
    /\ LET missing == BaseTree[at] = Absent /\ content[at] = Absent
       IN  \/ /\ missing \/ Differs(at, SourceOf(at))
              /\ Refuse
              /\ UNCHANGED <<seen, source>>
           \/ /\ ~missing /\ ~Differs(at, SourceOf(at))
              /\ seen' = [seen EXCEPT ![at] = content[at]]
              /\ source' = [source EXCEPT ![at] = SourceOf(at)]
              /\ IF SourceOf(at) # Nowhere THEN Proceed("source", at) ELSE Onward(at)
    /\ UNCHANGED <<frame, report, bound, submitted>>

ObserveSource ==
    /\ pc = "source"
    /\ LET from == source[at]
       IN  \/ /\ Differs(from, source[from])
              /\ Refuse
              /\ UNCHANGED seen
           \/ /\ ~Differs(from, source[from])
              /\ seen' = [seen EXCEPT ![from] = content[from]]
              /\ Onward(at)
    /\ UNCHANGED <<frame, source, report, bound, submitted>>

(* Changes outside the scope are reported, not refused. *)
Report ==
    /\ pc = "report" /\ ~submitted
    /\ report' = report \cup Undeclared(at[1])
    /\ gone' = {}
    /\ IF at[1] < Members THEN Go("open", Start(at[1] + 1)) ELSE Go("rescan", Start(1))
    /\ UNCHANGED <<frame, seen, source, result, bound, submitted>>

-----------------------------------------------------------------------------
(* The server *)

(* The artifact goes to the server, whose call reads the repository set anew; a  *)
(* call that did not apply it is made again as long as no receipt resumes it.   *)
Submit ==
    /\ \/ pc = "submit"
       \/ pc = "idle" /\ submitted /\ durable = "nothing" /\ result \notin {"none", "applied"}
    /\ submitted' = TRUE
    /\ bound' = moved
    /\ raced' = {}
    /\ IF \A m \in 2 .. Members : moved[m] = 0
       THEN Go("rescan", Start(1)) /\ result' = "none"
       ELSE Return("refused")
    /\ UNCHANGED <<content, plan, planned, failing, written, foreign, edits, git, declared, durable,
                   artifact, gone>>

(* verifyImplementationManifest, at the end of the builder and again by the     *)
(* server: first the report, then every file of the primary's scope.            *)
Rescan ==
    /\ pc = "rescan"
    /\ LET same == Undeclared(1) = report \cap FilesOf(1)
       IN  IF same /\ ~Conflicting(1) THEN Proceed("verify", FirstOf(Scope)) ELSE Refuse
    /\ UNCHANGED <<frame, artifact, bound, submitted>>

Verified(p) ==
    IF NextIn(Scope, p) # Nowhere THEN Proceed("verify", NextIn(Scope, p))
    ELSE IF submitted THEN Proceed("capture", FirstOf(Scope)) ELSE Proceed("submit", Nowhere)

(* What-if: the files are not looked at again. *)
VerifyNothing ==
    /\ pc = "verify"
    /\ Verified(at)
    /\ UNCHANGED <<frame, artifact, bound, submitted>>

Verify ==
    /\ pc = "verify"
    /\ LET matches == content[at] = seen[at] /\ (IsSource(at) => content[at] = Absent)
       IN  IF matches THEN Verified(at) ELSE Refuse
    /\ UNCHANGED <<frame, artifact, bound, submitted>>

(* The plan of each repository is prepared before the next one is looked at; then  *)
(* everything is planned and the installer starts.                              *)
NextRepository(m) ==
    IF m < Members THEN Go("open", Start(m + 1)) /\ UNCHANGED <<scope, after, failing, written>>
    ELSE /\ Go("check", FirstOf(Scope))
         /\ scope' = Scope /\ after' = seen
         /\ failing' = 0 /\ written' = {}

(* verifyImplementationRepositorySection: the rebuilt section has ended. *)
Recount ==
    /\ pc = "report" /\ submitted
    /\ LET m == at[1]
           same == ~Conflicting(m) /\ Undeclared(m) = report \cap FilesOf(m)
       IN  \/ /\ ~same
              /\ Refuse
              /\ UNCHANGED <<scope, after, failing, written>>
           \/ /\ same /\ Scope \cap FilesOf(m) # {}
              /\ Proceed("capture", NextIn(Scope, at))
              /\ UNCHANGED <<scope, after, failing, written>>
           \/ /\ same /\ Scope \cap FilesOf(m) = {}
              /\ NextRepository(m)
              /\ UNCHANGED <<result, gone>>
    /\ UNCHANGED <<content, before, planned, foreign, raced, edits, git, declared, durable, artifact,
                   bound, submitted>>

(* prepareProjectionPlan takes a rename only into a file that was not there. *)
Paired(m) == \A p \in declared \cap FilesOf(m) : source[p] # Nowhere => before'[p] = Absent

(* The before-image of a file is whatever it holds now. *)
Capture ==
    /\ pc = "capture"
    /\ before' = [before EXCEPT ![at] = content[at]]
    /\ LET next == NextIn(Scope, at)
       IN  IF next # Nowhere THEN Proceed("capture", next)
           ELSE IF Paired(at[1]) THEN Proceed("prepare", NextIn(Scope, Start(at[1]))) ELSE Refuse
    /\ UNCHANGED <<content, scope, after, planned, failing, ghosts, edits, git, declared, durable,
                   artifact, bound, submitted>>

Prepare ==
    /\ pc = "prepare"
    /\ Observe
    /\ IF NextIn(Scope, at) # Nowhere
       THEN Go("prepare", NextIn(Scope, at)) /\ UNCHANGED <<scope, after, failing, written>>
       ELSE NextRepository(at[1])
    /\ UNCHANGED <<content, before, result, foreign, raced, edits, git, declared, durable, artifact,
                   bound, gone, submitted>>

(* Projections, then the receipt, then the state: each may be the last thing done. *)
Record ==
    /\ pc = "idle" /\ result = "applied" /\ durable # "state"
    /\ durable' = IF durable = "nothing" THEN "receipt" ELSE "state"
    /\ UNCHANGED <<content, plan, planned, pc, at, failing, result, ghosts, edits, git, declared,
                   bound, gone, artifact, submitted>>

(* The process dies between receipt and state. *)
DieUnrecorded ==
    /\ pc = "idle" /\ result = "applied" /\ durable # "state"
    /\ result' = "crashed"
    /\ UNCHANGED <<content, plan, planned, pc, at, failing, ghosts, edits, git, declared, durable,
                   bound, gone, artifact, submitted>>

(* A receipt is resumed from the retained result: the images of the base commits *)
(* and the retained after-images, without another look at the artifact.         *)
Replay ==
    /\ durable = "receipt" /\ result # "applied"
    /\ Begin(Scope, [p \in Paths |-> BaseTree[p]], seen)
    /\ bound' = moved
    /\ UNCHANGED <<content, planned, foreign, edits, git, declared, durable, gone, artifact, submitted>>

-----------------------------------------------------------------------------
(* The person *)

(* A declared file behind the loop, or the source of one. *)
Passed(p) ==
    \/ p \in declared /\ Earlier(p, at)
    \/ \E q \in declared : Earlier(q, at) /\ source[q] = p

(* Looked at for the last time, but the before-image is not yet captured. *)
Unwatched ==
    LET m == at[1]
    IN  CASE pc = "verify" /\ submitted -> {p \in FilesOf(1) : Earlier(p, at)}
          [] pc = "observe" /\ submitted -> {p \in FilesOf(m) : Passed(p)}
          [] pc = "source" /\ submitted -> {p \in FilesOf(m) : p = at \/ Passed(p)}
          [] pc = "report" /\ submitted -> FilesOf(m)
          [] pc = "capture" -> {p \in FilesOf(m) : ~Earlier(p, at)}
          [] OTHER -> {}

Exposed == AboutToWrite \cup Unwatched

others == <<declared, bound, gone, artifact, submitted, durable>>

Save == \E p \in Paths : Edit(p, Exposed) /\ UNCHANGED <<git, others>>

(* git checkout or stash: the tracked files are as committed again. *)
Checkout(m) ==
    /\ gitCalls < MaxGitCalls
    /\ gitCalls' = gitCalls + 1
    /\ Change([p \in Paths |-> IF p[1] = m /\ head[p] # Absent THEN head[p] ELSE content[p]], Exposed)
    /\ UNCHANGED <<edits, head, moved, others>>

Commit(m) ==
    /\ gitCalls < MaxGitCalls /\ \E p \in FilesOf(m) : head[p] # content[p]
    /\ gitCalls' = gitCalls + 1
    /\ head' = [p \in Paths |-> IF p[1] = m THEN content[p] ELSE head[p]]
    /\ moved' = [moved EXCEPT ![m] = @ + 1]
    /\ UNCHANGED <<content, plan, planned, pc, at, failing, result, ghosts, edits, others>>

Die == Crash /\ gone' = {} /\ UNCHANGED <<git, declared, bound, artifact, submitted, durable>>

Install == Installing /\ UNCHANGED <<git, others>>

Step ==
    \/ Build \/ OpenRepository \/ ObserveOutput \/ ObserveSource \/ Report
    \/ Submit \/ Rescan \/ Verify \/ Recount \/ Capture \/ Prepare
    \/ Install \/ Record \/ DieUnrecorded \/ Replay \/ Die
    \/ Save \/ \E m \in Repositories : Checkout(m) \/ Commit(m)

Next == Step /\ together' = (Holds' \/ (together /\ (submitted' \/ pc' # "open")))

Spec == Init /\ [][Next]_vars

-----------------------------------------------------------------------------
(* Properties *)

TypeOK ==
    /\ InstallTypeOK
    /\ gitCalls \in 0 .. MaxGitCalls
    /\ head \in [Paths -> Images] /\ moved \in [Repositories -> 0 .. MaxGitCalls]
    /\ bound \in [Repositories -> 0 .. MaxGitCalls]
    /\ declared \subseteq Paths /\ gone \subseteq Paths /\ report \subseteq Paths
    /\ seen \in [Paths -> Images] /\ source \in [Paths -> Paths \cup {Nowhere}]
    /\ {submitted, together} \subseteq BOOLEAN
    /\ durable \in {"nothing", "receipt", "state"}

(* What is applied and recorded is a state the trees were in at one moment: no    *)
(* mixture of before and after somebody's changes becomes the result, although   *)
(* its files are read one by one, in two processes (buildImplementationOutput,   *)
(* verifyImplementationManifest, prepareImplementationResult).  Two saved files  *)
(* are seen by the second look, and so is a call of git, which changes many.  It *)
(* takes more to slip through: a save that is undone between the looks by a      *)
(* call of git that changes another file as well.                                *)
OneMoment ==
    (pc = "check" \/ durable # "nothing") /\ edits + 2 * gitCalls < 3 => together

(* Submitting never overwrites what somebody saved meanwhile, except in the two   *)
(* windows the code leaves open: between the last look at a file and the capture  *)
(* of its before-image, and between the installer's last look and its write.     *)
OnlyRacedEditsLost ==
    [][\A p \in Paths :
          content'[p] # content[p] /\ edits' = edits /\ gitCalls' = gitCalls /\ content[p] \notin {BaseTree[p], after[p]}
          => p \in raced]_vars

(* A submission whose artifact is still true is not refused, whatever it declares *)
(* (skills/archflow-phase-impl: "declared add, modify, delete, and rename        *)
(* outputs").                                                                   *)
HonestWorkAccepted ==
    [][submitted /\ result' = "refused" /\ result # "refused" =>
          \/ ~Holds \/ report # UNION {Undeclared(m) : m \in Repositories}
          \/ \E m \in 2 .. Members : moved[m] # 0
          \/ \E m \in Repositories : Conflicting(m)]_vars
=============================================================================
