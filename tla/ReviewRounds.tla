---------------------------- MODULE ReviewRounds ----------------------------
(***************************************************************************)
(* The review fixed point of one phase (review/fixed-point.ts) with the    *)
(* transitions that feed it: work is produced, reviewed by an independent  *)
(* model against the constitution, triaged by the working model, revised,  *)
(* and in the end advanced under a human approval or a rule that asks for  *)
(* none.  The assessment is recomputed from durable state at every step    *)
(* and nothing remembers what it said before: which evidence still speaks  *)
(* for the current bytes is decided by digests alone.                      *)
(***************************************************************************)
EXTENDS Naturals, FiniteSets

CONSTANTS
    Subjects,      \* the bytes a production may submit; bytes may come back
    Maximum,       \* the repository's limit of completed review rounds
    MaxDecisions,  \* bound: human decisions
    MaxFailures,   \* bound: failed productions and interrupted reviews
    MaxMinors,     \* bound: triages that ask for an editorial change
    None

ASSUME RoundsAssumption ==
    /\ Maximum \in Nat \ {0}
    /\ MaxDecisions \in Nat /\ MaxFailures \in Nat /\ MaxMinors \in Nat
    /\ None \notin Subjects

VARIABLES
    kind,       \* "document" | "phase-design"; an implementation phase is a
                \* document none of whose archived answers is editorial
    at,         \* the cursor: step, status and attempt
    work,       \* the production in force and the predecessor it declares
    review,     \* the review in force with its constitution verdict
    triage,     \* the triage in force with the round history it carries
    gate,       \* the open human gate
    asked,      \* the revision a closed gate asks for and nobody has entered
    pending,    \* the human revision being produced
    passes,     \* rounds a human pushed through
    approvals,  \* approvals, each of bytes under one review
    waivers,    \* waived findings of the constitution, each on some bytes
    ruled,      \* bytes whose latest rule settlement asks for no human
    held,       \* the call that entered the review is still running it
    done,       \* "no" | "advanced" | "cancelled"
    spent,      \* human decisions, failures and editorial triages so far
    seen        \* what really happened, for the properties only

state == <<kind, at, work, review, triage, gate, asked, pending, passes,
           approvals, waivers, ruled, held, done>>

vars == <<state, spent, seen>>

Marks == {"accepted", "editorial", "escalated"}

Findings == {"fails", "matched"}

-----------------------------------------------------------------------------
(* Which evidence is current.                                              *)

\* Evidence speaks for the work itself: same bytes, same fingerprint.  The
\* rubric joins the fingerprint when the review is entered, so a production
\* that has just succeeded matches no evidence exactly.
Exact(subject) == subject = work.id /\ at.step # "produce"

\* What-if: work that declares any predecessor keeps whatever evidence there is.
HopAnywhere(subject) == work.from # None

\* Evidence speaks for the one predecessor the work declares.
Hop(subject) == work.from # None /\ work.from.on = subject /\ work.from.cycle

\* The retained triage asked for a minor correction, whichever round it is of.
MinorReuse == triage # None /\ "editorial" \in triage.marks

\* A phase design is bound to its exact bytes and attempt unless the change
\* was a minor one.
ReviewCurrent ==
    /\ review # None
    /\ IF kind = "phase-design" /\ ~MinorReuse
       THEN Exact(review.on) /\ review.attempt = at.attempt
       ELSE Exact(review.on) \/ Hop(review.on)

TriageCurrent ==
    /\ ReviewCurrent
    /\ triage # None /\ triage.review = review.id
    /\ Exact(triage.on) \/ Hop(triage.on)

\* The triage judged exactly these bytes.
Fresh == TriageCurrent /\ Exact(triage.on)

Marked(mark) == mark \in triage.marks

\* What-if: every attempt counts as a round, whether it was reviewed or not.
CountAttempts == IF review = None THEN 0 ELSE at.attempt

\* Completed rounds, one per attempt the history can vouch for.
Count ==
    IF triage = None THEN IF review = None THEN 0 ELSE 1
    ELSE LET counted == {r.attempt : r \in {r \in triage.history : r.attempt <= at.attempt}}
             open == /\ review # None
                     /\ \A r \in triage.history : r.review # review.id
                     /\ at.step = "triage" \/ (at.step = "counter_review" /\ at.status = "succeeded")
         IN  Cardinality(counted \union IF open THEN {at.attempt} ELSE {})

\* An approval of these bytes under the review in force.
Approved == review # None /\ [on |-> work.id, review |-> review.id] \in approvals

\* The accepted findings a human may push through: individual findings, in a
\* round the history proves to be at least the second.
Pushable ==
    /\ at.step = "triage" /\ at.status = "succeeded"
    /\ TriageCurrent /\ review.style = "structured" /\ Marked("accepted")
    /\ Cardinality(triage.history) >= 2
    /\ [attempt |-> at.attempt, review |-> review.id] \in triage.history

\* What-if: approving the bytes settles the accepted findings too.
AcceptedByApproval ==
    \/ Approved
    \/ Pushable /\ [attempt |-> at.attempt, on |-> work.id, review |-> review.id] \in passes

AcceptedSettled ==
    Pushable /\ [attempt |-> at.attempt, on |-> work.id, review |-> review.id] \in passes

\* A failed or matched rule is settled by approving these bytes under this
\* review, or by waiving every finding on the bytes that were reviewed.
PolicySettled ==
    \/ review.outcome = {}
    \/ Approved
    \/ \A what \in review.outcome : [on |-> review.on, what |-> what] \in waivers

-----------------------------------------------------------------------------
(* What the phase needs next.                                              *)

PolicyStep ==
    IF PolicySettled THEN "advance"
    ELSE IF "matched" \notin review.outcome /\ Count < Maximum THEN "policy"
    ELSE "adjudication"

Escalated == Fresh /\ Marked("escalated") /\ ~Approved

MustRevise ==
    /\ Fresh
    /\ \/ /\ Marked("accepted") /\ ~AcceptedSettled
          /\ at.step = "triage" /\ at.status = "succeeded"
       \/ Approved /\ Marked("editorial") /\ review.style = "structured"

MustPolish ==
    /\ Fresh /\ Marked("editorial") /\ ~Marked("escalated")
    /\ AcceptedSettled \/ ~Marked("accepted")

NextStep ==
    IF Escalated THEN IF PolicyStep = "advance" THEN "advance" ELSE "adjudication"
    ELSE IF MustRevise THEN "reentry"
    ELSE IF ~ReviewCurrent THEN "counter_review"
    ELSE IF ~TriageCurrent \/ (Marked("accepted") /\ ~AcceptedSettled) THEN "triage"
    ELSE IF MustPolish THEN "editorial"
    ELSE PolicyStep

\* Nothing is assessed while bytes are being written.
Assessed ==
    /\ done = "no" /\ gate = None /\ asked = None /\ ~held
    /\ ~(at.step = "produce" /\ at.status # "succeeded")

Needs(steps) == Assessed /\ NextStep \in steps

\* What-if: the limit is compared one round too late.
ExhaustedLate == NextStep \in {"reentry", "policy"} /\ Count > Maximum

Exhausted == NextStep \in {"reentry", "policy"} /\ Count >= Maximum

\* The phase may be left without asking anyone: approved under this review,
\* or under a rule; a pending constitution finding also wants an approval of
\* these bytes, under whatever review.
Free ==
    /\ ~Escalated
    /\ Approved \/ work.id \in ruled
    /\ NextStep = "adjudication" => \E a \in approvals : a.on = work.id

\* Rules are settled where a round ends well; with a constitution finding
\* pending they are settled too, for the one gate that will show both.
EndsWell(steps) == ~Escalated /\ NextStep \in steps

\* The rules decide for these bytes when the round ends well, either way.
Settle(steps) ==
    IF EndsWell(steps)'
    THEN ruled' \in {ruled \union {work'.id}, ruled \ {work'.id}}
    ELSE ruled' = ruled

-----------------------------------------------------------------------------
(* Initial states: a phase that has produced nothing, and one whose second *)
(* round, in the archived format of single findings, awaits its triage.    *)

Init ==
    /\ kind \in {"document", "phase-design"}
    /\ gate = None /\ asked = None /\ pending = None
    /\ passes = {} /\ approvals = {} /\ waivers = {} /\ ruled = {}
    /\ held = FALSE /\ done = "no"
    /\ spent = [decisions |-> 0, failures |-> 0, minors |-> 0]
    /\ \/ /\ at = [step |-> "produce", status |-> "running", attempt |-> 1]
          /\ work = None /\ review = None /\ triage = None
          /\ seen = [minted |-> 0, rounds |-> {}, alone |-> 0, owed |-> FALSE, hops |-> 0]
       \/ \E old, new \in Subjects, outcome \in SUBSET Findings :
             /\ old # new
             /\ at = [step |-> "counter_review", status |-> "succeeded", attempt |-> 2]
             /\ work = [id |-> new, from |-> None]
             /\ review = [id |-> 2, on |-> new, style |-> "structured", attempt |-> 2,
                          outcome |-> outcome]
             /\ triage = [on |-> old, review |-> 1, marks |-> {"accepted"},
                          history |-> {[attempt |-> 1, review |-> 1]}]
             /\ seen = [minted |-> 2, rounds |-> {1, 2}, alone |-> 2, owed |-> FALSE, hops |-> 0]

-----------------------------------------------------------------------------
(* Production.                                                             *)

Cursor(step, status) == [at EXCEPT !.step = step, !.status = status]

\* Open the write window for what the assessment asks; every such entry but
\* a human's counts an attempt.
Begin ==
    /\ Needs({"reentry", "policy", "editorial"}) /\ ~Exhausted
    /\ at' = [step |-> "produce", status |-> "running", attempt |-> at.attempt + 1]
    /\ UNCHANGED <<kind, work, review, triage, gate, asked, pending, passes,
                   approvals, waivers, ruled, held, done, spent, seen>>

Producing == done = "no" /\ gate = None /\ at.step = "produce" /\ at.status = "running"

\* The production in force is the one the retained triage judged, and that
\* triage asks for nothing but editorial changes.
RetainedEditorial ==
    /\ work # None /\ triage # None /\ review # None
    /\ triage.marks = {"editorial"} /\ triage.review = review.id
    /\ triage.on = work.id /\ triage.on = review.on

\* For the properties: how many changes of bytes separate the work from what
\* the review in force read.
Distance(subject) ==
    IF review # None /\ subject = review.on THEN 0
    ELSE IF work # None /\ subject = work.id THEN seen.hops
    ELSE seen.hops + 1

\* Submit a production that claims nothing of earlier evidence.
SubmitPlain(subject) ==
    /\ Producing /\ pending = None
    /\ work' = [id |-> subject, from |-> None]
    /\ at' = Cursor("produce", "succeeded")
    /\ seen' = [seen EXCEPT !.hops = Distance(subject)]
    /\ UNCHANGED <<kind, review, triage, gate, asked, pending, passes,
                   approvals, waivers, ruled, held, done, spent>>

\* Submit a minor correction that keeps the evidence of its predecessor.
SubmitMinor(subject) ==
    /\ Producing /\ pending = None
    /\ RetainedEditorial /\ subject # work.id
    /\ work' = [id |-> subject, from |-> [by |-> "minor", on |-> work.id, cycle |-> TRUE]]
    /\ at' = Cursor("produce", "succeeded")
    /\ seen' = [seen EXCEPT !.hops = Distance(subject)]
    /\ UNCHANGED <<kind, review, triage, gate, asked, pending, passes,
                   approvals, waivers, held, done, spent>>
    /\ Settle({"advance", "adjudication"})

\* A pending human revision is answered only in the attempt it was asked in,
\* and by other bytes.
Answers(subject) ==
    Producing /\ pending # None /\ at.attempt = pending.attempt /\ subject # pending.on

\* What-if: a simple revision is taken whatever its author accepted.
SimpleAlways == TRUE

\* A simple human revision cannot resolve an accepted finding.
SimpleAllowed == triage = None \/ ~Marked("accepted")

SubmitSimple(subject) ==
    /\ Answers(subject) /\ SimpleAllowed
    /\ work' = [id |-> subject,
                from |-> [by |-> "simple", on |-> pending.on, cycle |-> pending.cycle]]
    /\ at' = Cursor("produce", "succeeded")
    /\ pending' = None
    /\ seen' = [seen EXCEPT !.hops = Distance(subject)]
    /\ UNCHANGED <<kind, review, triage, gate, asked, passes, approvals, waivers,
                   ruled, held, done, spent>>

\* A significant one starts the rounds over and drops all evidence.
SubmitSignificant(subject) ==
    /\ Answers(subject)
    /\ work' = [id |-> subject, from |-> None]
    /\ at' = [step |-> "produce", status |-> "succeeded", attempt |-> 1]
    /\ review' = None /\ triage' = None /\ pending' = None
    /\ seen' = [seen EXCEPT !.hops = Distance(subject), !.rounds = {}, !.owed = FALSE]
    /\ UNCHANGED <<kind, gate, asked, passes, approvals, waivers, ruled, held, done, spent>>

Fail ==
    /\ Producing /\ spent.failures < MaxFailures
    /\ at' = Cursor("produce", "failed")
    /\ spent' = [spent EXCEPT !.failures = @ + 1]
    /\ UNCHANGED <<kind, work, review, triage, gate, asked, pending, passes,
                   approvals, waivers, ruled, held, done, seen>>

Retry ==
    /\ done = "no" /\ at.step = "produce" /\ at.status = "failed"
    /\ at' = [step |-> "produce", status |-> "running", attempt |-> at.attempt + 1]
    /\ UNCHANGED <<kind, work, review, triage, gate, asked, pending, passes,
                   approvals, waivers, ruled, held, done, spent, seen>>

-----------------------------------------------------------------------------
(* Review and triage.                                                      *)

\* One call enters the review and then runs it, in two transactions.
EnterReview ==
    /\ Needs({"counter_review"}) /\ at.step = "produce"
    /\ at' = Cursor("counter_review", "running")
    /\ held' = TRUE
    /\ UNCHANGED <<kind, work, review, triage, gate, asked, pending, passes,
                   approvals, waivers, ruled, done, spent, seen>>

Interrupt ==
    /\ held /\ spent.failures < MaxFailures
    /\ held' = FALSE
    /\ spent' = [spent EXCEPT !.failures = @ + 1]
    /\ UNCHANGED <<kind, at, work, review, triage, gate, asked, pending, passes,
                   approvals, waivers, ruled, done, seen>>

\* The review and its constitution verdict are installed together.  A call
\* that was interrupted runs it again only if the assessment still asks.
Review(outcome) ==
    /\ at.step = "counter_review" /\ at.status = "running"
    /\ held \/ Needs({"counter_review"})
    /\ review' = [id |-> seen.minted + 1, on |-> work.id, style |-> "report",
                  attempt |-> at.attempt, outcome |-> outcome]
    /\ at' = Cursor("counter_review", "succeeded")
    /\ held' = FALSE
    /\ seen' = [minted |-> seen.minted + 1, rounds |-> seen.rounds \union {seen.minted + 1},
                alone |-> seen.alone + 1, owed |-> FALSE, hops |-> 0]
    /\ UNCHANGED <<kind, work, triage, gate, asked, pending, passes, approvals,
                   waivers, ruled, done, spent>>

\* A report gets one answer; archived findings one each, and editorial ones
\* only in the planning documents.
Answerable(marks) ==
    IF review.style = "report" THEN Cardinality(marks) <= 1
    ELSE "editorial" \in marks => kind = "document"

\* The history gains this round; an attempt with two reviews proves none.
History ==
    LET past == IF triage = None THEN {} ELSE triage.history
        all == past \union {[attempt |-> at.attempt, review |-> review.id]}
    IN  {r \in all : \A other \in all : other.attempt = r.attempt => other = r}

Triage(marks) ==
    /\ Needs({"triage"}) /\ at.step = "counter_review" /\ at.status = "succeeded"
    /\ Answerable(marks)
    /\ IF "editorial" \in marks
       THEN spent.minors < MaxMinors /\ spent' = [spent EXCEPT !.minors = @ + 1]
       ELSE spent' = spent
    /\ triage' = [on |-> work.id, review |-> review.id, marks |-> marks, history |-> History]
    /\ at' = Cursor("triage", "succeeded")
    /\ seen' = [seen EXCEPT !.owed = "accepted" \in marks]
    /\ UNCHANGED <<kind, work, review, gate, asked, pending, passes, approvals,
                   waivers, held, done>>
    /\ Settle({"advance", "adjudication"})

-----------------------------------------------------------------------------
(* Human gates.                                                            *)

OpenGate ==
    /\ Assessed
    /\ \/ /\ Exhausted
          /\ gate' = [kind |-> "exhausted", on |-> work.id, review |-> review.id,
                      pushable |-> Pushable]
       \/ /\ NextStep \in {"advance", "adjudication"} /\ ~Free
          /\ gate' = [kind |-> "approval", on |-> work.id, review |-> review.id,
                      pushable |-> FALSE]
    /\ UNCHANGED <<kind, at, work, review, triage, asked, pending, passes,
                   approvals, waivers, ruled, held, done, spent, seen>>

\* A human decides the open gate, which closes.
Decides(kinds) ==
    /\ gate # None /\ gate.kind \in kinds /\ done = "no"
    /\ spent.decisions < MaxDecisions
    /\ spent' = [spent EXCEPT !.decisions = @ + 1]
    /\ gate' = None

Approve ==
    /\ Decides({"approval"})
    /\ approvals' = approvals \union {[on |-> gate.on, review |-> gate.review]}
    /\ seen' = [seen EXCEPT !.alone = 0]
    /\ UNCHANGED <<kind, at, work, review, triage, asked, pending, passes,
                   waivers, ruled, held, done>>

AskRevision ==
    /\ Decides({"approval", "exhausted"})
    /\ asked' = "human"
    /\ seen' = [seen EXCEPT !.alone = 0]
    /\ UNCHANGED <<kind, at, work, review, triage, pending, passes, approvals,
                   waivers, ruled, held, done>>

RetryOnce ==
    /\ Decides({"exhausted"})
    /\ asked' = "retry"
    /\ seen' = [seen EXCEPT !.alone = 0]
    /\ UNCHANGED <<kind, at, work, review, triage, pending, passes, approvals,
                   waivers, ruled, held, done>>

\* Accept the accepted findings as they stand, for this round only.
PushThrough ==
    /\ Decides({"exhausted"}) /\ gate.pushable
    /\ passes' = passes \union {[attempt |-> at.attempt, on |-> gate.on, review |-> gate.review]}
    /\ seen' = [seen EXCEPT !.alone = 0, !.owed = FALSE]
    /\ UNCHANGED <<kind, at, work, review, triage, asked, pending, approvals,
                   waivers, held, done>>
    /\ Settle({"advance"})

\* Waive a finding.  The waiver names the production's bytes, and the rules
\* are settled only at a triage or after a minor correction.
Waive(what) ==
    /\ Decides({"approval"}) /\ what \in review.outcome
    /\ waivers' = waivers \union {[on |-> gate.on, what |-> what]}
    /\ seen' = [seen EXCEPT !.alone = 0]
    /\ UNCHANGED <<kind, at, work, review, triage, asked, pending, passes,
                   approvals, held, done>>
    /\ IF at.step = "triage" \/ (work.from # None /\ work.from.by = "minor")
       THEN Settle({"advance"})
       ELSE ruled' = ruled

Cancel ==
    /\ Decides({"approval", "exhausted"})
    /\ done' = "cancelled"
    /\ UNCHANGED <<kind, at, work, review, triage, asked, pending, passes,
                   approvals, waivers, ruled, held, seen>>

\* Enter the revision the closed gate asked for: a human's own keeps the
\* attempt and remembers what it revises; one more try counts one.
EnterRevision ==
    /\ asked # None /\ done = "no"
    /\ asked' = None
    /\ at' = [step |-> "produce", status |-> "running",
              attempt |-> IF asked = "human" THEN at.attempt ELSE at.attempt + 1]
    /\ pending' = IF asked = "human"
                  THEN [on |-> work.id, cycle |-> at.step # "produce", attempt |-> at.attempt]
                  ELSE pending
    /\ UNCHANGED <<kind, work, review, triage, gate, passes, approvals, waivers,
                   ruled, held, done, spent, seen>>

Advance ==
    /\ Needs({"advance", "adjudication"}) /\ Free
    /\ at.step \in {"triage", "produce"} /\ at.status = "succeeded"
    /\ done' = "advanced"
    /\ UNCHANGED <<kind, at, work, review, triage, gate, asked, pending, passes,
                   approvals, waivers, ruled, held, spent, seen>>

-----------------------------------------------------------------------------
Submit ==
    \E subject \in Subjects :
        \/ SubmitPlain(subject)
        \/ SubmitMinor(subject)
        \/ SubmitSimple(subject)
        \/ SubmitSignificant(subject)

Reviewing == \E outcome \in SUBSET Findings : Review(outcome)

Triaging == \E marks \in SUBSET Marks : Triage(marks)

Human == Approve \/ AskRevision \/ RetryOnce \/ PushThrough \/ Cancel
         \/ \E what \in Findings : Waive(what)

Next ==
    \/ Begin \/ Submit \/ Fail \/ Retry
    \/ EnterReview \/ Interrupt \/ Reviewing \/ Triaging
    \/ OpenGate \/ Human \/ EnterRevision \/ Advance

Spec == Init /\ [][Next]_vars

\* The working client carries out what it is offered; nobody owes a failure,
\* an interruption or a human decision.
Fairness ==
    /\ WF_vars(Begin) /\ WF_vars(Submit) /\ WF_vars(Retry)
    /\ WF_vars(EnterReview) /\ WF_vars(Reviewing) /\ WF_vars(Triaging)
    /\ WF_vars(OpenGate) /\ WF_vars(EnterRevision) /\ WF_vars(Advance)

FairSpec == Spec /\ Fairness

-----------------------------------------------------------------------------
(* Properties.                                                             *)

\* Type invariant: the cursor, the evidence and the counters stay in range.
TypeOK ==
    /\ at \in [step : {"produce", "counter_review", "triage"},
               status : {"running", "succeeded", "failed"}, attempt : Nat \ {0}]
    /\ asked \in {None, "human", "retry"} /\ held \in BOOLEAN
    /\ done \in {"no", "advanced", "cancelled"}
    /\ approvals \subseteq [on : Subjects, review : Nat]
    /\ waivers \subseteq [on : Subjects, what : Findings]
    /\ passes \subseteq [attempt : Nat, on : Subjects, review : Nat]
    /\ ruled \subseteq Subjects

\* A phase is left, and its work put to a human for approval, only with bytes
\* an independent review read or bytes one authorised correction away from
\* them: corrections never chain, through any sequence of minor, simple,
\* failed and repeated productions (fixed-point.ts:70, evidence-results.ts:888).
AdvanceIsReviewed ==
    done = "advanced" \/ (gate # None /\ gate.kind = "approval") =>
        /\ review # None
        /\ \/ review.on = work.id
           \/ seen.hops <= 1 /\ work.from # None /\ work.from.on = review.on

\* A phase is not left over findings its author accepted: a later review
\* must have read another production, or a human must have pushed exactly
\* that round through, even when the same triage escalated other findings
\* and a human approved the bytes (fixed-point.ts:895, handlers/state.ts:850).
AcceptedIsAnswered == done = "advanced" => ~seen.owed

\* The count of completed rounds, which spends the limit and makes a round
\* eligible for a push-through, never exceeds the reviews that really
\* happened since the rounds last started over: failed productions, retries
\* and interrupted reviews count for nothing (fixed-point.ts:45).
RoundsNeverInflated ==
    /\ Count <= Cardinality(seen.rounds)
    /\ gate # None /\ gate.pushable => Cardinality(seen.rounds) >= 2

\* Left alone the models cannot revise and review for ever: a human is asked
\* after at most the limit of rounds, one more when a simple human revision
\* made two reviews share an attempt, and one more for each minor correction
\* whose author then called it significant (fixed-point.ts:969).
LoopIsBounded == seen.alone <= Maximum + 1 + spent.minors

\* A production retried during a human revision has another attempt than the
\* one the revision was asked in, and can no longer be submitted.
Stranded == pending # None /\ at.step = "produce" /\ at.attempt # pending.attempt

\* An interrupted review of bytes an earlier review already read: the old
\* evidence is current again, and what it asks for cannot be entered from a
\* running review.
Wedged ==
    /\ at.step = "counter_review" /\ at.status = "running" /\ ~held
    /\ NextStep = "triage" \/ (NextStep \in {"advance", "adjudication"} /\ Free)

\* Every round comes to a decision: again and again the phase stands at a
\* human gate, unless it is over or in one of the two dead ends
\* (fixed-point.ts:871, next-action.ts:650).
EveryRoundDecided ==
    []<>(gate # None \/ done # "no" \/ Stranded \/ Wedged)
=============================================================================
