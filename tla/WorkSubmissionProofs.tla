------------------------ MODULE WorkSubmissionProofs ------------------------
(***************************************************************************)
(* What submitting and installing an implementation promises, proved for   *)
(* any number of repositories, files, bytes, edits and calls of git.       *)
(***************************************************************************)
EXTENDS WorkSubmission, WellFoundedInduction, TLAPS

-----------------------------------------------------------------------------
(* The order of the files *)

Spots == Nat \X Nat

LEMMA LeastNumber ==
  ASSUME NEW T \in SUBSET Nat, T # {}
  PROVE  \E x \in T : \A y \in T : x <= y
<1> DEFINE R == OpToRel(<, Nat)
<1>1. IsWellFoundedOn(R, Nat)
  BY NatLessThanWellFounded
<1> HIDE DEF R
<1>2. PICK x \in T : \A y \in T : ~(<<y, x>> \in R)
  BY <1>1, WFMin
<1>3. \A y \in T : ~(y < x)
  BY <1>2 DEF R, OpToRel
<1> QED
  BY <1>3

LEMMA GreatestNumber ==
  ASSUME NEW n \in Nat, NEW T \in SUBSET (1 .. n), T # {}
  PROVE  \E x \in T : \A y \in T : y <= x
<1> DEFINE U == {k \in 0 .. n : n - k \in T}
<1>1. ASSUME NEW y \in T PROVE n - y \in U /\ y \in Nat /\ y <= n
  <2>1. y \in 1 .. n
    OBVIOUS
  <2>2. n - y \in 0 .. n /\ n - (n - y) = y
    BY <2>1
  <2> QED
    BY <2>1, <2>2
<1>2. U \in SUBSET Nat /\ U # {}
  <2>1. \A k \in U : k \in Nat
    OBVIOUS
  <2> HIDE DEF U
  <2>2. PICK y \in T : TRUE
    OBVIOUS
  <2> QED
    BY <1>1, <2>1, <2>2
<1>3. PICK u \in U : \A v \in U : u <= v
  BY <1>2, LeastNumber
<1>4. n - u \in T /\ u \in Nat
  BY <1>3
<1> HIDE DEF U
<1>5. \A y \in T : u <= n - y /\ y \in Nat
  BY <1>1, <1>3
<1> QED
  BY <1>4, <1>5

LEMMA FilesAre ==
  /\ Members \in Nat \ {0} /\ Entries \in Nat \ {0}
  /\ \A p \in Paths : p[1] \in 1 .. Members /\ p[2] \in 1 .. Entries /\ p = <<p[1], p[2]>>
  /\ \A p, q \in Paths : p[1] = q[1] /\ p[2] = q[2] => p = q
  /\ Nowhere \notin Paths
  BY SizeAssumption DEF Paths, Nowhere

LEMMA FilesAreSpots == Paths \subseteq Spots /\ \A m \in Repositories : Start(m) \in Spots
  BY FilesAre DEF Paths, Spots, Repositories, Start

LEMMA Trichotomy ==
  ASSUME NEW p \in Spots, NEW q \in Spots
  PROVE  /\ p # q => Earlier(p, q) \/ Earlier(q, p)
         /\ ~(Earlier(p, q) /\ Earlier(q, p)) /\ ~Earlier(p, p)
         /\ p[1] < q[1] => Earlier(p, q)
         /\ Earlier(p, q) => p[1] <= q[1]
  BY DEF Earlier, Spots

LEMMA EarlierGoesOn ==
  ASSUME NEW p \in Spots, NEW q \in Spots, NEW r \in Spots, Earlier(p, q), Earlier(q, r)
  PROVE  Earlier(p, r)
  BY DEF Earlier, Spots

LEMMA FirstIsThere ==
  ASSUME NEW S \in SUBSET Paths, S # {}
  PROVE  \E p \in S : \A q \in S \ {p} : Earlier(p, q)
<1> DEFINE Ms == {p[1] : p \in S}
<1>1. Ms \in SUBSET Nat /\ Ms # {}
  BY FilesAre
<1>2. PICK m \in Ms : \A k \in Ms : m <= k
  BY <1>1, LeastNumber
<1> DEFINE Es == {p[2] : p \in {q \in S : q[1] = m}}
<1>3. Es \in SUBSET Nat /\ Es # {}
  BY <1>2, FilesAre
<1>4. PICK e \in Es : \A k \in Es : e <= k
  BY <1>3, LeastNumber
<1>5. PICK p \in S : p[1] = m /\ p[2] = e
  BY <1>4
<1>6. ASSUME NEW q \in S \ {p} PROVE Earlier(p, q)
  <2>1. p[1] <= q[1]
    BY <1>2, <1>5
  <2>2. q[1] = p[1] => p[2] <= q[2]
    BY <1>4, <1>5
  <2> QED
    BY <1>6, <2>1, <2>2, FilesAre DEF Earlier
<1> QED
  BY <1>6

LEMMA LastIsThere ==
  ASSUME NEW S \in SUBSET Paths, S # {}
  PROVE  \E p \in S : \A q \in S \ {p} : Earlier(q, p)
<1> DEFINE Ms == {p[1] : p \in S}
<1>1. Ms \in SUBSET (1 .. Members) /\ Ms # {} /\ Members \in Nat /\ Entries \in Nat
  BY FilesAre
<1>2. PICK m \in Ms : \A k \in Ms : k <= m
  BY <1>1, GreatestNumber
<1> DEFINE Es == {p[2] : p \in {q \in S : q[1] = m}}
<1>3. Es \in SUBSET (1 .. Entries) /\ Es # {}
  BY <1>2, FilesAre
<1>4. PICK e \in Es : \A k \in Es : k <= e
  BY <1>1, <1>3, GreatestNumber
<1>5. PICK p \in S : p[1] = m /\ p[2] = e
  BY <1>4
<1>6. ASSUME NEW q \in S \ {p} PROVE Earlier(q, p)
  <2>1. q[1] <= p[1]
    BY <1>2, <1>5
  <2>2. q[1] = p[1] => q[2] <= p[2]
    BY <1>4, <1>5
  <2> QED
    BY <1>6, <2>1, <2>2, FilesAre DEF Earlier
<1> QED
  BY <1>6

(* What FirstOf and LastOf choose. *)
LEMMA FirstIs ==
  ASSUME NEW S \in SUBSET Paths
  PROVE  /\ S = {} => FirstOf(S) = Nowhere
         /\ S # {} => FirstOf(S) \in S /\ \A q \in S \ {FirstOf(S)} : Earlier(FirstOf(S), q)
  BY FirstIsThere DEF FirstOf

LEMMA LastIs ==
  ASSUME NEW S \in SUBSET Paths
  PROVE  /\ S = {} => LastOf(S) = Nowhere
         /\ S # {} => LastOf(S) \in S /\ \A q \in S \ {LastOf(S)} : Earlier(q, LastOf(S))
  BY LastIsThere DEF LastOf
-----------------------------------------------------------------------------
(* The invariant *)

Sections == {"open", "observe", "source", "report"}
Installs == {"plan", "check", "recheck", "look", "write", "undo", "undo-write"}
Writing == {"recheck", "look", "write"}
Undoing == {"undo", "undo-write"}

(* Where each loop may be. *)
Placed ==
  /\ pc \in Sections \cup Installs \cup {"idle", "rescan", "verify", "submit", "capture", "prepare"}
  /\ pc \in {"observe", "source"} => at \in declared /\ gone \subseteq FilesOf(at[1])
  /\ pc \in {"open", "report"} => \E m \in Repositories : at = Start(m)
  /\ pc = "source" => source[at] # Nowhere
  /\ pc = "rescan" => at = Start(1)
  /\ pc = "verify" => at \in Scope /\ at[1] = 1
  /\ pc \in {"capture", "prepare"} => at \in Scope /\ submitted
  /\ pc \in Installs => at \in scope /\ submitted
  /\ pc \in {"idle", "submit"} => at = Nowhere
  /\ pc = "submit" => ~submitted
  /\ submitted /\ pc \in Sections => at[1] # 1

(* The declaration and the artifact: the primary is in it, renames stay in     *)
(* their repository, and the installer's plan is the artifact's.               *)
Declared ==
  /\ declared \cap FilesOf(1) # {}
  /\ \A q \in Paths : source[q] # Nowhere => q \in declared /\ source[q] \in FilesOf(q[1])
  /\ pc \in Installs \/ Ended("applied") => scope = Scope /\ after = seen

(* What a result says of the phases behind it. *)
Phased ==
  /\ pc \notin {"idle"} \cup Undoing => result = "none"
  /\ pc \in Undoing => result \in {"rolled-back", "repair-required"}
  /\ Ended("applied") => submitted
  /\ durable # "nothing" => submitted /\ (pc = "idle" \/ pc \in Installs)
  /\ durable = "state" => Ended("applied")

(* The loop has looked at the file, comparing or recording it. *)
Looked(p) ==
  \/ pc \in {"open", "verify"} /\ Earlier(p, at)
  \/ pc = "observe" /\ Passed(p)
  \/ pc = "source" /\ (p = at \/ Passed(p))
  \/ pc \in {"report", "capture", "prepare"} /\ p[1] <= at[1]

(* Before-images are captured repository by repository, and then planned from. *)
Captured(p) ==
  \/ pc \in Sections \cup {"capture", "prepare"} /\ p[1] < at[1]
  \/ pc = "capture" /\ Earlier(p, at)
  \/ pc = "prepare" /\ p[1] = at[1]

Prepared(p) ==
  \/ pc \in Sections \cup {"capture", "prepare"} /\ p[1] < at[1]
  \/ pc = "prepare" /\ Earlier(p, at)

Gathered ==
  submitted => \A p \in Scope :
    /\ Captured(p) => /\ before[p] = content[p] \/ p \in foreign
                      /\ before[p] = seen[p] \/ p \in raced
    /\ Prepared(p) => planned[p] = content[p] \/ p \in foreign

(* Between the last look at a file and the capture of its before-image. *)
Watched ==
  submitted => \A p \in Scope :
    \/ pc \in Sections \cup {"verify"} /\ Looked(p) /\ p[1] = at[1]
    \/ pc = "capture" /\ p[1] = at[1] /\ ~Earlier(p, at)
    => content[p] = seen[p] \/ p \in raced

(* A file of the plan before and after its turn in the installer's loops. *)
Turned(p) == IF pc = "recheck" THEN p[1] < at[1] ELSE Earlier(p, at)

Installed ==
  /\ pc \in Installs => \A p \in scope : before[p] \in {BaseTree[p], after[p]} \/ p \in raced
  /\ pc \in {"plan", "check"} =>
       /\ written = {}
       /\ \A p \in scope \ foreign :
            /\ content[p] \in {before[p], after[p]}
            /\ pc = "check" \/ Earlier(p, at) => planned[p] = content[p]
  /\ pc = "check" => \A p \in scope : Earlier(p, at) => planned[p] \in {before[p], after[p]}
  /\ pc \in Writing \cup Undoing =>
       /\ \A p \in scope : planned[p] \in {before[p], after[p]}
       /\ \A p \in written : p \in scope /\ planned[p] # after[p]
  /\ pc \in Writing => \A p \in scope :
       IF Turned(p) THEN content[p] = after[p] \/ p \in foreign
       ELSE p \notin written /\ (content[p] = planned[p] \/ p \in foreign)
  /\ pc \in Undoing /\ result = "rolled-back" => \A p \in written : p = at \/ Earlier(p, at)
  /\ pc = "write" => planned[at] # after[at] /\ (content[at] = planned[at] \/ at \in raced)
  /\ pc = "undo-write" => content[at] = after[at] \/ at \in raced

(* A recorded result: what is in its files unless somebody changed them. *)
Retained ==
  durable # "nothing" =>
    /\ pc \in Installs => before = BaseTree
    /\ \A p \in Scope \ foreign : content[p] \in {BaseTree[p], seen[p]}

Finished ==
  /\ Ended("collision") => written = {} /\ foreign # {}
  /\ Ended("rolled-back") => written = {}
  /\ Ended("applied") => \A p \in scope \ foreign : content[p] = after[p]

(* What was changed so far, a call of git counting as two saves. *)
Upsets == edits + 2 * gitCalls

Bad(p) == content[p] # seen[p]

(* The artifact is still being recorded: one save spoils one image. *)
Recording ==
  ~submitted /\ pc \in Sections =>
    /\ Upsets = 0 => \A p \in Scope : Looked(p) => ~Bad(p)
    /\ Upsets = 1 => \A p, q \in Scope : Looked(p) /\ Looked(q) /\ Bad(p) /\ Bad(q) => p = q

(* The artifact is complete but was never true: the second look is still to    *)
(* come for a file that differs from its image.                                *)
Spoiled ==
  /\ Upsets # 0
  /\ Upsets = 1 => \A p, q \in Scope : Bad(p) /\ Bad(q) => p = q
  /\ \E p \in Scope : Bad(p) /\ (submitted => ~Looked(p))
  /\ pc \notin Installs /\ ~Ended("applied") /\ durable = "nothing"

Moment ==
  /\ Recording
  /\ (submitted \/ pc \in {"rescan", "verify", "submit"}) /\ ~together /\ Upsets < 3 => Spoiled
  /\ ~submitted /\ pc \in Sections => ~together

Shapes ==
  /\ content \in [Paths -> Images] /\ before \in [Paths -> Images]
  /\ after \in [Paths -> Images] /\ planned \in [Paths -> Images]
  /\ seen \in [Paths -> Images] /\ head \in [Paths -> Images]
  /\ scope \in SUBSET Paths /\ declared \in SUBSET Paths
  /\ gone \in SUBSET Paths /\ report \in SUBSET Paths
  /\ written \in SUBSET Paths /\ foreign \in SUBSET Paths /\ raced \in SUBSET Paths
  /\ source \in [Paths -> Paths \cup {Nowhere}]
  /\ failing \in 0 .. Members /\ result \in Results
  /\ edits \in 0 .. MaxEdits /\ gitCalls \in 0 .. MaxGitCalls
  /\ moved \in [Repositories -> 0 .. MaxGitCalls] /\ bound \in [Repositories -> 0 .. MaxGitCalls]
  /\ \A m \in Repositories : moved[m] <= gitCalls
  /\ submitted \in BOOLEAN /\ durable \in {"nothing", "receipt", "state"}

Core ==
  /\ Shapes /\ Placed /\ Declared /\ Phased
  /\ Gathered /\ Watched /\ Installed /\ Retained /\ Finished

SubmissionInv == Core /\ Moment /\ together \in BOOLEAN

(* The next file in a set, seen from a spot. *)
LEMMA NextIs ==
  ASSUME NEW S \in SUBSET Paths, NEW a \in Spots
  PROVE  LET n == NextIn(S, a)
         IN  /\ n # Nowhere => n \in S /\ n[1] = a[1] /\ Earlier(a, n)
             /\ n # Nowhere => \A q \in S : Earlier(q, n) => q = a \/ Earlier(q, a)
             /\ n = Nowhere => \A q \in S : q[1] <= a[1] => q = a \/ Earlier(q, a)
<1> DEFINE T == {q \in S \cap FilesOf(a[1]) : Earlier(a, q)}
           n == FirstOf(T)
<1>1. T \in SUBSET Paths /\ NextIn(S, a) = n /\ Nowhere \notin T
  BY FilesAre DEF NextIn
<1>2. /\ T = {} => n = Nowhere
      /\ T # {} => n \in T /\ \A q \in T \ {n} : Earlier(n, q)
  BY <1>1, FirstIs
<1>3. \A q \in S : q \in Spots /\ q \in Paths
  BY FilesAreSpots
<1>4. ASSUME NEW q \in S, q # a, ~Earlier(q, a)
      PROVE  Earlier(a, q) /\ a[1] <= q[1] /\ (q[1] = a[1] => q \in T)
  BY <1>3, <1>4, Trichotomy DEF FilesOf
<1> HIDE DEF n
<1>5. ASSUME n # Nowhere
      PROVE  /\ n \in S /\ n[1] = a[1] /\ Earlier(a, n)
             /\ \A q \in S : Earlier(q, n) => q = a \/ Earlier(q, a)
  <2>1. n \in T /\ \A q \in T \ {n} : Earlier(n, q)
    BY <1>2, <1>5
  <2>2. n \in S /\ n[1] = a[1] /\ Earlier(a, n) /\ n \in Spots
    BY <1>3, <2>1 DEF FilesOf
  <2> HIDE DEF T
  <2>3. ASSUME NEW q \in S, Earlier(q, n), q # a, ~Earlier(q, a) PROVE FALSE
    <3>1. q[1] <= n[1] /\ a[1] <= q[1] /\ q \in Spots
      BY <1>3, <1>4, <2>2, <2>3, Trichotomy
    <3>2. q \in T
      BY <1>4, <2>2, <2>3, <3>1 DEF Spots
    <3>3. q = n \/ Earlier(n, q)
      BY <2>1, <3>2
    <3> QED
      BY <2>2, <2>3, <3>1, <3>3, Trichotomy
  <2> QED
    BY <2>2, <2>3
<1>6. ASSUME n = Nowhere, NEW q \in S, q[1] <= a[1], q # a, ~Earlier(q, a) PROVE FALSE
  <2>1. T = {}
    BY <1>1, <1>2, <1>6
  <2> HIDE DEF T
  <2>2. q[1] = a[1]
    BY <1>3, <1>4, <1>6 DEF Spots
  <2> QED
    BY <1>4, <1>6, <2>1, <2>2
<1> QED
  BY <1>1, <1>5, <1>6

LEMMA FirstOfAll ==
  ASSUME NEW S \in SUBSET Paths
  PROVE  /\ FirstOf(S) = Nowhere <=> S = {}
         /\ S # {} => FirstOf(S) \in S /\ \A q \in S : ~Earlier(q, FirstOf(S))
<1>1. CASE S = {}
  BY <1>1, FirstIs
<1>2. CASE S # {}
  <2>1. FirstOf(S) \in S /\ \A q \in S \ {FirstOf(S)} : Earlier(FirstOf(S), q)
    BY <1>2, FirstIs
  <2>2. S \subseteq Spots /\ Nowhere \notin S
    BY FilesAreSpots, FilesAre
  <2> HIDE DEF Spots
  <2>3. \A q \in S : ~Earlier(q, FirstOf(S))
    BY <2>1, <2>2, Trichotomy
  <2> QED
    BY <1>2, <2>1, <2>2, <2>3
<1> QED
  BY <1>1, <1>2

LEMMA LastOfAll ==
  ASSUME NEW S \in SUBSET Paths
  PROVE  /\ LastOf(S) = Nowhere <=> S = {}
         /\ S # {} => LastOf(S) \in S /\ \A q \in S : q = LastOf(S) \/ Earlier(q, LastOf(S))
<1>1. Nowhere \notin S
  BY FilesAre
<1> QED
  BY <1>1, LastIs

(* The neighbours of a spot in the plan. *)
LEMMA FollowingIs ==
  ASSUME scope \in SUBSET Paths, NEW a \in Spots
  PROVE  /\ Following(a) # Nowhere =>
              /\ Following(a) \in scope /\ Earlier(a, Following(a))
              /\ \A q \in scope : Earlier(q, Following(a)) => q = a \/ Earlier(q, a)
         /\ Following(a) = Nowhere => \A q \in scope : q = a \/ Earlier(q, a)
<1> DEFINE T == {q \in scope : Earlier(a, q)}
<1>1. Following(a) = FirstOf(T) /\ T \in SUBSET Paths /\ scope \subseteq Spots
  BY FilesAreSpots DEF Following
<1>2. \A q \in scope : q = a \/ Earlier(q, a) \/ q \in T
  BY <1>1, Trichotomy
<1>3. \A q \in T : q \in scope /\ Earlier(a, q)
  OBVIOUS
<1> HIDE DEF T
<1> QED
  BY <1>1, <1>2, <1>3, FirstOfAll

LEMMA PrecedingIs ==
  ASSUME scope \in SUBSET Paths, NEW a \in Spots
  PROVE  /\ Preceding(a) # Nowhere =>
              /\ Preceding(a) \in scope /\ Earlier(Preceding(a), a)
              /\ \A q \in scope : Earlier(q, a) => q = Preceding(a) \/ Earlier(q, Preceding(a))
         /\ Preceding(a) = Nowhere => \A q \in scope : ~Earlier(q, a)
<1> DEFINE T == {q \in scope : Earlier(q, a)}
<1>1. Preceding(a) = LastOf(T) /\ T \in SUBSET Paths
  BY DEF Preceding
<1>2. \A q \in scope : Earlier(q, a) <=> q \in T
  OBVIOUS
<1>3. \A q \in T : q \in scope
  OBVIOUS
<1> HIDE DEF T
<1> QED
  BY <1>1, <1>2, <1>3, LastOfAll


-----------------------------------------------------------------------------
(* Types *)

LEMMA ShapesAreTypes ==
  /\ Shapes /\ together \in BOOLEAN => TypeOK
  /\ TypeOK /\ (\A m \in Repositories : moved[m] <= gitCalls) => Shapes
  BY DEF TypeOK, InstallTypeOK, Shapes

LEMMA ImagesAre ==
  /\ Absent \in Images /\ BaseTree \in [Paths -> Images] /\ WorkTrees \subseteq [Paths -> Images]
  /\ Empty \in [Paths -> Images] /\ MaxEdits \in Nat /\ MaxGitCalls \in Nat
  /\ [p \in Paths |-> BaseTree[p]] = BaseTree
  BY TreeAssumption, LimitAssumption, BoundAssumption DEF Images, Empty

LEMMA ScopeIs ==
  ASSUME Shapes
  PROVE  /\ Scope \in SUBSET Paths /\ declared \subseteq Scope
         /\ \A p \in Scope : p \in declared \/ \E q \in declared : source[q] = p
         /\ \A q \in declared : source[q] # Nowhere => source[q] \in Scope
<1>1. \A q \in declared : q \in Paths
  BY DEF Shapes
<1>2. \A q \in declared : source[q] # Nowhere => source[q] \in Paths
  BY <1>1 DEF Shapes
<1> QED
  BY <1>1, <1>2 DEF Scope, IsSource

(* Renames stay in their repository, and so does what the loop has passed. *)
LEMMA SourcesStay ==
  ASSUME Shapes, Declared, NEW p \in Scope
  PROVE  p \in declared \/ \E q \in declared : source[q] = p /\ q[1] = p[1] /\ q \in Paths
<1>1. \A q \in declared : q \in Paths
  BY DEF Shapes
<1>2. ASSUME NEW q \in declared, source[q] = p PROVE q[1] = p[1]
  <2>1. p \in Paths
    BY ScopeIs
  <2>2. source[q] # Nowhere /\ q \in Paths
    BY <1>1, <1>2, <2>1, FilesAre
  <2>3. source[q] \in FilesOf(q[1])
    BY <2>2 DEF Declared
  <2> QED
    BY <1>2, <2>3 DEF FilesOf
<1> QED
  BY <1>1, <1>2, ScopeIs

(* The primary is in the declaration. *)
LEMMA PrimaryFirst ==
  ASSUME Shapes, Declared
  PROVE  FirstOf(Scope) \in Scope /\ FirstOf(Scope)[1] = 1
<1>1. Scope \in SUBSET Paths /\ declared \subseteq Scope
  BY ScopeIs
<1>2. PICK p \in Scope : p[1] = 1
  BY <1>1 DEF Declared, FilesOf
<1>3. FirstOf(Scope) \in Scope /\ ~Earlier(p, FirstOf(Scope))
  BY <1>1, <1>2, FirstOfAll
<1>4. p \in Spots /\ FirstOf(Scope) \in Paths /\ FirstOf(Scope) \in Spots
  BY <1>1, <1>2, <1>3, FilesAreSpots
<1>5. FirstOf(Scope)[1] \in 1 .. Members
  BY <1>4, FilesAre
<1> HIDE DEF Scope
<1>6. ~(1 < FirstOf(Scope)[1])
  BY <1>2, <1>3, <1>4, Trichotomy
<1> QED
  BY <1>3, <1>5, <1>6, FilesAre

LEMMA SourceIs ==
  ASSUME Shapes, NEW p
  PROVE  SourceOf(p) # Nowhere => SourceOf(p) \in gone
<1> DEFINE same == {q \in gone : BaseTree[q] = content[p]}
<1>1. same \in SUBSET Paths /\ same \subseteq gone
  BY DEF Shapes
<1> HIDE DEF same
<1>2. FirstOf(same) # Nowhere => FirstOf(same) \in same
  BY <1>1, FirstIs
<1> QED
  BY <1>1, <1>2 DEF SourceOf, same

LEMMA LostIs == \A m : Deleted(m) \subseteq FilesOf(m) /\ FilesOf(m) \subseteq Paths
  BY DEF Deleted, FilesOf

LEMMA SpotsAre ==
  ASSUME Shapes, Placed
  PROVE  /\ at \in Spots \/ pc \in {"idle", "submit"}
         /\ pc \in {"observe", "source", "verify", "capture", "prepare"} \cup Installs => at \in Paths
         /\ pc \in Sections \cup {"capture", "prepare"} => at[1] \in Repositories
<1>1. Scope \in SUBSET Paths /\ declared \in SUBSET Paths /\ scope \in SUBSET Paths
  BY ScopeIs DEF Shapes
<1>2. pc \in {"observe", "source", "verify", "capture", "prepare"} \cup Installs => at \in Paths
  BY <1>1 DEF Placed
<1>3. pc \in {"open", "report"} => \E m \in Repositories : at = Start(m)
  BY DEF Placed
<1>4. pc = "rescan" => at = Start(1) /\ 1 \in Repositories
  BY FilesAre DEF Placed, Repositories
<1>5. pc \in Sections \cup {"capture", "prepare"} => at[1] \in Repositories
  BY <1>2, <1>3, FilesAre DEF Sections, Repositories, Start
<1> QED
  BY <1>2, <1>3, <1>4, <1>5, FilesAreSpots DEF Placed, Sections

(* What holds whatever the installer and the loops before it did. *)
LEMMA OutsideInstall ==
  ASSUME pc' \notin Installs, durable' = "nothing",
         pc' = "idle" => result' \notin {"collision", "rolled-back", "applied"}
  PROVE  Installed' /\ Retained' /\ Finished'
  BY DEF Installed, Retained, Finished, Ended, Installs, Writing, Undoing

LEMMA OutsideBuild ==
  ASSUME pc' \in Installs \cup {"idle"}
  PROVE  Gathered' /\ Watched'
  BY DEF Gathered, Watched, Captured, Prepared, Looked, Sections, Installs

LEMMA Unsubmitted ==
  ASSUME ~submitted'
  PROVE  Gathered' /\ Watched'
  BY DEF Gathered, Watched

-----------------------------------------------------------------------------
(* The builder *)

Workspace == <<scope, after, planned, failing, written, foreign, raced, edits, git, declared>>

LEMMA StartIs ==
  ASSUME NEW m \in Repositories, NEW p \in Paths
  PROVE  /\ Start(m) \in Spots /\ Start(m)[1] = m /\ p # Start(m)
         /\ Earlier(p, Start(m)) <=> p[1] < m
  BY FilesAre DEF Start, Repositories, Spots, Earlier, Paths

LEMMA NoGathering ==
  ASSUME pc' \in Installs \cup {"idle", "rescan", "submit"}
  PROVE  Gathered' /\ Watched'
  BY DEF Gathered, Watched, Captured, Prepared, Looked, Sections, Installs

LEMMA SameScope ==
  ASSUME UNCHANGED <<declared, source>>
  PROVE  Scope' = Scope
  BY DEF Scope, IsSource

LEMMA RefuseKeeps ==
  ASSUME Core, pc \notin Installs \cup {"idle"}, Refuse, before' \in [Paths -> Images],
         UNCHANGED <<content, Workspace, durable, artifact, bound, submitted>>
  PROVE  Core'
<1>1. /\ pc' = "idle" /\ at' = Nowhere /\ result' = "refused" /\ gone' = {}
      /\ UNCHANGED <<content, scope, after, planned, failing, written, foreign, raced, edits>>
      /\ UNCHANGED <<head, moved, gitCalls, declared, durable, seen, source, report, bound, submitted>>
  BY DEF Refuse, Return, Go, Workspace, git, artifact
<1>2. durable' = "nothing"
  BY <1>1 DEF Core, Phased, Shapes
<1>3. Installed' /\ Retained' /\ Finished' /\ Gathered' /\ Watched'
  BY <1>1, <1>2, OutsideInstall, NoGathering DEF Installs
<1>4. Shapes'
  BY <1>1 DEF Core, Shapes, Results
<1>5. Placed' /\ Declared' /\ Phased'
  BY <1>1, <1>2 DEF Core, Placed, Declared, Phased, Sections, Installs, Undoing, Ended
<1> QED
  BY <1>3, <1>4, <1>5 DEF Core

LEMMA BuildKeeps == ASSUME Core, Build PROVE Core'
<1>1. /\ pc = "idle" /\ ~submitted /\ pc' = "open" /\ at' = Start(1) /\ result' = "none"
      /\ bound' = moved /\ seen' = Empty /\ source' = [p \in Paths |-> Nowhere] /\ report' = {}
      /\ UNCHANGED <<content, scope, before, after, planned, failing, written, foreign, raced, edits>>
      /\ UNCHANGED <<head, moved, gitCalls, declared, durable, gone, submitted>>
  BY DEF Build, Go, frame, plan, ghosts, git
<1>2. durable' = "nothing"
  BY <1>1 DEF Core, Phased, Shapes
<1>3. Installed' /\ Retained' /\ Finished' /\ Gathered' /\ Watched'
  BY <1>1, <1>2, OutsideInstall, Unsubmitted DEF Installs
<1>4. Shapes'
  BY <1>1, ImagesAre DEF Core, Shapes, Results
<1>5. Placed'
  BY <1>1, FilesAre DEF Placed, Sections, Installs, Repositories
<1>6. Declared' /\ Phased'
  BY <1>1, <1>2 DEF Core, Declared, Phased, Installs, Undoing, Ended
<1> QED
  BY <1>3, <1>4, <1>5, <1>6 DEF Core

(* The first file of a repository, when there is one. *)
LEMMA OpenGoes ==
  ASSUME Core, OpenRepository, pc' # "idle"
  PROVE  \E m \in Repositories :
           /\ at = Start(m) /\ at[1] = m /\ at'[1] = m
           /\ \/ pc' = "report" /\ at' = Start(m) /\ \A q \in declared : q[1] # m
              \/ /\ pc' = "observe" /\ at' \in declared
                 /\ \A q \in declared : Earlier(q, at') => q[1] < m
<1>1. IF NextIn(declared, at) = Nowhere THEN Go("report", at)
      ELSE Go("observe", NextIn(declared, at))
  BY DEF OpenRepository, Refuse, Return, Go
<1>2. PICK m \in Repositories : at = Start(m)
  BY DEF OpenRepository, Core, Placed
<1>3. at[1] = m /\ at \in Spots /\ declared \in SUBSET Paths
  BY <1>2, StartIs, FilesAreSpots DEF Core, Shapes, Start
<1>4. \A q \in declared : (q = at \/ Earlier(q, at)) => q[1] < m
  BY <1>2, <1>3, StartIs
<1>5. \A q \in declared : q[1] \in Nat /\ m \in Nat
  BY <1>3, FilesAre DEF Repositories
<1>6. CASE NextIn(declared, at) = Nowhere
  BY <1>1, <1>2, <1>3, <1>4, <1>5, <1>6, NextIs DEF Go
<1>7. CASE NextIn(declared, at) # Nowhere
  BY <1>1, <1>2, <1>3, <1>4, <1>7, NextIs DEF Go
<1> QED
  BY <1>6, <1>7

(* Nothing of the repository has been looked at when its turn begins. *)
LEMMA OpenLooks ==
  ASSUME Core, OpenRepository, pc' # "idle", NEW p \in Scope, Looked(p)'
  PROVE  p[1] < at[1]
<1>1. PICK m \in Repositories :
           /\ at = Start(m) /\ at[1] = m /\ at'[1] = m
           /\ \/ pc' = "report" /\ at' = Start(m) /\ \A q \in declared : q[1] # m
              \/ /\ pc' = "observe" /\ at' \in declared
                 /\ \A q \in declared : Earlier(q, at') => q[1] < m
  BY OpenGoes
<1>2. p \in declared \/ \E q \in declared : source[q] = p /\ q[1] = p[1] /\ q \in Paths
  BY SourcesStay DEF Core
<1>3. UNCHANGED <<declared, source>>
  BY DEF OpenRepository, frame, artifact
<1>4. p \in Paths /\ p # Nowhere /\ p[1] \in Nat /\ m \in Nat /\ \A q \in declared : q \in Paths
  <2>1. p \in Paths /\ \A q \in declared : q \in Paths
    BY ScopeIs DEF Core, Shapes
  <2> QED
    BY <2>1, FilesAre DEF Repositories
<1>5. CASE pc' = "report"
  <2>1. p[1] <= m /\ p[1] # m
    BY <1>1, <1>2, <1>5 DEF Looked
  <2> QED
    BY <1>1, <1>4, <2>1
<1>6. CASE pc' = "observe"
  <2>1. \/ p \in declared /\ Earlier(p, at')
        \/ \E q \in declared : Earlier(q, at') /\ source[q] = p
    BY <1>3, <1>6 DEF Looked, Passed
  <2>2. \A q \in declared : Earlier(q, at') => q[1] < m
    BY <1>1, <1>6
  <2>3. ASSUME NEW q \in declared, Earlier(q, at'), source[q] = p PROVE p[1] < m
    BY <1>4, <2>2, <2>3 DEF Core, Declared, FilesOf
  <2> QED
    BY <1>1, <2>1, <2>2, <2>3
<1> QED
  BY <1>1, <1>5, <1>6

LEMMA OpenRepositoryKeeps == ASSUME Core, OpenRepository PROVE Core'
<1>1. CASE Refuse
  <2>1. /\ before' \in [Paths -> Images] /\ pc \notin Installs \cup {"idle"}
        /\ UNCHANGED <<content, Workspace, durable, artifact, bound, submitted>>
    BY <1>1 DEF OpenRepository, frame, plan, ghosts, git, Workspace, Core, Shapes, Installs
  <2> QED
    BY <1>1, <2>1, RefuseKeeps
<1>2. CASE gone' = Deleted(at[1]) /\ UNCHANGED result
           /\ IF NextIn(declared, at) = Nowhere THEN Go("report", at)
              ELSE Go("observe", NextIn(declared, at))
  <2>1. /\ pc = "open" /\ UNCHANGED <<content, scope, before, after, planned, failing, result>>
        /\ UNCHANGED <<written, foreign, raced, edits, head, moved, gitCalls, declared, durable>>
        /\ UNCHANGED <<seen, source, report, bound, submitted>>
    BY <1>2 DEF OpenRepository, frame, plan, ghosts, git, artifact
  <2>2. durable' = "nothing" /\ result' = "none" /\ pc' # "idle"
    BY <1>2, <2>1 DEF Core, Phased, Shapes, Installs, Undoing, Go
  <2>3. PICK m \in Repositories :
           /\ at = Start(m) /\ at[1] = m /\ at'[1] = m
           /\ \/ pc' = "report" /\ at' = Start(m)
              \/ pc' = "observe" /\ at' \in declared
    BY <2>2, OpenGoes
  <2>4. Shapes'
    BY <1>2, <2>1, LostIs DEF Core, Shapes
  <2>5. Placed'
    BY <1>2, <2>1, <2>3, LostIs DEF Core, Placed, Sections, Installs, Undoing
  <2>6. Declared' /\ Phased'
    BY <2>1, <2>2, <2>3 DEF Core, Declared, Phased, Installs, Undoing, Ended
  <2>7. Scope' = Scope
    BY <2>1, SameScope
  <2>8. \A p \in Scope : p[1] = m => ~Looked(p)'
    <3> SUFFICES ASSUME NEW p \in Scope, p[1] = m, Looked(p)' PROVE FALSE
      OBVIOUS
    <3>1. p[1] < m /\ m \in Nat
      BY <2>2, <2>3, OpenLooks, FilesAre DEF Repositories
    <3> QED
      BY <3>1
  <2>9. Gathered' /\ Watched'
    <3>1. \A p \in Scope : Captured(p)' => Captured(p)
      BY <2>1, <2>3 DEF Captured, Sections
    <3>2. \A p \in Scope : Prepared(p)' => Prepared(p)
      BY <2>1, <2>3 DEF Prepared, Sections
    <3> QED
      BY <2>1, <2>3, <2>7, <2>8, <3>1, <3>2 DEF Core, Gathered, Watched
  <2>10. Installed' /\ Retained' /\ Finished'
    BY <2>2, <2>3, OutsideInstall DEF Installs
  <2> QED
    BY <2>4, <2>5, <2>6, <2>9, <2>10 DEF Core
<1> QED
  BY <1>1, <1>2 DEF OpenRepository

(* What the loop has passed at its next file, or at its end. *)
LEMMA Behind ==
  ASSUME Shapes, at \in declared, NEW p \in Paths, NEW src,
         p \in declared \/ \E q \in declared : src[q] = p /\ q[1] = p[1],
         LET n == NextIn(declared, at)
         IN  \/ n = Nowhere /\ p[1] <= at[1]
             \/ n # Nowhere /\ p \in declared /\ Earlier(p, n)
             \/ n # Nowhere /\ \E q \in declared : Earlier(q, n) /\ src[q] = p
  PROVE  \/ p \in declared /\ Earlier(p, at)
         \/ \E q \in declared : Earlier(q, at) /\ src[q] = p
         \/ p = at \/ p = src[at]
<1> DEFINE n == NextIn(declared, at)
<1>1. at \in Spots /\ declared \in SUBSET Paths
  BY FilesAreSpots DEF Shapes
<1>2. /\ n # Nowhere => \A q \in declared : Earlier(q, n) => q = at \/ Earlier(q, at)
      /\ n = Nowhere => \A q \in declared : q[1] <= at[1] => q = at \/ Earlier(q, at)
  BY <1>1, NextIs
<1> HIDE DEF n
<1>3. CASE n = Nowhere
  BY <1>2, <1>3 DEF n
<1>4. CASE n # Nowhere
  BY <1>2, <1>4 DEF n
<1> QED
  BY <1>3, <1>4

LEMMA OnwardIs ==
  ASSUME Shapes, at \in declared, Onward(at)
  PROVE  /\ UNCHANGED <<result, gone>> /\ at'[1] = at[1] /\ at[1] \in Repositories
         /\ \/ pc' = "report" /\ at' = Start(at[1]) /\ NextIn(declared, at) = Nowhere
            \/ pc' = "observe" /\ at' \in declared /\ at' = NextIn(declared, at) /\ at' # Nowhere
<1>1. at \in Spots /\ declared \in SUBSET Paths /\ at[1] \in Repositories
  BY FilesAreSpots, FilesAre DEF Shapes, Repositories
<1>2. NextIn(declared, at) # Nowhere => NextIn(declared, at) \in declared /\ NextIn(declared, at)[1] = at[1]
  BY <1>1, NextIs
<1> QED
  BY <1>1, <1>2 DEF Onward, Proceed, Go, Start

LEMMA OnwardLooks ==
  ASSUME Shapes', Shapes, at \in declared, Onward(at), declared' = declared, Declared',
         NEW p \in Scope', Looked(p)'
  PROVE  \/ p \in declared /\ Earlier(p, at)
         \/ \E q \in declared : Earlier(q, at) /\ source'[q] = p
         \/ p = at \/ p = source'[at]
<1>1. p \in declared' \/ \E q \in declared' : source'[q] = p
  BY DEF Scope, IsSource
<1>2. p \in Paths /\ \A q \in declared : q \in Paths
  BY DEF Scope, Shapes
<1>3. p \in declared \/ \E q \in declared : source'[q] = p /\ q[1] = p[1]
  <2>1. ASSUME NEW q \in declared, source'[q] = p PROVE q[1] = p[1]
    BY <1>2, <2>1, FilesAre DEF Declared, FilesOf
  <2> QED
    BY <1>1, <2>1
<1>4. LET n == NextIn(declared, at)
      IN  \/ n = Nowhere /\ p[1] <= at[1]
          \/ n # Nowhere /\ p \in declared /\ Earlier(p, n)
          \/ n # Nowhere /\ \E q \in declared : Earlier(q, n) /\ source'[q] = p
  BY OnwardIs DEF Looked, Passed
<1> QED
  BY <1>2, <1>3, <1>4, Behind

LEMMA ObserveOutputKeeps == ASSUME Core, ObserveOutput PROVE Core'
<1>1. /\ pc = "observe" /\ UNCHANGED <<content, scope, before, after, planned, failing>>
      /\ UNCHANGED <<written, foreign, raced, edits, head, moved, gitCalls, declared, durable>>
      /\ UNCHANGED <<report, bound, submitted>>
  BY DEF ObserveOutput, frame, plan, ghosts, git
<1>2. /\ at \in declared /\ at \in Paths /\ gone \subseteq FilesOf(at[1])
      /\ durable' = "nothing" /\ result = "none"
  BY <1>1 DEF Core, Placed, Phased, Shapes, Installs, Undoing
<1>3. CASE Refuse /\ UNCHANGED <<seen, source>>
  <2>1. /\ before' \in [Paths -> Images] /\ pc \notin Installs \cup {"idle"}
        /\ UNCHANGED <<content, Workspace, durable, artifact, bound, submitted>>
    BY <1>1, <1>3 DEF Workspace, git, artifact, Core, Shapes, Installs
  <2> QED
    BY <1>3, <2>1, RefuseKeeps
<1>4. CASE /\ ~Differs(at, SourceOf(at))
           /\ seen' = [seen EXCEPT ![at] = content[at]]
           /\ source' = [source EXCEPT ![at] = SourceOf(at)]
           /\ IF SourceOf(at) # Nowhere THEN Proceed("source", at) ELSE Onward(at)
  <2>1. SourceOf(at) # Nowhere => SourceOf(at) \in FilesOf(at[1]) /\ SourceOf(at) \in Paths
    BY <1>2, SourceIs DEF Core, Shapes
  <2>2. /\ source' \in [Paths -> Paths \cup {Nowhere}] /\ source'[at] = SourceOf(at)
        /\ \A q \in Paths : q # at => source'[q] = source[q]
        /\ seen' \in [Paths -> Images]
    BY <1>2, <1>4, <2>1 DEF Core, Shapes
  <2>3. /\ UNCHANGED <<result, gone>> /\ at'[1] = at[1] /\ at[1] \in Repositories
        /\ \/ pc' = "report" /\ at' = Start(at[1]) /\ source'[at] = Nowhere /\ Onward(at)
           \/ pc' = "observe" /\ at' \in declared /\ source'[at] = Nowhere /\ Onward(at)
           \/ pc' = "source" /\ at' = at /\ source'[at] # Nowhere
    <3>1. at[1] \in Repositories
      BY <1>2, FilesAre DEF Repositories
    <3> QED
      BY <1>2, <1>4, <2>2, <3>1, OnwardIs DEF Core, Proceed, Go
  <2>4. Shapes'
    BY <1>1, <2>2, <2>3 DEF Core, Shapes
  <2>5. Placed'
    BY <1>1, <1>2, <2>2, <2>3 DEF Core, Placed, Sections, Installs
  <2>6. Declared' /\ Phased'
    <3>1. \A q \in Paths : source'[q] # Nowhere => q \in declared /\ source'[q] \in FilesOf(q[1])
      BY <1>2, <2>1, <2>2 DEF Core, Declared
    <3> QED
      BY <1>1, <1>2, <2>3, <3>1 DEF Core, Declared, Phased, Installs, Undoing, Ended
  <2>7. Installed' /\ Retained' /\ Finished'
    BY <1>2, <2>3, OutsideInstall DEF Installs
  <2>8. Gathered' /\ Watched'
    <3>1. CASE ~submitted
      BY <1>1, <3>1, Unsubmitted
    <3>2. CASE submitted
      <4>1. content[at] = seen[at] /\ UNCHANGED <<seen, source>>
        <5>1. content[at] = seen[at] /\ SourceOf(at) = source[at]
          BY <1>4, <3>2 DEF Differs
        <5> QED
          BY <1>2, <1>4, <5>1 DEF Core, Shapes
      <4>2. Scope' = Scope
        BY <1>1, <4>1, SameScope
      <4>3. \A p \in Scope : Captured(p)' => Captured(p)
        BY <1>1, <2>3 DEF Captured, Sections
      <4>4. \A p \in Scope : Prepared(p)' => Prepared(p)
        BY <1>1, <2>3 DEF Prepared, Sections
      <4>5. ASSUME NEW p \in Scope, Looked(p)', p[1] = at[1]
            PROVE  content[p] = seen[p] \/ p \in raced
        <5>1. Passed(p) \/ p = at
          <6>1. CASE pc' = "source"
            BY <1>1, <2>3, <4>1, <4>5, <6>1 DEF Looked, Passed
          <6>2. CASE Onward(at) /\ source'[at] = Nowhere
            <7>1. p # Nowhere
              BY ScopeIs, FilesAre DEF Core
            <7> QED
              BY <1>1, <1>2, <2>4, <2>6, <4>1, <4>2, <4>5, <6>2, <7>1, OnwardLooks DEF Core, Passed
          <6> QED
            BY <2>3, <6>1, <6>2
        <5>2. CASE Passed(p)
          BY <1>1, <3>2, <4>5, <5>2 DEF Core, Watched, Looked, Sections
        <5> QED
          BY <4>1, <5>1, <5>2
      <4> QED
        BY <1>1, <2>3, <4>1, <4>2, <4>3, <4>4, <4>5 DEF Core, Gathered, Watched
    <3> QED
      BY <1>1, <3>1, <3>2 DEF Core, Shapes
  <2> QED
    BY <2>4, <2>5, <2>6, <2>7, <2>8 DEF Core
<1> QED
  BY <1>3, <1>4 DEF ObserveOutput

LEMMA ObserveSourceKeeps == ASSUME Core, ObserveSource PROVE Core'
<1>1. /\ pc = "source" /\ UNCHANGED <<content, scope, before, after, planned, failing>>
      /\ UNCHANGED <<written, foreign, raced, edits, head, moved, gitCalls, declared, durable>>
      /\ UNCHANGED <<report, bound, submitted, source>>
  BY DEF ObserveSource, frame, plan, ghosts, git
<1>2. /\ at \in declared /\ at \in Paths /\ source[at] \in Paths /\ source[at] # Nowhere
      /\ durable' = "nothing" /\ result = "none"
  BY <1>1 DEF Core, Placed, Phased, Shapes, Installs, Undoing
<1>3. CASE Refuse /\ UNCHANGED seen
  <2>1. /\ before' \in [Paths -> Images] /\ pc \notin Installs \cup {"idle"}
        /\ UNCHANGED <<content, Workspace, durable, artifact, bound, submitted>>
    BY <1>1, <1>3 DEF Workspace, git, artifact, Core, Shapes, Installs
  <2> QED
    BY <1>3, <2>1, RefuseKeeps
<1>4. CASE /\ ~Differs(source[at], source[source[at]])
           /\ seen' = [seen EXCEPT ![source[at]] = content[source[at]]]
           /\ Onward(at)
  <2>1. seen' \in [Paths -> Images]
    BY <1>2, <1>4 DEF Core, Shapes
  <2>2. /\ UNCHANGED <<result, gone>> /\ at'[1] = at[1] /\ at[1] \in Repositories
        /\ \/ pc' = "report" /\ at' = Start(at[1])
           \/ pc' = "observe" /\ at' \in declared
    BY <1>2, <1>4, OnwardIs DEF Core
  <2>3. Shapes'
    BY <1>1, <2>1, <2>2 DEF Core, Shapes
  <2>4. Placed'
    BY <1>1, <1>2, <2>2 DEF Core, Placed, Sections, Installs
  <2>5. Declared' /\ Phased'
    BY <1>1, <1>2, <2>2 DEF Core, Declared, Phased, Installs, Undoing, Ended
  <2>6. Installed' /\ Retained' /\ Finished'
    BY <1>2, <2>2, OutsideInstall DEF Installs
  <2>7. Gathered' /\ Watched'
    <3>1. CASE ~submitted
      BY <1>1, <3>1, Unsubmitted
    <3>2. CASE submitted
      <4>1. content[source[at]] = seen[source[at]] /\ UNCHANGED seen
        <5>1. content[source[at]] = seen[source[at]]
          BY <1>4, <3>2 DEF Differs
        <5> QED
          BY <1>2, <1>4, <5>1 DEF Core, Shapes
      <4>2. Scope' = Scope
        BY <1>1, SameScope
      <4>3. \A p \in Scope : Captured(p)' => Captured(p)
        BY <1>1, <2>2 DEF Captured, Sections
      <4>4. \A p \in Scope : Prepared(p)' => Prepared(p)
        BY <1>1, <2>2 DEF Prepared, Sections
      <4>5. ASSUME NEW p \in Scope, Looked(p)', p[1] = at[1]
            PROVE  content[p] = seen[p] \/ p \in raced
        <5>1. Passed(p) \/ p = at \/ p = source[at]
          BY <1>1, <1>2, <1>4, <2>3, <2>5, <4>2, <4>5, OnwardLooks DEF Core, Passed
        <5>2. CASE Passed(p) \/ p = at
          BY <1>1, <3>2, <4>5, <5>2 DEF Core, Watched, Looked, Sections
        <5> QED
          BY <4>1, <5>1, <5>2
      <4> QED
        BY <1>1, <2>2, <4>1, <4>2, <4>3, <4>4, <4>5 DEF Core, Gathered, Watched
    <3> QED
      BY <1>1, <3>1, <3>2 DEF Core, Shapes
  <2> QED
    BY <2>3, <2>4, <2>5, <2>6, <2>7 DEF Core
<1> QED
  BY <1>3, <1>4 DEF ObserveSource

LEMMA ReportKeeps == ASSUME Core, Report PROVE Core'
<1>1. /\ pc = "report" /\ ~submitted /\ UNCHANGED <<content, scope, before, after, planned, failing>>
      /\ UNCHANGED <<written, foreign, raced, edits, head, moved, gitCalls, declared, durable>>
      /\ UNCHANGED <<seen, source, result, bound, submitted>>
      /\ report' = report \cup Undeclared(at[1]) /\ gone' = {}
  BY DEF Report, frame, plan, ghosts, git
<1>2. durable' = "nothing" /\ result' = "none"
  BY <1>1 DEF Core, Phased, Shapes, Installs, Undoing
<1>3. PICK m \in Repositories : at = Start(m)
  BY <1>1 DEF Core, Placed
<1>4. \/ pc' = "open" /\ \E k \in Repositories : at' = Start(k)
      \/ pc' = "rescan" /\ at' = Start(1)
  <2>1. m \in 1 .. Members /\ at[1] = m
    BY <1>3 DEF Repositories, Start
  <2>2. m < Members => m + 1 \in Repositories
    BY <2>1, FilesAre DEF Repositories
  <2> QED
    BY <2>1, <2>2 DEF Report, Go
<1>5. Shapes'
  BY <1>1 DEF Core, Shapes, Undeclared, FilesOf
<1>6. Placed'
  BY <1>1, <1>4 DEF Placed, Sections, Installs
<1>7. Declared' /\ Phased'
  BY <1>1, <1>2, <1>4 DEF Core, Declared, Phased, Installs, Undoing, Ended
<1>8. Installed' /\ Retained' /\ Finished' /\ Gathered' /\ Watched'
  BY <1>1, <1>2, <1>4, OutsideInstall, Unsubmitted DEF Installs
<1> QED
  BY <1>5, <1>6, <1>7, <1>8 DEF Core

-----------------------------------------------------------------------------
(* The server *)

LEMMA SubmitKeeps == ASSUME Core, Submit PROVE Core'
<1>1. /\ UNCHANGED <<content, scope, before, after, planned, failing, written, foreign, edits>>
      /\ UNCHANGED <<head, moved, gitCalls, declared, durable, seen, source, report, gone>>
      /\ submitted' = TRUE /\ bound' = moved /\ raced' = {}
  BY DEF Submit, plan, git, artifact
<1>2. durable' = "nothing"
  BY <1>1 DEF Submit, Core, Phased, Shapes, Installs
<1>3. \/ pc' = "rescan" /\ at' = Start(1) /\ result' = "none"
      \/ pc' = "idle" /\ at' = Nowhere /\ result' = "refused"
  BY DEF Submit, Go, Return
<1>4. Shapes'
  BY <1>1, <1>3 DEF Core, Shapes, Results
<1>5. Placed' /\ Declared' /\ Phased'
  BY <1>1, <1>2, <1>3 DEF Core, Placed, Declared, Phased, Sections, Installs, Undoing, Ended
<1>6. Installed' /\ Retained' /\ Finished' /\ Gathered' /\ Watched'
  BY <1>2, <1>3, OutsideInstall, NoGathering DEF Installs
<1> QED
  BY <1>4, <1>5, <1>6 DEF Core

LEMMA RescanKeeps == ASSUME Core, Rescan PROVE Core'
<1>1. /\ pc = "rescan" /\ UNCHANGED <<content, scope, before, after, planned, failing>>
      /\ UNCHANGED <<written, foreign, raced, edits, head, moved, gitCalls, declared, durable>>
      /\ UNCHANGED <<seen, source, report, bound, submitted>>
  BY DEF Rescan, frame, plan, ghosts, git, artifact
<1>2. CASE Refuse
  <2>1. /\ before' \in [Paths -> Images] /\ pc \notin Installs \cup {"idle"}
        /\ UNCHANGED <<content, Workspace, durable, artifact, bound, submitted>>
    BY <1>1 DEF Workspace, git, artifact, Core, Shapes, Installs
  <2> QED
    BY <1>2, <2>1, RefuseKeeps
<1>3. CASE Proceed("verify", FirstOf(Scope))
  <2>1. /\ pc' = "verify" /\ at' = FirstOf(Scope) /\ UNCHANGED <<result, gone>>
        /\ durable' = "nothing" /\ result' = "none"
    BY <1>1, <1>3 DEF Proceed, Go, Core, Phased, Shapes, Installs, Undoing
  <2>2. Scope' = Scope /\ at' \in Scope /\ at'[1] = 1 /\ \A p \in Scope : ~Earlier(p, at')
    BY <1>1, <2>1, SameScope, PrimaryFirst, ScopeIs, FirstOfAll DEF Core
  <2>3. Shapes'
    BY <1>1, <2>1 DEF Core, Shapes
  <2>4. Placed' /\ Declared' /\ Phased'
    BY <1>1, <2>1, <2>2 DEF Core, Placed, Declared, Phased, Sections, Installs, Undoing, Ended
  <2>5. Installed' /\ Retained' /\ Finished'
    BY <2>1, OutsideInstall DEF Installs
  <2>6. Gathered' /\ Watched'
    BY <2>1, <2>2 DEF Gathered, Watched, Captured, Prepared, Looked, Sections
  <2> QED
    BY <2>3, <2>4, <2>5, <2>6 DEF Core
<1> QED
  BY <1>2, <1>3 DEF Rescan

LEMMA VerifyKeeps == ASSUME Core, Verify PROVE Core'
<1>1. /\ pc = "verify" /\ UNCHANGED <<content, scope, before, after, planned, failing>>
      /\ UNCHANGED <<written, foreign, raced, edits, head, moved, gitCalls, declared, durable>>
      /\ UNCHANGED <<seen, source, report, bound, submitted>>
  BY DEF Verify, frame, plan, ghosts, git, artifact
<1>2. CASE Refuse
  <2>1. /\ before' \in [Paths -> Images] /\ pc \notin Installs \cup {"idle"}
        /\ UNCHANGED <<content, Workspace, durable, artifact, bound, submitted>>
    BY <1>1 DEF Workspace, git, artifact, Core, Shapes, Installs
  <2> QED
    BY <1>2, <2>1, RefuseKeeps
<1>3. CASE content[at] = seen[at] /\ Verified(at)
  <2> DEFINE n == NextIn(Scope, at)
  <2>1. /\ Scope' = Scope /\ Scope \in SUBSET Paths /\ at \in Scope /\ at[1] = 1 /\ at \in Spots
        /\ durable' = "nothing" /\ result = "none"
    BY <1>1, SameScope, ScopeIs, FilesAreSpots DEF Core, Placed, Phased, Shapes, Installs, Undoing
  <2>2. /\ n # Nowhere => n \in Scope /\ n[1] = 1 /\ \A q \in Scope : Earlier(q, n) => q = at \/ Earlier(q, at)
        /\ n = Nowhere => \A q \in Scope : q[1] <= 1 => q = at \/ Earlier(q, at)
    BY <2>1, NextIs
  <2>3. ASSUME submitted, NEW p \in Scope, p = at \/ Earlier(p, at), p[1] = 1
        PROVE  content[p] = seen[p] \/ p \in raced
    BY <1>1, <1>3, <2>1, <2>3 DEF Core, Watched, Looked
  <2>4. /\ UNCHANGED <<result, gone>>
        /\ \/ pc' = "verify" /\ at' = n /\ n # Nowhere
           \/ pc' = "capture" /\ at' = FirstOf(Scope) /\ n = Nowhere /\ submitted
           \/ pc' = "submit" /\ at' = Nowhere /\ ~submitted
    BY <1>3 DEF Verified, Proceed, Go
  <2> HIDE DEF n
  <2>5. FirstOf(Scope) \in Scope /\ FirstOf(Scope)[1] = 1 /\ \A q \in Scope : ~Earlier(q, FirstOf(Scope))
    BY <2>1, PrimaryFirst, FirstOfAll DEF Core
  <2>6. Shapes'
    BY <1>1, <2>4 DEF Core, Shapes
  <2>7. Placed' /\ Declared' /\ Phased'
    BY <1>1, <2>1, <2>2, <2>4, <2>5
    DEF Core, Placed, Declared, Phased, Sections, Installs, Undoing, Ended
  <2>8. Installed' /\ Retained' /\ Finished'
    BY <2>1, <2>4, OutsideInstall DEF Installs
  <2>9. CASE pc' = "submit"
    BY <1>1, <2>4, <2>6, <2>7, <2>8, <2>9, Unsubmitted DEF Core
  <2>10. CASE pc' = "verify"
    <3>1. Gathered'
      BY <2>10 DEF Gathered, Captured, Prepared, Sections
    <3>2. Watched'
      BY <1>1, <2>1, <2>2, <2>3, <2>4, <2>10 DEF Watched, Looked, Sections
    <3> QED
      BY <2>6, <2>7, <2>8, <3>1, <3>2 DEF Core
  <2>11. CASE pc' = "capture"
    <3>1. \A p \in Scope : p[1] \in Nat /\ 1 <= p[1]
      BY <2>1, FilesAre
    <3>2. Gathered'
      BY <2>1, <2>4, <2>5, <2>11, <3>1 DEF Gathered, Captured, Prepared, Sections
    <3>3. Watched'
      BY <1>1, <2>1, <2>2, <2>3, <2>4, <2>5, <2>11, <3>1 DEF Watched, Looked, Sections
    <3> QED
      BY <2>6, <2>7, <2>8, <3>2, <3>3 DEF Core
  <2> QED
    BY <2>4, <2>9, <2>10, <2>11
<1> QED
  BY <1>2, <1>3 DEF Verify

(* A repository is gathered: on to the next one, or to the installer. *)
LEMMA NextRepositoryKeeps ==
  ASSUME Core, submitted, pc \in {"report", "prepare"}, NextRepository(at[1]),
         UNCHANGED <<content, before, foreign, raced, edits, git, declared, durable, artifact, bound>>,
         UNCHANGED <<submitted, result, gone>>,
         planned' \in [Paths -> Images],
         \A p \in Scope : p[1] <= at[1] =>
            /\ before[p] = content[p] \/ p \in foreign
            /\ before[p] = seen[p] \/ p \in raced
            /\ planned'[p] = content[p] \/ p \in foreign
  PROVE  Core'
<1> DEFINE m == at[1]
<1>1. /\ UNCHANGED <<content, before, foreign, raced, edits, head, moved, gitCalls, declared>>
      /\ UNCHANGED <<durable, seen, source, report, bound, submitted, result, gone>>
  BY DEF git, artifact
<1>2. /\ Scope' = Scope /\ Scope \in SUBSET Paths /\ m \in 1 .. Members /\ Members \in Nat
      /\ durable' = "nothing" /\ result' = "none"
  BY <1>1, SameScope, ScopeIs, SpotsAre, FilesAre
  DEF Core, Phased, Shapes, Installs, Undoing, Repositories, Sections
<1>3. CASE m < Members
  <2>1. /\ pc' = "open" /\ at' = Start(m + 1) /\ UNCHANGED <<scope, after, failing, written>>
        /\ m + 1 \in Repositories /\ at'[1] = m + 1 /\ m + 1 # 1
    BY <1>2, <1>3 DEF NextRepository, Go, Repositories, Start
  <2>2. \A p \in Scope : p[1] \in Nat /\ (p[1] < m + 1 => p[1] <= m)
    BY <1>2, FilesAre
  <2> HIDE DEF m
  <2>3. Shapes'
    BY <1>1, <2>1 DEF Core, Shapes
  <2>4. Placed' /\ Declared' /\ Phased'
    BY <1>1, <1>2, <2>1 DEF Core, Placed, Declared, Phased, Sections, Installs, Undoing, Ended
  <2>5. Installed' /\ Retained' /\ Finished'
    BY <1>2, <2>1, OutsideInstall DEF Installs
  <2>6. \A p \in Scope : ~(Earlier(p, at') /\ p[1] = at'[1])
    BY <1>2, <2>1, StartIs, FilesAre DEF Repositories
  <2>7. Gathered'
    <3>1. \A p \in Scope : p[1] < m + 1 => p[1] <= at[1]
      BY <2>2 DEF m
    <3> QED
      BY <1>1, <1>2, <2>1, <3>1 DEF Gathered, Captured, Prepared, Sections
  <2>8. Watched'
    BY <1>1, <1>2, <2>1, <2>6 DEF Watched, Looked, Sections
  <2> QED
    BY <2>3, <2>4, <2>5, <2>7, <2>8 DEF Core
<1>4. CASE ~(m < Members)
  <2>1. /\ pc' = "check" /\ at' = FirstOf(Scope) /\ scope' = Scope /\ after' = seen
        /\ failing' = 0 /\ written' = {}
    BY <1>2, <1>4 DEF NextRepository, Go
  <2>2. /\ FirstOf(Scope) \in Scope /\ \A p \in Scope : ~Earlier(p, FirstOf(Scope))
    BY <1>2, PrimaryFirst, FirstOfAll DEF Core
  <2>3. \A p \in Scope : p[1] <= at[1]
    BY <1>2, <1>4, FilesAre
  <2>4. Shapes'
    BY <1>1, <1>2, <2>1 DEF Core, Shapes
  <2>5. Placed' /\ Declared' /\ Phased'
    BY <1>1, <1>2, <2>1, <2>2 DEF Core, Placed, Declared, Phased, Sections, Installs, Undoing, Ended
  <2>6. Installed'
    BY <1>1, <1>2, <2>1, <2>2, <2>3 DEF Core, Installed, Installs, Writing, Undoing
  <2>7. Retained' /\ Finished'
    BY <1>2, <2>1 DEF Retained, Finished, Ended
  <2>8. Gathered' /\ Watched'
    BY <2>1, NoGathering DEF Installs
  <2> QED
    BY <2>4, <2>5, <2>6, <2>7, <2>8 DEF Core
<1> QED
  BY <1>3, <1>4

LEMMA RecountKeeps == ASSUME Core, Recount PROVE Core'
<1>1. /\ pc = "report" /\ submitted
      /\ UNCHANGED <<content, before, planned, foreign, raced, edits, git, declared, durable>>
      /\ UNCHANGED <<artifact, bound, submitted>>
  BY DEF Recount
<1>2. PICK m \in Repositories : at = Start(m)
  BY <1>1 DEF Core, Placed
<1>3. /\ at \in Spots /\ at[1] = m /\ Scope \in SUBSET Paths /\ m \in Nat /\ at[1] # 1
      /\ durable' = "nothing" /\ result = "none"
  BY <1>1, <1>2, FilesAreSpots, ScopeIs
  DEF Start, Repositories, Core, Phased, Placed, Shapes, Installs, Undoing, Sections
<1>4. CASE Refuse /\ UNCHANGED <<scope, after, failing, written>>
  <2>1. /\ before' \in [Paths -> Images] /\ pc \notin Installs \cup {"idle"}
        /\ UNCHANGED <<content, Workspace, durable, artifact, bound, submitted>>
    BY <1>1, <1>4 DEF Workspace, Core, Shapes, Installs
  <2> QED
    BY <1>4, <2>1, RefuseKeeps
<1>5. CASE /\ Scope \cap FilesOf(m) # {} /\ Proceed("capture", NextIn(Scope, at))
           /\ UNCHANGED <<scope, after, failing, written>>
  <2> DEFINE n == NextIn(Scope, at)
  <2>1. \A q \in Scope : (q = at \/ Earlier(q, at)) => q[1] < m
    BY <1>2, <1>3, StartIs
  <2>2. PICK f \in Scope : f[1] = m
    BY <1>5 DEF FilesOf
  <2>3. n # Nowhere
    <3> SUFFICES ASSUME n = Nowhere PROVE FALSE
      OBVIOUS
    <3>1. f[1] <= at[1] /\ ~(f[1] < m)
      BY <1>3, <2>2
    <3>2. f = at \/ Earlier(f, at)
      BY <1>3, <3>1, NextIs
    <3> QED
      BY <2>1, <3>1, <3>2
  <2>4. n \in Scope /\ n[1] = m /\ \A q \in Scope : Earlier(q, n) => q[1] < m
    BY <1>3, <2>1, <2>3, NextIs
  <2>5. pc' = "capture" /\ at' = n /\ UNCHANGED <<result, gone>>
    BY <1>5 DEF Proceed, Go
  <2> HIDE DEF n
  <2>6. /\ UNCHANGED <<content, before, planned, foreign, raced, edits, head, moved, gitCalls>>
        /\ UNCHANGED <<declared, durable, seen, source, report, bound, submitted>>
    BY <1>1 DEF git, artifact
  <2>7. Scope' = Scope
    BY <2>6, SameScope
  <2>8. Shapes'
    BY <1>5, <2>5, <2>6 DEF Core, Shapes
  <2>9. Placed' /\ Declared' /\ Phased'
    BY <1>1, <1>3, <2>4, <2>5, <2>6, <2>7
    DEF Core, Placed, Declared, Phased, Sections, Installs, Undoing, Ended
  <2>10. Installed' /\ Retained' /\ Finished'
    BY <1>3, <2>5, OutsideInstall DEF Installs
  <2>11. Gathered'
    <3>1. \A p \in Scope : Captured(p)' => p[1] < m /\ Captured(p)
      BY <1>1, <1>3, <2>4, <2>5 DEF Captured, Sections
    <3>2. \A p \in Scope : Prepared(p)' => Prepared(p)
      BY <1>1, <1>3, <2>4, <2>5 DEF Prepared, Sections
    <3> QED
      BY <1>1, <2>6, <2>7, <3>1, <3>2 DEF Core, Gathered
  <2>12. Watched'
    <3>1. \A p \in Scope : p[1] = m => Looked(p)
      BY <1>1, <1>3 DEF Looked
    <3> QED
      BY <1>1, <1>3, <2>4, <2>5, <2>6, <2>7, <3>1 DEF Core, Watched, Sections
  <2> QED
    BY <2>8, <2>9, <2>10, <2>11, <2>12 DEF Core
<1>6. CASE Scope \cap FilesOf(m) = {} /\ NextRepository(m) /\ UNCHANGED <<result, gone>>
  <2>1. \A p \in Scope : p[1] <= at[1] => p[1] < at[1]
    <3>1. \A p \in Scope : p[1] \in Nat /\ p[1] # m
      BY <1>3, <1>6, FilesAre DEF FilesOf
    <3> QED
      BY <1>3, <3>1
  <2>2. \A p \in Scope : p[1] <= at[1] => Captured(p) /\ Prepared(p)
    BY <1>1, <2>1 DEF Captured, Prepared, Sections
  <2>3. planned' = planned /\ planned \in [Paths -> Images]
    BY <1>1 DEF Core, Shapes
  <2>4. \A p \in Scope : p[1] <= at[1] =>
            /\ before[p] = content[p] \/ p \in foreign
            /\ before[p] = seen[p] \/ p \in raced
            /\ planned'[p] = content[p] \/ p \in foreign
    BY <1>1, <2>2, <2>3 DEF Core, Gathered
  <2> QED
    BY <1>1, <1>3, <1>6, <2>3, <2>4, NextRepositoryKeeps
<1> QED
  BY <1>3, <1>4, <1>5, <1>6 DEF Recount

LEMMA CaptureKeeps == ASSUME Core, Capture PROVE Core'
<1>1. /\ pc = "capture" /\ before' = [before EXCEPT ![at] = content[at]]
      /\ UNCHANGED <<content, scope, after, planned, failing, written, foreign, raced, edits>>
      /\ UNCHANGED <<head, moved, gitCalls, declared, durable, seen, source, report, bound, submitted>>
  BY DEF Capture, ghosts, git, artifact
<1>2. /\ Scope' = Scope /\ Scope \in SUBSET Paths /\ at \in Scope /\ at \in Spots /\ at \in Paths
      /\ submitted /\ durable' = "nothing" /\ result = "none"
  BY <1>1, SameScope, ScopeIs, FilesAreSpots DEF Core, Placed, Phased, Shapes, Installs, Undoing
<1>3. /\ before' \in [Paths -> Images] /\ before'[at] = content[at]
      /\ \A p \in Paths : p # at => before'[p] = before[p]
  BY <1>1, <1>2 DEF Core, Shapes
<1>4. at[1] \in Repositories /\ at[1] \in Nat /\ \A p \in Scope : p[1] \in Nat /\ p \in Spots
  BY <1>2, FilesAre, FilesAreSpots DEF Repositories
<1>5. ASSUME NEW p \in Scope, p = at \/ Earlier(p, at)
      PROVE  /\ before'[p] = content[p] \/ p \in foreign
             /\ before'[p] = seen[p] \/ p \in raced
  <2>1. CASE p = at
    <3>1. ~Earlier(at, at)
      BY <1>2, Trichotomy
    <3>2. content[at] = seen[at] \/ at \in raced
      BY <1>1, <1>2, <3>1 DEF Core, Watched
    <3> QED
      BY <1>3, <2>1, <3>2
  <2>2. CASE Earlier(p, at)
    <3>1. p # at
      BY <1>2, <2>2, Trichotomy
    <3>2. Captured(p)
      BY <1>1, <2>2 DEF Captured
    <3> QED
      BY <1>2, <1>3, <3>1, <3>2 DEF Core, Gathered
  <2> QED
    BY <1>5, <2>1, <2>2
<1>6. ASSUME NEW p \in Scope, p[1] < at[1]
      PROVE  (p = at \/ Earlier(p, at)) /\ (planned[p] = content[p] \/ p \in foreign)
  <2>1. Prepared(p) /\ Earlier(p, at)
    BY <1>1, <1>2, <1>4, <1>6, Trichotomy DEF Prepared
  <2> QED
    BY <1>2, <2>1 DEF Core, Gathered
<1>7. CASE Refuse
  <2>1. /\ pc \notin Installs \cup {"idle"}
        /\ UNCHANGED <<content, Workspace, durable, artifact, bound, submitted>>
    BY <1>1 DEF Workspace, git, artifact, Installs
  <2> QED
    BY <1>3, <1>7, <2>1, RefuseKeeps
<1>8. CASE NextIn(Scope, at) # Nowhere /\ Proceed("capture", NextIn(Scope, at))
  <2> DEFINE n == NextIn(Scope, at)
  <2>1. /\ n \in Scope /\ n[1] = at[1] /\ Earlier(at, n)
        /\ \A q \in Scope : Earlier(q, n) => q = at \/ Earlier(q, at)
    BY <1>2, <1>8, NextIs
  <2>2. pc' = "capture" /\ at' = n /\ UNCHANGED <<result, gone>>
    BY <1>8 DEF Proceed, Go
  <2> HIDE DEF n
  <2>3. Shapes'
    BY <1>1, <1>3, <2>2 DEF Core, Shapes
  <2>4. Placed' /\ Declared' /\ Phased'
    BY <1>1, <1>2, <2>1, <2>2 DEF Core, Placed, Declared, Phased, Sections, Installs, Undoing, Ended
  <2>5. Installed' /\ Retained' /\ Finished'
    BY <1>2, <2>2, OutsideInstall DEF Installs
  <2>6. Gathered'
    <3>1. \A p \in Scope : Captured(p)' => p = at \/ Earlier(p, at)
      BY <1>6, <2>1, <2>2 DEF Captured
    <3>2. \A p \in Scope : Prepared(p)' => p[1] < at[1]
      BY <2>1, <2>2 DEF Prepared
    <3> QED
      BY <1>1, <1>2, <1>5, <1>6, <3>1, <3>2 DEF Gathered
  <2>7. Watched'
    <3>1. \A p \in Scope : ~Earlier(p, n) => ~Earlier(p, at)
      BY <1>2, <1>4, <2>1, EarlierGoesOn
    <3> QED
      BY <1>1, <1>2, <2>1, <2>2, <3>1 DEF Core, Watched, Sections
  <2> QED
    BY <2>3, <2>4, <2>5, <2>6, <2>7 DEF Core
<1>9. CASE NextIn(Scope, at) = Nowhere /\ Proceed("prepare", NextIn(Scope, Start(at[1])))
  <2> DEFINE s == Start(at[1])
             n == NextIn(Scope, s)
  <2>1. s \in Spots /\ s[1] = at[1] /\ \A q \in Scope : q # s /\ (Earlier(q, s) <=> q[1] < at[1])
    BY <1>2, <1>4, StartIs
  <2>2. n # Nowhere
    <3>1. ~(at = s \/ Earlier(at, s)) /\ at[1] <= s[1]
      BY <1>2, <1>4, <2>1
    <3> QED
      BY <1>2, <2>1, <3>1, NextIs
  <2>3. n \in Scope /\ n[1] = at[1] /\ \A q \in Scope : Earlier(q, n) => q[1] < at[1]
    <3> HIDE DEF s
    <3> QED
      BY <1>2, <2>1, <2>2, NextIs
  <2>4. \A q \in Scope : q[1] <= at[1] => q = at \/ Earlier(q, at)
    BY <1>2, <1>9, NextIs
  <2>5. pc' = "prepare" /\ at' = n /\ UNCHANGED <<result, gone>>
    BY <1>9 DEF Proceed, Go
  <2> HIDE DEF n, s
  <2>6. Shapes'
    BY <1>1, <1>3, <2>5 DEF Core, Shapes
  <2>7. Placed' /\ Declared' /\ Phased'
    BY <1>1, <1>2, <2>3, <2>5 DEF Core, Placed, Declared, Phased, Sections, Installs, Undoing, Ended
  <2>8. Installed' /\ Retained' /\ Finished'
    BY <1>2, <2>5, OutsideInstall DEF Installs
  <2>9. Gathered'
    <3>1. \A p \in Scope : Captured(p)' => p[1] <= at[1]
      BY <1>4, <2>3, <2>5 DEF Captured
    <3>2. \A p \in Scope : Prepared(p)' => p[1] < at[1]
      BY <2>3, <2>5 DEF Prepared
    <3> QED
      BY <1>1, <1>2, <1>5, <1>6, <2>4, <3>1, <3>2 DEF Gathered
  <2>10. Watched'
    BY <2>5 DEF Watched, Sections
  <2> QED
    BY <2>6, <2>7, <2>8, <2>9, <2>10 DEF Core
<1> QED
  BY <1>7, <1>8, <1>9 DEF Capture

LEMMA PrepareKeeps == ASSUME Core, Prepare PROVE Core'
<1>1. /\ pc = "prepare" /\ planned' = [planned EXCEPT ![at] = content[at]]
      /\ UNCHANGED <<content, before, result, foreign, raced, edits, git, declared, durable>>
      /\ UNCHANGED <<artifact, bound, gone, submitted>>
  BY DEF Prepare, Observe
<1>2. /\ UNCHANGED <<head, moved, gitCalls, seen, source, report>> /\ Scope' = Scope
      /\ Scope \in SUBSET Paths /\ at \in Scope /\ at \in Spots /\ at \in Paths
      /\ submitted /\ durable' = "nothing" /\ result = "none"
  BY <1>1, SameScope, ScopeIs, FilesAreSpots
  DEF Core, Placed, Phased, Shapes, Installs, Undoing, git, artifact
<1>3. /\ planned' \in [Paths -> Images] /\ planned'[at] = content[at]
      /\ \A p \in Paths : p # at => planned'[p] = planned[p]
  BY <1>1, <1>2 DEF Core, Shapes
<1>4. \A p \in Scope : p[1] \in Nat /\ p \in Spots /\ at[1] \in Nat
  BY <1>2, FilesAre, FilesAreSpots
<1>5. ASSUME NEW p \in Scope, p = at \/ Earlier(p, at)
      PROVE  planned'[p] = content[p] \/ p \in foreign
  <2>1. CASE p = at
    BY <1>3, <2>1
  <2>2. CASE Earlier(p, at)
    <3>1. p # at
      BY <1>2, <2>2, Trichotomy
    <3>2. Prepared(p)
      BY <1>1, <2>2 DEF Prepared
    <3> QED
      BY <1>2, <1>3, <3>1, <3>2 DEF Core, Gathered
  <2> QED
    BY <1>5, <2>1, <2>2
<1>6. ASSUME NEW p \in Scope, p[1] <= at[1]
      PROVE  /\ before[p] = content[p] \/ p \in foreign
             /\ before[p] = seen[p] \/ p \in raced
  <2>1. Captured(p)
    BY <1>1, <1>4, <1>6 DEF Captured
  <2> QED
    BY <1>2, <2>1 DEF Core, Gathered
<1> DEFINE n == NextIn(Scope, at)
<1>7. CASE n # Nowhere
  <2>1. /\ n \in Scope /\ n[1] = at[1]
        /\ \A q \in Scope : Earlier(q, n) => q = at \/ Earlier(q, at)
    BY <1>2, <1>7, NextIs
  <2>2. pc' = "prepare" /\ at' = n /\ UNCHANGED <<scope, after, failing, written>>
    BY <1>7 DEF Prepare, Go
  <2> HIDE DEF n
  <2>3. Shapes'
    BY <1>1, <1>2, <1>3, <2>2 DEF Core, Shapes
  <2>4. Placed' /\ Declared' /\ Phased'
    BY <1>1, <1>2, <2>1, <2>2 DEF Core, Placed, Declared, Phased, Sections, Installs, Undoing, Ended
  <2>5. Installed' /\ Retained' /\ Finished'
    BY <1>1, <1>2, <2>2, OutsideInstall DEF Installs
  <2>6. Gathered'
    <3>1. \A p \in Scope : Captured(p)' => p[1] <= at[1]
      BY <1>4, <2>1, <2>2 DEF Captured
    <3>2. \A p \in Scope : Prepared(p)' => p = at \/ Earlier(p, at)
      BY <1>2, <1>4, <2>1, <2>2, Trichotomy DEF Prepared
    <3> QED
      BY <1>1, <1>2, <1>5, <1>6, <3>1, <3>2 DEF Gathered
  <2>7. Watched'
    BY <2>2 DEF Watched, Sections
  <2> QED
    BY <2>3, <2>4, <2>5, <2>6, <2>7 DEF Core
<1>8. CASE n = Nowhere
  <2>1. NextRepository(at[1])
    BY <1>8 DEF Prepare
  <2>2. \A p \in Scope : p[1] <= at[1] => p = at \/ Earlier(p, at)
    BY <1>2, <1>8, NextIs
  <2>3. \A p \in Scope : p[1] <= at[1] =>
            /\ before[p] = content[p] \/ p \in foreign
            /\ before[p] = seen[p] \/ p \in raced
            /\ planned'[p] = content[p] \/ p \in foreign
    BY <1>5, <1>6, <2>2
  <2> QED
    BY <1>1, <1>2, <1>3, <2>1, <2>3, NextRepositoryKeeps
<1> QED
  BY <1>7, <1>8

-----------------------------------------------------------------------------
(* The installer *)

LEMMA InstallStep ==
  ASSUME Core, pc \in Installs, UNCHANGED <<plan, raced, edits, git, others>>,
         content' \in [Paths -> Images], planned' \in [Paths -> Images],
         written' \in SUBSET Paths, foreign' \in SUBSET Paths,
         failing' \in 0 .. Members, result' \in Results,
         \/ pc' \in Installs \ Undoing /\ at' \in scope /\ result' = "none"
         \/ pc' \in Undoing /\ at' \in scope /\ result' \in {"rolled-back", "repair-required"}
         \/ pc' = "idle" /\ at' = Nowhere
  PROVE  Shapes' /\ Placed' /\ Declared' /\ Phased' /\ Gathered' /\ Watched'
<1>1. /\ UNCHANGED <<scope, before, after, raced, edits, head, moved, gitCalls, declared, bound>>
      /\ UNCHANGED <<gone, seen, source, report, submitted, durable>>
  BY DEF plan, git, others, artifact
<1>2. Scope' = Scope
  BY <1>1, SameScope
<1>3. Shapes'
  BY <1>1 DEF Core, Shapes
<1>4. Placed'
  BY <1>1 DEF Core, Placed, Sections, Installs, Undoing
<1>5. Declared' /\ Phased'
  BY <1>1, <1>2 DEF Core, Placed, Declared, Phased, Installs, Undoing, Ended
<1>6. Gathered' /\ Watched'
  BY NoGathering DEF Undoing, Installs
<1> QED
  BY <1>3, <1>4, <1>5, <1>6

LEMMA InstallFacts ==
  ASSUME Core, pc \in Installs
  PROVE  /\ scope \in SUBSET Paths /\ scope \subseteq Spots /\ scope = Scope /\ after = seen
         /\ at \in scope /\ at \in Paths /\ at \in Spots /\ ~Earlier(at, at)
         /\ FirstOf(scope) \in scope /\ \A q \in scope : ~Earlier(q, FirstOf(scope))
         /\ \A q \in scope : q[1] \in 1 .. Members
         /\ durable # "state" /\ failing \in 0 .. Members /\ Members \in Nat
<1>1. scope \in SUBSET Paths /\ at \in scope
  BY DEF Core, Shapes, Placed
<1>2. at \in Paths /\ at \in Spots /\ ~Earlier(at, at)
  BY <1>1, FilesAreSpots, Trichotomy
<1> QED
  BY <1>1, <1>2, FilesAreSpots, FilesAre, FirstOfAll
  DEF Core, Shapes, Declared, Phased, Ended, Installs

LEMMA PlanKeeps == ASSUME Core, Plan, UNCHANGED <<git, others>> PROVE Core'
<1>1. /\ pc = "plan" /\ planned' = [planned EXCEPT ![at] = content[at]]
      /\ UNCHANGED <<content, plan, failing, ghosts, edits, result>>
      /\ UNCHANGED <<scope, before, after, written, foreign, raced>>
  BY DEF Plan, Observe, plan, ghosts
<1>2. result = "none" /\ pc \in Installs
  BY <1>1 DEF Core, Phased, Undoing, Installs
<1>3. /\ planned' \in [Paths -> Images] /\ planned'[at] = content[at]
      /\ \A p \in Paths : p # at => planned'[p] = planned[p]
  BY <1>1, <1>2, InstallFacts DEF Core, Shapes
<1>4. UNCHANGED <<declared, source, seen, durable>>
  BY DEF others, artifact
<1>5. ASSUME NEW p \in scope \ foreign, p = at \/ Earlier(p, at) PROVE planned'[p] = content[p]
  <2>1. p # at => planned'[p] = planned[p] /\ planned[p] = content[p]
    BY <1>1, <1>2, <1>3, <1>5, InstallFacts DEF Core, Installed
  <2> QED
    BY <1>3, <2>1
<1>6. Retained' /\ Finished'
  <2>1. \/ pc' = "plan" \/ pc' = "check"
    BY DEF Plan, Go
  <2> QED
    BY <1>1, <1>2, <1>4, <2>1, SameScope DEF Core, Retained, Finished, Ended, Installs
<1>7. CASE Following(at) # Nowhere
  <2> DEFINE f == Following(at)
  <2>1. f \in scope /\ \A q \in scope : Earlier(q, f) => q = at \/ Earlier(q, at)
    BY <1>2, <1>7, InstallFacts, FollowingIs
  <2>2. pc' = "plan" /\ at' = f
    BY <1>7 DEF Plan, Go
  <2> HIDE DEF f
  <2>3. Shapes' /\ Placed' /\ Declared' /\ Phased' /\ Gathered' /\ Watched'
    BY <1>1, <1>2, <1>3, <2>1, <2>2, InstallStep DEF Core, Shapes, Installs, Undoing
  <2>4. Installed'
    BY <1>1, <1>2, <1>5, <2>1, <2>2 DEF Core, Installed, Installs, Writing, Undoing
  <2> QED
    BY <1>6, <2>3, <2>4 DEF Core
<1>8. CASE Following(at) = Nowhere
  <2>1. pc' = "check" /\ at' = FirstOf(scope)
    BY <1>8 DEF Plan, Go
  <2>2. \A q \in scope : q = at \/ Earlier(q, at)
    BY <1>2, <1>8, InstallFacts, FollowingIs
  <2>3. Shapes' /\ Placed' /\ Declared' /\ Phased' /\ Gathered' /\ Watched'
    BY <1>1, <1>2, <1>3, <2>1, InstallFacts, InstallStep DEF Core, Shapes, Installs, Undoing
  <2>4. FirstOf(scope) \in scope /\ \A q \in scope : ~Earlier(q, FirstOf(scope))
    BY <1>2, InstallFacts
  <2>5. Installed'
    BY <1>1, <1>2, <1>5, <2>1, <2>2, <2>4 DEF Core, Installed, Installs, Writing, Undoing
  <2> QED
    BY <1>6, <2>3, <2>5 DEF Core
<1> QED
  BY <1>7, <1>8

LEMMA CheckKeeps == ASSUME Core, Check, UNCHANGED <<git, others>> PROVE Core'
<1>1. /\ pc = "check" /\ UNCHANGED <<content, plan, planned, failing, ghosts, edits>>
      /\ UNCHANGED <<scope, before, after, written, foreign, raced>>
  BY DEF Check, plan, ghosts
<1>2. result = "none" /\ pc \in Installs
  BY <1>1 DEF Core, Phased, Undoing, Installs
<1>3. UNCHANGED <<declared, source, seen, durable>> /\ Scope' = Scope
  BY SameScope DEF others, artifact
<1>4. CASE Return("collision") /\ (planned[at] \notin {before[at], after[at]} \/ content[at] # planned[at])
  <2>1. at \in foreign /\ written = {}
    BY <1>1, <1>2, <1>4, InstallFacts DEF Core, Installed
  <2>2. pc' = "idle" /\ at' = Nowhere /\ result' = "collision"
    BY <1>4 DEF Return, Go
  <2>3. Shapes' /\ Placed' /\ Declared' /\ Phased' /\ Gathered' /\ Watched'
    BY <1>1, <1>2, <2>2, InstallStep DEF Core, Shapes, Results
  <2>4. Installed' /\ Retained' /\ Finished'
    BY <1>1, <1>3, <2>1, <2>2
    DEF Core, Installed, Retained, Finished, Ended, Installs, Writing, Undoing
  <2> QED
    BY <2>3, <2>4 DEF Core
<1>5. CASE /\ planned[at] \in {before[at], after[at]} /\ content[at] = planned[at]
           /\ IF Following(at) # Nowhere THEN Go("check", Following(at)) ELSE Go("recheck", FirstOf(scope))
           /\ UNCHANGED result
  <2>1. \A p \in scope : p = at \/ Earlier(p, at) => planned[p] \in {before[p], after[p]}
    BY <1>1, <1>5 DEF Core, Installed
  <2>2. CASE Following(at) # Nowhere
    <3> DEFINE f == Following(at)
    <3>1. f \in scope /\ \A q \in scope : Earlier(q, f) => q = at \/ Earlier(q, at)
      BY <1>2, <2>2, InstallFacts, FollowingIs
    <3>2. pc' = "check" /\ at' = f
      BY <1>5, <2>2 DEF Go
    <3> HIDE DEF f
    <3>3. Shapes' /\ Placed' /\ Declared' /\ Phased' /\ Gathered' /\ Watched'
      BY <1>1, <1>2, <1>5, <3>1, <3>2, InstallStep DEF Core, Shapes, Installs, Undoing
    <3>4. Installed'
      BY <1>1, <1>2, <2>1, <3>1, <3>2 DEF Core, Installed, Installs, Writing, Undoing
    <3>5. Retained' /\ Finished'
      BY <1>1, <1>3, <3>2 DEF Core, Retained, Finished, Ended, Installs
    <3> QED
      BY <3>3, <3>4, <3>5 DEF Core
  <2>3. CASE Following(at) = Nowhere
    <3>1. pc' = "recheck" /\ at' = FirstOf(scope)
      BY <1>5, <2>3 DEF Go
    <3>2. \A p \in scope : planned[p] \in {before[p], after[p]}
      BY <1>2, <2>1, <2>3, InstallFacts, FollowingIs
    <3>3. /\ FirstOf(scope) \in scope
          /\ \A q \in scope : ~Earlier(q, FirstOf(scope)) /\ ~(q[1] < FirstOf(scope)[1])
      BY <1>2, InstallFacts, Trichotomy
    <3>4. Shapes' /\ Placed' /\ Declared' /\ Phased' /\ Gathered' /\ Watched'
      BY <1>1, <1>2, <1>5, <3>1, <3>3, InstallStep DEF Core, Shapes, Installs, Undoing
    <3>5. Installed'
      BY <1>1, <1>2, <3>1, <3>2, <3>3 DEF Core, Installed, Installs, Writing, Undoing, Turned
    <3>6. Retained' /\ Finished'
      BY <1>1, <1>3, <3>1 DEF Core, Retained, Finished, Ended, Installs
    <3> QED
      BY <3>4, <3>5, <3>6 DEF Core
  <2> QED
    BY <2>2, <2>3
<1> QED
  BY <1>4, <1>5 DEF Check

(* A run that lost its generation undoes what lies before a spot. *)
LEMMA UndoKeeps ==
  ASSUME Core, pc \in Writing, NEW x \in Spots, Undo(Preceding(x)),
         UNCHANGED <<content, plan, planned, ghosts, edits, git, others>>,
         \A p \in scope : Turned(p) => Earlier(p, x)
  PROVE  Core'
<1> DEFINE f == Preceding(x)
<1>1. /\ UNCHANGED <<scope, before, after, written, foreign, raced>> /\ failing' = at[1]
      /\ UNCHANGED <<declared, source, seen, durable>> /\ Scope' = Scope
      /\ result' = "rolled-back"
  BY SameScope DEF others, artifact, plan, ghosts, Undo
<1>2. pc \in Installs /\ pc \notin Undoing
  BY DEF Writing, Installs, Undoing
<1>3. \A p \in written : p \in scope /\ Earlier(p, x)
  BY DEF Core, Installed
<1>4. /\ f # Nowhere => f \in scope /\ \A q \in scope : Earlier(q, x) => q = f \/ Earlier(q, f)
      /\ f = Nowhere => \A q \in scope : ~Earlier(q, x)
  BY <1>2, InstallFacts, PrecedingIs
<1>5. \/ f = Nowhere /\ pc' = "idle" /\ at' = Nowhere
      \/ f # Nowhere /\ pc' = "undo" /\ at' = f
  BY DEF Undo, Go
<1> HIDE DEF f
<1>6. Shapes' /\ Placed' /\ Declared' /\ Phased' /\ Gathered' /\ Watched'
  <2>1. at[1] \in 0 .. Members
    BY <1>2, InstallFacts
  <2> QED
    BY <1>1, <1>2, <1>4, <1>5, <2>1, InstallStep DEF Core, Shapes, Installs, Undoing, Results
<1>7. Installed' /\ Retained' /\ Finished'
  BY <1>1, <1>2, <1>3, <1>4, <1>5
  DEF Core, Installed, Retained, Finished, Ended, Installs, Writing, Undoing
<1> QED
  BY <1>6, <1>7 DEF Core

LEMMA RecheckKeeps == ASSUME Core, Recheck, UNCHANGED <<git, others>> PROVE Core'
<1>1. /\ pc = "recheck" /\ UNCHANGED <<content, plan, planned, ghosts, edits>>
      /\ UNCHANGED <<scope, before, after, written, foreign, raced>>
  BY DEF Recheck, plan, ghosts
<1>2. result = "none" /\ pc \in Installs /\ pc \in Writing
  BY <1>1 DEF Core, Phased, Undoing, Installs, Writing
<1>3. UNCHANGED <<declared, source, seen, durable>> /\ Scope' = Scope
  BY SameScope DEF others, artifact
<1>4. CASE Undo(Preceding(<<at[1], 0>>))
  <2>1. <<at[1], 0>> \in Spots
    BY <1>2, InstallFacts DEF Spots
  <2>2. \A p \in scope : Turned(p) => Earlier(p, <<at[1], 0>>)
    BY <1>1 DEF Turned, Earlier
  <2> QED
    BY <1>1, <1>2, <1>4, <2>1, <2>2, UndoKeeps
<1>5. CASE /\ IF Following(at)[1] = at[1] THEN Go("recheck", Following(at))
              ELSE Go("look", FirstOf(scope \cap FilesOf(at[1])))
           /\ UNCHANGED <<failing, result>>
  <2> DEFINE T == scope \cap FilesOf(at[1])
             f == FirstOf(T)
  <2>1. T \in SUBSET Paths /\ at \in T /\ \A q \in scope : q[1] = at[1] <=> q \in T
    BY <1>2, InstallFacts DEF FilesOf
  <2>2. f \in T /\ \A q \in T : ~Earlier(q, f)
    BY <2>1, FirstOfAll
  <2>3. f \in scope /\ f[1] = at[1] /\ \A q \in scope : Earlier(q, f) <=> q[1] < at[1]
    <3>1. f \in scope /\ f[1] = at[1] /\ f \in Spots
      BY <1>2, <2>2, InstallFacts DEF FilesOf
    <3> HIDE DEF f, T
    <3>2. ASSUME NEW q \in scope PROVE Earlier(q, f) <=> q[1] < at[1]
      <4>1. q \in Spots /\ q[1] \in Nat /\ at[1] \in Nat
        BY <1>2, InstallFacts
      <4>2. q[1] = at[1] => ~Earlier(q, f)
        BY <2>1, <2>2
      <4> QED
        BY <3>1, <4>1, <4>2, Trichotomy
    <3> QED
      BY <3>1, <3>2
  <2>4. \/ pc' = "recheck" /\ at' \in scope /\ at'[1] = at[1]
        \/ pc' = "look" /\ at' = f
    <3>1. Following(at)[1] = at[1] => Following(at) \in scope
      <4>1. Nowhere[1] = 0 /\ at[1] # 0
        BY <1>2, InstallFacts DEF Nowhere
      <4> QED
        BY <1>2, <4>1, InstallFacts, FollowingIs
    <3> QED
      BY <1>5, <3>1 DEF Go
  <2> HIDE DEF f, T
  <2>5. Shapes' /\ Placed' /\ Declared' /\ Phased' /\ Gathered' /\ Watched'
    BY <1>1, <1>2, <1>5, <2>3, <2>4, InstallStep DEF Core, Shapes, Installs, Undoing
  <2>6. \A p \in scope : Turned(p)' <=> Turned(p)
    BY <1>1, <2>3, <2>4 DEF Turned
  <2>7. Installed'
    BY <1>1, <1>2, <2>4, <2>6 DEF Core, Installed, Installs, Writing, Undoing
  <2>8. Retained' /\ Finished'
    BY <1>1, <1>2, <1>3, <2>4 DEF Core, Retained, Finished, Ended, Installs
  <2> QED
    BY <2>5, <2>7, <2>8 DEF Core
<1> QED
  BY <1>4, <1>5 DEF Recheck

(* On to the next file: the one at hand has its image, or somebody changed it. *)
LEMMA AdvanceKeeps ==
  ASSUME Core, pc \in {"look", "write"}, Advance,
         UNCHANGED <<plan, planned, failing, raced, edits, git, others>>,
         content' \in [Paths -> Images], written' \in SUBSET Paths, foreign' \in SUBSET Paths,
         \A p \in scope : p = at \/ Earlier(p, at) => content'[p] = after[p] \/ p \in foreign',
         \A p \in scope : ~(p = at \/ Earlier(p, at)) =>
            p \notin written' /\ (content'[p] = planned[p] \/ p \in foreign'),
         \A p \in written' : p \in scope /\ planned[p] # after[p],
         durable # "nothing" => \A p \in Scope \ foreign' : content'[p] \in {BaseTree[p], seen[p]}
  PROVE  Core'
<1> DEFINE f == Following(at)
<1>1. /\ UNCHANGED <<scope, before, after, planned, raced, failing, declared, source, seen, durable>>
      /\ Scope' = Scope /\ result = "none" /\ pc \in Installs
  BY SameScope DEF others, artifact, plan, Core, Phased, Installs, Undoing
<1>2. /\ f # Nowhere => f \in scope /\ Earlier(at, f)
                        /\ \A q \in scope : Earlier(q, f) => q = at \/ Earlier(q, at)
      /\ f = Nowhere => \A q \in scope : q = at \/ Earlier(q, at)
  BY <1>1, InstallFacts, FollowingIs
<1>3. \/ f = Nowhere /\ pc' = "idle" /\ at' = Nowhere /\ result' = "applied"
      \/ f # Nowhere /\ pc' = "look" /\ at' = f /\ result' = result
      \/ f # Nowhere /\ pc' = "recheck" /\ at' = f /\ f[1] # at[1] /\ result' = result
  BY DEF Advance, Return, Go
<1> HIDE DEF f
<1>4. Shapes' /\ Placed' /\ Declared' /\ Phased' /\ Gathered' /\ Watched'
  BY <1>1, <1>2, <1>3, InstallFacts, InstallStep DEF Core, Shapes, Installs, Undoing, Results
<1>5. ASSUME f # Nowhere, NEW p \in scope PROVE Turned(p)' <=> p = at \/ Earlier(p, at)
  <2>1. p \in Spots /\ f \in Spots /\ at \in Spots /\ p[1] \in Nat /\ f[1] \in Nat /\ at[1] \in Nat
    BY <1>1, <1>2, <1>5, InstallFacts
  <2>2. Earlier(p, f) <=> p = at \/ Earlier(p, at)
    BY <1>2, <1>5, <2>1, EarlierGoesOn
  <2>3. CASE pc' = "look"
    BY <1>3, <1>5, <2>2, <2>3 DEF Turned
  <2>4. CASE pc' = "recheck"
    <3>1. at[1] < f[1]
      BY <1>2, <1>3, <1>5, <2>1, <2>4, Trichotomy
    <3>2. p = at \/ Earlier(p, at) => p[1] <= at[1]
      BY <2>1, Trichotomy
    <3>3. p[1] < f[1] => Earlier(p, f)
      BY <2>1, Trichotomy
    <3> QED
      BY <1>3, <1>5, <2>1, <2>2, <2>4, <3>1, <3>2, <3>3 DEF Turned
  <2> QED
    BY <1>3, <1>5, <2>3, <2>4
<1>6. Installed' /\ Finished'
  <2>1. CASE f = Nowhere
    BY <1>1, <1>2, <1>3, <2>1 DEF Installed, Finished, Ended, Installs, Writing, Undoing
  <2>2. CASE f # Nowhere
    <3>1. pc' \in {"look", "recheck"} /\ pc \in Writing
      BY <1>3, <2>2 DEF Writing
    <3>2. \A p \in scope : before[p] \in {BaseTree[p], after[p]} \/ p \in raced
      BY <1>1 DEF Core, Installed
    <3>3. \A p \in scope : planned[p] \in {before[p], after[p]}
      BY <3>1 DEF Core, Installed
    <3> QED
      BY <1>1, <1>5, <2>2, <3>1, <3>2, <3>3
      DEF Installed, Finished, Ended, Installs, Writing, Undoing
  <2> QED
    BY <2>1, <2>2
<1>7. Retained'
  BY <1>1 DEF Core, Retained
<1> QED
  BY <1>4, <1>6, <1>7 DEF Core

LEMMA LookKeeps == ASSUME Core, Look, UNCHANGED <<git, others>> PROVE Core'
<1>1. /\ pc = "look" /\ UNCHANGED <<content, plan, planned, ghosts, edits>>
      /\ UNCHANGED <<scope, before, after, written, foreign, raced>>
  BY DEF Look, plan, ghosts
<1>2. result = "none" /\ pc \in Installs /\ pc \in Writing
  BY <1>1 DEF Core, Phased, Undoing, Installs, Writing
<1>3. UNCHANGED <<declared, source, seen, durable>> /\ Scope' = Scope
  BY SameScope DEF others, artifact
<1>4. /\ \A p \in scope : Earlier(p, at) => content[p] = after[p] \/ p \in foreign
      /\ \A p \in scope : ~Earlier(p, at) => p \notin written /\ (content[p] = planned[p] \/ p \in foreign)
      /\ \A p \in written : p \in scope /\ planned[p] # after[p]
  BY <1>1, <1>2 DEF Core, Installed, Turned
<1>5. CASE planned[at] = after[at] /\ Advance /\ UNCHANGED failing
  <2>1. content[at] = after[at] \/ at \in foreign
    BY <1>2, <1>4, <1>5, InstallFacts
  <2>2. durable # "nothing" => \A p \in Scope \ foreign' : content'[p] \in {BaseTree[p], seen[p]}
    BY <1>1 DEF Core, Retained
  <2> QED
    BY <1>1, <1>4, <1>5, <2>1, <2>2, AdvanceKeeps DEF Core, Shapes
<1>6. CASE /\ planned[at] # after[at] /\ content[at] = planned[at]
           /\ Go("write", at) /\ UNCHANGED <<failing, result>>
  <2>1. pc' = "write" /\ at' = at
    BY <1>6 DEF Go
  <2>2. Shapes' /\ Placed' /\ Declared' /\ Phased' /\ Gathered' /\ Watched'
    BY <1>1, <1>2, <1>6, <2>1, InstallFacts, InstallStep DEF Core, Shapes, Installs, Undoing
  <2>3. Installed'
    BY <1>1, <1>2, <1>4, <1>6, <2>1 DEF Core, Installed, Installs, Writing, Undoing, Turned
  <2>4. Retained' /\ Finished'
    BY <1>1, <1>2, <1>3, <2>1 DEF Core, Retained, Finished, Ended, Installs
  <2> QED
    BY <2>2, <2>3, <2>4 DEF Core
<1>7. CASE Undo(Preceding(at))
  <2>1. \A p \in scope : Turned(p) => Earlier(p, at)
    BY <1>1 DEF Turned
  <2> QED
    BY <1>1, <1>2, <1>7, <2>1, InstallFacts, UndoKeeps
<1> QED
  BY <1>5, <1>6, <1>7 DEF Look

(* A run that ends with no claim about its files. *)
LEMMA StopKeeps ==
  ASSUME Core, pc \in Installs, pc' = "idle", at' = Nowhere, result' \in {"thrown", "repair-required"},
         UNCHANGED <<plan, planned, failing, raced, edits, git, others>>,
         content' \in [Paths -> Images], written' \in SUBSET Paths, foreign' \in SUBSET Paths,
         durable # "nothing" => \A p \in Scope \ foreign' : content'[p] \in {BaseTree[p], seen[p]}
  PROVE  Core'
<1>1. UNCHANGED <<scope, before, after, declared, source, seen, durable>> /\ Scope' = Scope
  BY SameScope DEF others, artifact, plan
<1>2. Shapes' /\ Placed' /\ Declared' /\ Phased' /\ Gathered' /\ Watched'
  BY InstallStep DEF Core, Shapes, Results
<1>3. Installed' /\ Retained' /\ Finished'
  BY <1>1 DEF Installed, Retained, Finished, Ended, Installs, Writing, Undoing
<1> QED
  BY <1>2, <1>3 DEF Core

LEMMA WriteKeeps == ASSUME Core, Write, UNCHANGED <<git, others>> PROVE Core'
<1>1. /\ pc = "write" /\ UNCHANGED <<plan, planned, failing, raced, edits>>
      /\ UNCHANGED <<scope, before, after>>
  BY DEF Write, plan
<1>2. result = "none" /\ pc \in Installs /\ pc \in Writing
  BY <1>1 DEF Core, Phased, Undoing, Installs, Writing
<1>3. /\ \A p \in scope : Earlier(p, at) => content[p] = after[p] \/ p \in foreign
      /\ \A p \in scope : ~Earlier(p, at) => p \notin written /\ (content[p] = planned[p] \/ p \in foreign)
      /\ \A p \in written : p \in scope /\ planned[p] # after[p]
      /\ planned[at] # after[at]
  BY <1>1, <1>2 DEF Core, Installed, Turned
<1>4. CASE UNCHANGED <<content, written, foreign>> /\ Return("thrown")
  <2>1. durable # "nothing" => \A p \in Scope \ foreign' : content'[p] \in {BaseTree[p], seen[p]}
    BY <1>4 DEF Core, Retained
  <2> QED
    BY <1>1, <1>2, <1>4, <2>1, StopKeeps DEF Core, Shapes, Return, Go
<1>5. CASE /\ content' = [content EXCEPT ![at] = after[at]]
           /\ written' = written \cup {at} /\ foreign' = foreign \ {at}
           /\ Advance \/ Return("thrown")
  <2>1. /\ content' \in [Paths -> Images] /\ content'[at] = after[at]
        /\ \A p \in Paths : p # at => content'[p] = content[p]
        /\ written' \in SUBSET Paths /\ foreign' \in SUBSET Paths
        /\ scope \in SUBSET Paths /\ at \in scope /\ after = seen /\ scope = Scope
    BY <1>2, <1>5, InstallFacts DEF Core, Shapes
  <2>2. durable # "nothing" => \A p \in Scope \ foreign' : content'[p] \in {BaseTree[p], seen[p]}
    BY <1>5, <2>1 DEF Core, Retained
  <2>3. CASE Return("thrown")
    BY <1>1, <1>2, <2>1, <2>2, <2>3, StopKeeps DEF Return, Go
  <2>4. CASE Advance
    <3>1. \A p \in scope : p = at \/ Earlier(p, at) => content'[p] = after[p] \/ p \in foreign'
      BY <1>3, <1>5, <2>1
    <3>2. \A p \in scope : ~(p = at \/ Earlier(p, at)) =>
            p \notin written' /\ (content'[p] = planned[p] \/ p \in foreign')
      BY <1>3, <1>5, <2>1
    <3>3. \A p \in written' : p \in scope /\ planned[p] # after[p]
      BY <1>3, <1>5, <2>1
    <3> QED
      BY <1>1, <2>1, <2>2, <2>4, <3>1, <3>2, <3>3, AdvanceKeeps
  <2> QED
    BY <1>5, <2>3, <2>4
<1> QED
  BY <1>4, <1>5 DEF Write

(* Rollback goes back to the file before, or has ended. *)
LEMMA BackKeeps ==
  ASSUME Core, pc \in Undoing, UNCHANGED result,
         Go(IF Preceding(at) = Nowhere THEN "idle" ELSE "undo", Preceding(at)),
         UNCHANGED <<plan, planned, failing, foreign, raced, edits, git, others>>,
         content' \in [Paths -> Images], written' \in SUBSET written, at \notin written',
         durable # "nothing" => \A p \in Scope \ foreign : content'[p] \in {BaseTree[p], seen[p]}
  PROVE  Core'
<1> DEFINE f == Preceding(at)
<1>1. /\ UNCHANGED <<scope, before, after, planned, foreign, raced, failing, declared, source, seen>>
      /\ durable' = durable /\ Scope' = Scope
      /\ result \in {"rolled-back", "repair-required"} /\ pc \in Installs
  BY SameScope DEF others, artifact, plan, Core, Phased, Installs, Undoing
<1>2. /\ f # Nowhere => f \in scope /\ \A q \in scope : Earlier(q, at) => q = f \/ Earlier(q, f)
      /\ f = Nowhere => \A q \in scope : ~Earlier(q, at)
  BY <1>1, InstallFacts, PrecedingIs
<1>3. \/ f = Nowhere /\ pc' = "idle" /\ at' = Nowhere
      \/ f # Nowhere /\ pc' = "undo" /\ at' = f
  BY DEF Go
<1> HIDE DEF f
<1>4. Shapes' /\ Placed' /\ Declared' /\ Phased' /\ Gathered' /\ Watched'
  <2>1. written' \in SUBSET Paths
    BY DEF Core, Shapes
  <2> QED
    BY <1>1, <1>2, <1>3, <2>1, InstallStep DEF Core, Shapes, Installs, Undoing, Results
<1>5. /\ \A p \in written' : p \in scope /\ planned[p] # after[p]
      /\ result = "rolled-back" => \A p \in written' : Earlier(p, at)
  BY <1>1 DEF Core, Installed
<1>6. Installed' /\ Retained' /\ Finished'
  BY <1>1, <1>2, <1>3, <1>5
  DEF Core, Installed, Retained, Finished, Ended, Installs, Writing, Undoing
<1> QED
  BY <1>4, <1>6 DEF Core

LEMMA UndoLookKeeps == ASSUME Core, UndoLook, UNCHANGED <<git, others>> PROVE Core'
<1>1. /\ pc = "undo" /\ UNCHANGED <<content, plan, planned, failing, ghosts, edits>>
      /\ UNCHANGED <<scope, before, after, written, foreign, raced>>
  BY DEF UndoLook, plan, ghosts
<1>2. /\ pc \in Installs /\ pc \in Undoing /\ result \in {"rolled-back", "repair-required"}
      /\ UNCHANGED <<declared, source, seen, durable>> /\ Scope' = Scope
  BY <1>1, SameScope DEF others, artifact, Core, Phased, Installs, Undoing
<1>3. durable # "nothing" => \A p \in Scope \ foreign : content'[p] \in {BaseTree[p], seen[p]}
  BY <1>1 DEF Core, Retained
<1>4. CASE /\ planned[at] = after[at] /\ UNCHANGED result
           /\ Go(IF Preceding(at) = Nowhere THEN "idle" ELSE "undo", Preceding(at))
  <2>1. at \notin written
    BY <1>2, <1>4 DEF Core, Installed
  <2> QED
    BY <1>1, <1>2, <1>3, <1>4, <2>1, BackKeeps DEF Core, Shapes
<1>5. CASE content[at] = after[at] /\ Go("undo-write", at) /\ UNCHANGED result
  <2>1. pc' = "undo-write" /\ at' = at
    BY <1>5 DEF Go
  <2>2. Shapes' /\ Placed' /\ Declared' /\ Phased' /\ Gathered' /\ Watched'
    BY <1>1, <1>2, <1>5, <2>1, InstallFacts, InstallStep DEF Core, Shapes, Installs, Undoing
  <2>3. Installed' /\ Retained' /\ Finished'
    BY <1>1, <1>2, <1>5, <2>1
    DEF Core, Installed, Retained, Finished, Ended, Installs, Writing, Undoing
  <2> QED
    BY <2>2, <2>3 DEF Core
<1>6. CASE /\ result' = "repair-required"
           /\ LET rest == Preceding(<<failing, 0>>)
              IN  IF at[1] = failing /\ rest # Nowhere THEN Go("undo", rest) ELSE Go("idle", Nowhere)
  <2> DEFINE rest == Preceding(<<failing, 0>>)
  <2>1. rest # Nowhere => rest \in scope
    <3>1. <<failing, 0>> \in Spots /\ scope \in SUBSET Paths
      BY <1>2, InstallFacts DEF Spots
    <3> QED
      BY <3>1, PrecedingIs
  <2>2. \/ pc' = "undo" /\ at' = rest /\ rest # Nowhere
        \/ pc' = "idle" /\ at' = Nowhere
    BY <1>6 DEF Go
  <2> HIDE DEF rest
  <2>3. Shapes' /\ Placed' /\ Declared' /\ Phased' /\ Gathered' /\ Watched'
    BY <1>1, <1>2, <1>6, <2>1, <2>2, InstallStep DEF Core, Shapes, Installs, Undoing, Results
  <2>4. Installed' /\ Retained' /\ Finished'
    BY <1>1, <1>2, <1>6, <2>2
    DEF Core, Installed, Retained, Finished, Ended, Installs, Writing, Undoing
  <2> QED
    BY <2>3, <2>4 DEF Core
<1> QED
  BY <1>4, <1>5, <1>6 DEF UndoLook

LEMMA UndoWriteKeeps == ASSUME Core, UndoWrite, UNCHANGED <<git, others>> PROVE Core'
<1>1. /\ pc = "undo-write" /\ UNCHANGED <<plan, planned, failing, foreign, raced, edits>>
      /\ UNCHANGED <<scope, before, after>> /\ pc \in Installs /\ pc \in Undoing
  BY DEF UndoWrite, plan, Installs, Undoing
<1>2. CASE UNCHANGED <<content, written>> /\ Return("thrown")
  <2>1. durable # "nothing" => \A p \in Scope \ foreign' : content'[p] \in {BaseTree[p], seen[p]}
    BY <1>1, <1>2 DEF Core, Retained
  <2> QED
    BY <1>1, <1>2, <2>1, StopKeeps DEF Core, Shapes, Return, Go
<1>3. CASE /\ content' = [content EXCEPT ![at] = planned[at]] /\ written' = written \ {at}
           /\ \/ /\ Go(IF Preceding(at) = Nowhere THEN "idle" ELSE "undo", Preceding(at))
                 /\ UNCHANGED result
              \/ Return("thrown")
  <2>1. /\ content' \in [Paths -> Images] /\ content'[at] = planned[at]
        /\ \A p \in Paths : p # at => content'[p] = content[p]
        /\ scope \in SUBSET Paths /\ at \in scope /\ after = seen /\ scope = Scope
        /\ planned[at] \in {before[at], after[at]}
    BY <1>1, <1>3, InstallFacts DEF Core, Shapes, Installed
  <2>2. durable # "nothing" => \A p \in Scope \ foreign' : content'[p] \in {BaseTree[p], seen[p]}
    BY <1>1, <2>1 DEF Core, Retained
  <2>3. CASE Return("thrown")
    BY <1>1, <1>3, <2>1, <2>2, <2>3, StopKeeps DEF Core, Shapes, Return, Go
  <2>4. CASE /\ Go(IF Preceding(at) = Nowhere THEN "idle" ELSE "undo", Preceding(at))
             /\ UNCHANGED result
    BY <1>1, <1>3, <2>1, <2>2, <2>4, BackKeeps
  <2> QED
    BY <1>3, <2>3, <2>4
<1> QED
  BY <1>2, <1>3 DEF UndoWrite

-----------------------------------------------------------------------------
(* Recording, crashes and the person *)

LEMMA RecordKeeps == ASSUME Core, Record PROVE Core'
<1>1. /\ pc = "idle" /\ result = "applied" /\ durable # "state"
      /\ durable' = IF durable = "nothing" THEN "receipt" ELSE "state"
      /\ UNCHANGED <<content, scope, before, after, planned, pc, at, failing, result>>
      /\ UNCHANGED <<written, foreign, raced, edits, head, moved, gitCalls, declared, bound>>
      /\ UNCHANGED <<gone, seen, source, report, submitted>>
  BY DEF Record, plan, ghosts, git, artifact
<1>2. Scope' = Scope
  BY <1>1, SameScope
<1>3. Shapes' /\ Placed' /\ Declared' /\ Phased'
  BY <1>1, <1>2 DEF Core, Shapes, Placed, Declared, Phased, Sections, Installs, Undoing, Ended
<1>4. Gathered' /\ Watched'
  BY <1>1, NoGathering
<1>5. Installed' /\ Retained' /\ Finished'
  BY <1>1, <1>2
  DEF Core, Declared, Installed, Retained, Finished, Ended, Installs, Writing, Undoing
<1> QED
  BY <1>3, <1>4, <1>5 DEF Core

LEMMA DieUnrecordedKeeps == ASSUME Core, DieUnrecorded PROVE Core'
<1>1. /\ pc = "idle" /\ result = "applied" /\ durable # "state" /\ result' = "crashed"
      /\ UNCHANGED <<content, scope, before, after, planned, pc, at, failing, durable>>
      /\ UNCHANGED <<written, foreign, raced, edits, head, moved, gitCalls, declared, bound>>
      /\ UNCHANGED <<gone, seen, source, report, submitted>>
  BY DEF DieUnrecorded, plan, ghosts, git, artifact
<1>2. Scope' = Scope
  BY <1>1, SameScope
<1>3. Shapes' /\ Placed' /\ Declared' /\ Phased'
  BY <1>1, <1>2
  DEF Core, Shapes, Results, Placed, Declared, Phased, Sections, Installs, Undoing, Ended
<1>4. Gathered' /\ Watched'
  BY <1>1, NoGathering
<1>5. Installed' /\ Retained' /\ Finished'
  BY <1>1, <1>2 DEF Core, Installed, Retained, Finished, Ended, Installs, Writing, Undoing
<1> QED
  BY <1>3, <1>4, <1>5 DEF Core

LEMMA ReplayKeeps == ASSUME Core, Replay PROVE Core'
<1>1. /\ pc = "idle" /\ Scope # {} /\ scope' = Scope /\ before' = BaseTree /\ after' = seen
      /\ pc' = "plan" /\ at' = FirstOf(Scope) /\ result' = "none" /\ failing' = 0
      /\ written' = {} /\ raced' = {} /\ bound' = moved /\ durable = "receipt"
      /\ UNCHANGED <<content, planned, foreign, edits, head, moved, gitCalls, declared, durable>>
      /\ UNCHANGED <<gone, seen, source, report, submitted>>
  BY ImagesAre DEF Replay, Begin, Go, git, artifact
<1>2. Scope' = Scope /\ Scope \in SUBSET Paths
  BY <1>1, SameScope, ScopeIs DEF Core
<1>3. FirstOf(Scope) \in Scope /\ \A q \in Scope : ~Earlier(q, FirstOf(Scope))
  BY <1>1, <1>2, FirstOfAll
<1>4. Shapes'
  BY <1>1, <1>2, ImagesAre, FilesAre DEF Core, Shapes, Results
<1>5. Placed' /\ Declared' /\ Phased'
  BY <1>1, <1>2, <1>3 DEF Core, Placed, Declared, Phased, Sections, Installs, Undoing, Ended
<1>6. Gathered' /\ Watched'
  BY <1>1, NoGathering DEF Installs
<1>7. Installed' /\ Retained' /\ Finished'
  BY <1>1, <1>2, <1>3 DEF Core, Installed, Retained, Finished, Ended, Installs, Writing, Undoing
<1> QED
  BY <1>4, <1>5, <1>6, <1>7 DEF Core

LEMMA DieKeeps == ASSUME Core, Die PROVE Core'
<1>1. /\ pc # "idle" /\ pc' = "idle" /\ at' = Nowhere /\ result' = "crashed" /\ failing' = 0
      /\ planned' \in [Paths -> Images] /\ gone' = {}
      /\ UNCHANGED <<content, scope, before, after, written, foreign, raced, edits, durable>>
      /\ UNCHANGED <<head, moved, gitCalls, declared, bound, seen, source, report, submitted>>
  BY ImagesAre DEF Die, Crash, Return, Go, plan, ghosts, git, artifact, Empty
<1>2. Scope' = Scope
  BY <1>1, SameScope
<1>3. Shapes' /\ Placed' /\ Declared' /\ Phased'
  BY <1>1, <1>2, FilesAre
  DEF Core, Shapes, Results, Placed, Declared, Phased, Sections, Installs, Undoing, Ended
<1>4. Gathered' /\ Watched'
  BY <1>1, NoGathering
<1>5. Installed' /\ Retained' /\ Finished'
  BY <1>1, <1>2 DEF Core, Installed, Retained, Finished, Ended, Installs, Writing, Undoing
<1> QED
  BY <1>3, <1>4, <1>5 DEF Core

(* A changed file is foreign from then on, and raced if it was not watched. *)
LEMMA ChangeKeeps ==
  ASSUME Core, NEW new \in [Paths -> Images], Change(new, Exposed),
         edits' \in 0 .. MaxEdits, gitCalls' \in 0 .. MaxGitCalls, gitCalls <= gitCalls',
         UNCHANGED <<head, moved, others>>
  PROVE  Core'
<1> DEFINE changed == {p \in Paths : new[p] # content[p]}
<1>1. /\ content' = new /\ written' = written \ changed /\ foreign' = foreign \cup changed
      /\ raced' = raced \cup (changed \cap Exposed)
      /\ UNCHANGED <<scope, before, after, planned, pc, at, failing, result>>
      /\ UNCHANGED <<head, moved, declared, bound, gone, seen, source, report, submitted, durable>>
  BY DEF Change, others, artifact, plan
<1>2. changed \in SUBSET Paths /\ \A p \in Paths : content'[p] = content[p] \/ p \in changed
  BY <1>1
<1> HIDE DEF changed
<1>3. Scope' = Scope /\ Scope \in SUBSET Paths
  BY <1>1, SameScope, ScopeIs DEF Core
<1>4. Shapes'
  BY <1>1, <1>2 DEF Core, Shapes
<1>5. Placed' /\ Declared' /\ Phased'
  BY <1>1, <1>3 DEF Core, Placed, Declared, Phased, Sections, Installs, Undoing, Ended
<1>6. \A p : /\ Looked(p)' <=> Looked(p)
             /\ Captured(p)' <=> Captured(p)
             /\ Prepared(p)' <=> Prepared(p)
             /\ Turned(p)' <=> Turned(p)
  BY <1>1 DEF Looked, Passed, Captured, Prepared, Turned
<1>7. Gathered'
  BY <1>1, <1>2, <1>3, <1>6 DEF Core, Gathered
<1>8. Watched'
  <2>1. ASSUME submitted, NEW p \in Scope,
               \/ pc \in Sections \cup {"verify"} /\ Looked(p) /\ p[1] = at[1]
               \/ pc = "capture" /\ p[1] = at[1] /\ ~Earlier(p, at)
        PROVE  p \in Unwatched
    <3>1. p \in Paths /\ p \in FilesOf(at[1])
      BY <1>3, <2>1 DEF FilesOf
    <3>2. CASE pc = "verify"
      BY <2>1, <3>1, <3>2 DEF Unwatched, Looked, Core, Placed
    <3>3. CASE pc = "open"
      <4>1. PICK m \in Repositories : at = Start(m)
        BY <3>3 DEF Core, Placed
      <4>2. Earlier(p, at) /\ p[1] = m /\ m \in Nat
        BY <2>1, <3>3, <4>1, FilesAre DEF Looked, Start, Repositories
      <4> QED
        BY <3>1, <4>1, <4>2, StartIs
    <3>4. CASE pc = "observe"
      BY <2>1, <3>1, <3>4 DEF Unwatched, Looked
    <3>5. CASE pc = "source"
      BY <2>1, <3>1, <3>5 DEF Unwatched, Looked
    <3>6. CASE pc = "report"
      BY <2>1, <3>1, <3>6 DEF Unwatched
    <3>7. CASE pc = "capture"
      BY <2>1, <3>1, <3>7 DEF Unwatched, Sections
    <3> QED
      BY <2>1, <3>2, <3>3, <3>4, <3>5, <3>6, <3>7 DEF Sections
  <2>2. ASSUME submitted', NEW p \in Scope',
               \/ pc' \in Sections \cup {"verify"} /\ Looked(p)' /\ p[1] = at'[1]
               \/ pc' = "capture" /\ p[1] = at'[1] /\ ~Earlier(p, at')
        PROVE  content'[p] = seen'[p] \/ p \in raced'
    <3>1. p \in Unwatched /\ p \in Paths
      BY <1>1, <1>3, <1>6, <2>1, <2>2
    <3>2. content[p] = seen[p] \/ p \in raced
      BY <1>1, <1>3, <1>6, <2>2 DEF Core, Watched
    <3> QED
      BY <1>1, <1>2, <3>1, <3>2 DEF Exposed
  <2> QED
    BY <2>2 DEF Watched
<1>9. Installed'
  <2>1. /\ pc \in Installs => \A p \in scope : before[p] \in {BaseTree[p], after[p]} \/ p \in raced'
        /\ pc \in {"plan", "check"} =>
             /\ written' = {}
             /\ \A p \in scope \ foreign' :
                  /\ content'[p] \in {before[p], after[p]}
                  /\ pc = "check" \/ Earlier(p, at) => planned[p] = content'[p]
    BY <1>1, <1>2 DEF Core, Installed, Shapes
  <2>2. pc = "check" => \A p \in scope : Earlier(p, at) => planned[p] \in {before[p], after[p]}
    BY DEF Core, Installed
  <2>3. pc \in Writing \cup Undoing =>
           /\ \A p \in scope : planned[p] \in {before[p], after[p]}
           /\ \A p \in written' : p \in scope /\ planned[p] # after[p]
    BY <1>1 DEF Core, Installed
  <2>4. pc \in Writing => \A p \in scope :
           IF Turned(p) THEN content'[p] = after[p] \/ p \in foreign'
           ELSE p \notin written' /\ (content'[p] = planned[p] \/ p \in foreign')
    BY <1>1, <1>2 DEF Core, Installed, Shapes
  <2>5. pc \in Undoing /\ result = "rolled-back" => \A p \in written' : p = at \/ Earlier(p, at)
    BY <1>1 DEF Core, Installed
  <2>6. /\ pc = "write" => planned[at] # after[at] /\ (content'[at] = planned[at] \/ at \in raced')
        /\ pc = "undo-write" => content'[at] = after[at] \/ at \in raced'
    <3>1. pc \in {"write", "undo-write"} => at \in Paths /\ at \in Exposed
      BY InstallFacts DEF Exposed, AboutToWrite, Installs
    <3> QED
      BY <1>1, <1>2, <3>1 DEF Core, Installed
  <2> QED
    BY <1>1, <1>6, <2>1, <2>2, <2>3, <2>4, <2>5, <2>6 DEF Installed
<1>10. Retained' /\ Finished'
  BY <1>1, <1>2, <1>3 DEF Core, Retained, Finished, Ended, Shapes
<1> QED
  BY <1>4, <1>5, <1>7, <1>8, <1>9, <1>10 DEF Core

LEMMA SaveKeeps == ASSUME Core, Save PROVE Core'
<1>1. PICK p \in Paths : Edit(p, Exposed) /\ UNCHANGED <<git, others>>
  BY DEF Save
<1>2. PICK image \in Images : Change([content EXCEPT ![p] = image], Exposed)
  BY <1>1 DEF Edit
<1>3. [content EXCEPT ![p] = image] \in [Paths -> Images]
  BY DEF Core, Shapes
<1>4. /\ edits' \in 0 .. MaxEdits /\ gitCalls' \in 0 .. MaxGitCalls /\ gitCalls <= gitCalls'
      /\ UNCHANGED <<head, moved, others>>
  BY <1>1, ImagesAre DEF Edit, git, Core, Shapes
<1> QED
  BY <1>2, <1>3, <1>4, ChangeKeeps

LEMMA CheckoutKeeps == ASSUME Core, NEW m \in Repositories, Checkout(m) PROVE Core'
<1> DEFINE new == [p \in Paths |-> IF p[1] = m /\ head[p] # Absent THEN head[p] ELSE content[p]]
<1>1. new \in [Paths -> Images]
  BY DEF Core, Shapes
<1>2. /\ edits' \in 0 .. MaxEdits /\ gitCalls' \in 0 .. MaxGitCalls /\ gitCalls <= gitCalls'
      /\ UNCHANGED <<head, moved, others>> /\ Change(new, Exposed)
  BY ImagesAre DEF Checkout, Core, Shapes
<1> HIDE DEF new
<1> QED
  BY <1>1, <1>2, ChangeKeeps

LEMMA CommitKeeps == ASSUME Core, NEW m \in Repositories, Commit(m) PROVE Core'
<1>1. /\ UNCHANGED <<content, scope, before, after, planned, pc, at, failing, result>>
      /\ UNCHANGED <<written, foreign, raced, edits, declared, bound>>
      /\ UNCHANGED <<gone, seen, source, report, submitted, durable>>
      /\ head' = [p \in Paths |-> IF p[1] = m THEN content[p] ELSE head[p]]
      /\ moved' = [moved EXCEPT ![m] = moved[m] + 1]
      /\ gitCalls < MaxGitCalls /\ gitCalls' = gitCalls + 1
  BY DEF Commit, plan, ghosts, others, artifact
<1>2. head' \in [Paths -> Images] /\ gitCalls \in Nat /\ gitCalls' \in 0 .. MaxGitCalls
  BY <1>1, ImagesAre DEF Core, Shapes
<1>3. /\ moved' \in [Repositories -> 0 .. MaxGitCalls]
      /\ \A k \in Repositories : moved'[k] <= gitCalls'
  <2>1. ASSUME NEW k \in Repositories
        PROVE  moved'[k] \in 0 .. MaxGitCalls /\ moved'[k] <= gitCalls'
    <3>1. moved[k] \in 0 .. MaxGitCalls /\ moved[k] <= gitCalls /\ MaxGitCalls \in Nat
      BY ImagesAre DEF Core, Shapes
    <3>2. moved'[k] = IF k = m THEN moved[k] + 1 ELSE moved[k]
      BY <1>1 DEF Core, Shapes
    <3> QED
      BY <1>1, <1>2, <3>1, <3>2
  <2> QED
    BY <1>1, <2>1 DEF Core, Shapes
<1>4. Shapes'
  BY <1>1, <1>2, <1>3 DEF Core, Shapes
<1>5. Scope' = Scope
  BY <1>1, SameScope
<1>6. \A p : /\ Looked(p)' <=> Looked(p)
             /\ Captured(p)' <=> Captured(p)
             /\ Prepared(p)' <=> Prepared(p)
             /\ Turned(p)' <=> Turned(p)
  BY <1>1 DEF Looked, Passed, Captured, Prepared, Turned
<1>7. Placed' /\ Declared' /\ Phased' /\ Retained' /\ Finished'
  BY <1>1, <1>5 DEF Core, Placed, Declared, Phased, Retained, Finished, Ended
<1>8. Gathered' /\ Watched' /\ Installed'
  BY <1>1, <1>5, <1>6 DEF Core, Gathered, Watched, Installed
<1> QED
  BY <1>4, <1>7, <1>8 DEF Core

LEMMA StandingStill == ASSUME Core, UNCHANGED vars PROVE Core'
<1>1. /\ UNCHANGED <<content, scope, before, after, planned, pc, at, failing, result>>
      /\ UNCHANGED <<written, foreign, raced, edits, head, moved, gitCalls, declared, bound>>
      /\ UNCHANGED <<gone, seen, source, report, submitted, durable>>
  BY DEF vars, plan, ghosts, git, artifact
<1>2. Scope' = Scope
  BY <1>1, SameScope
<1>3. \A p : /\ Looked(p)' <=> Looked(p)
             /\ Captured(p)' <=> Captured(p)
             /\ Prepared(p)' <=> Prepared(p)
             /\ Turned(p)' <=> Turned(p)
  BY <1>1 DEF Looked, Passed, Captured, Prepared, Turned
<1>4. Shapes' /\ Placed' /\ Declared' /\ Phased' /\ Retained' /\ Finished'
  BY <1>1, <1>2 DEF Core, Shapes, Placed, Declared, Phased, Retained, Finished, Ended
<1>5. Gathered' /\ Watched' /\ Installed'
  BY <1>1, <1>2, <1>3 DEF Core, Gathered, Watched, Installed
<1> QED
  BY <1>4, <1>5 DEF Core

LEMMA StepKeeps == ASSUME Core, Step PROVE Core'
<1>1. ASSUME Install PROVE Core'
  BY <1>1, PlanKeeps, CheckKeeps, RecheckKeeps, LookKeeps, WriteKeeps, UndoLookKeeps, UndoWriteKeeps
  DEF Install, Installing
<1>2. ASSUME \E m \in Repositories : Checkout(m) \/ Commit(m) PROVE Core'
  BY <1>2, CheckoutKeeps, CommitKeeps
<1> QED
  BY <1>1, <1>2, BuildKeeps, OpenRepositoryKeeps, ObserveOutputKeeps, ObserveSourceKeeps, ReportKeeps,
     SubmitKeeps, RescanKeeps, VerifyKeeps, RecountKeeps, CaptureKeeps, PrepareKeeps,
     RecordKeeps, DieUnrecordedKeeps, ReplayKeeps, DieKeeps, SaveKeeps
  DEF Step

LEMMA CoreStarts == Init => Core
<1> SUFFICES ASSUME Init PROVE Core
  OBVIOUS
<1>1. /\ pc = "idle" /\ at = Nowhere /\ result = "none" /\ durable = "nothing" /\ submitted = FALSE
      /\ content \in WorkTrees /\ declared \in SUBSET Paths /\ declared \cap FilesOf(1) # {}
      /\ source = [p \in Paths |-> Nowhere]
  BY DEF Init
<1>2. Shapes
  <2>1. moved \in [Repositories -> 0 .. MaxGitCalls] /\ \A m \in Repositories : moved[m] = 0
    BY ImagesAre DEF Init
  <2>2. /\ content \in [Paths -> Images] /\ before = Empty /\ after = Empty /\ planned = Empty
        /\ seen = Empty /\ head = BaseTree /\ source \in [Paths -> Paths \cup {Nowhere}]
    BY <1>1, ImagesAre DEF Init
  <2>3. /\ scope = {} /\ gone = {} /\ report = {} /\ written = {} /\ foreign = {} /\ raced = {}
        /\ failing = 0 /\ edits = 0 /\ gitCalls = 0 /\ bound = moved
    BY DEF Init
  <2>4. 0 \in 0 .. Members /\ 0 \in 0 .. MaxEdits /\ 0 \in 0 .. MaxGitCalls
    BY FilesAre, ImagesAre
  <2>5. submitted \in BOOLEAN /\ durable \in {"nothing", "receipt", "state"} /\ result \in Results
    BY <1>1 DEF Results
  <2>6. \A m \in Repositories : moved[m] <= gitCalls
    <3>1. \A m \in Repositories : moved[m] = 0 /\ gitCalls = 0
      BY <2>1, <2>3
    <3> QED
      BY <3>1
  <2> QED
    BY <1>1, <2>1, <2>2, <2>3, <2>4, <2>5, <2>6, ImagesAre DEF Shapes
<1>3. Placed /\ Declared /\ Phased
  BY <1>1 DEF Placed, Declared, Phased, Sections, Installs, Undoing, Ended
<1>4. Gathered /\ Watched /\ Installed /\ Retained /\ Finished
  BY <1>1 DEF Gathered, Watched, Installed, Retained, Finished, Ended, Installs, Writing, Undoing
<1> QED
  BY <1>2, <1>3, <1>4 DEF Core

-----------------------------------------------------------------------------
(* One moment *)

Complete == submitted \/ pc \in {"rescan", "verify", "submit"}

LEMMA UpsetsAre ==
  ASSUME Shapes
  PROVE  /\ edits \in Nat /\ gitCalls \in Nat /\ Upsets \in Nat
         /\ Upsets = 0 <=> edits = 0 /\ gitCalls = 0
         /\ Upsets = 1 <=> edits = 1 /\ gitCalls = 0
         /\ Upsets < 3 /\ Upsets # 0 /\ Upsets # 1 => Upsets = 2
  BY ImagesAre DEF Shapes, Upsets

LEMMA TogetherIs ==
  ASSUME together' = (Holds' \/ (together /\ (submitted' \/ pc' # "open")))
  PROVE  /\ together' \in BOOLEAN
         /\ together' <=> Holds' \/ (together /\ (submitted' \/ pc' # "open"))
<1>1. PICK b \in BOOLEAN : b = (Holds' \/ (together /\ (submitted' \/ pc' # "open")))
  OBVIOUS
<1> QED
  BY <1>1

(* What the loop has looked at after it looked at one more file. *)
LEMMA ObserveOutputLooks ==
  ASSUME Core, ObserveOutput, pc' # "idle", NEW p \in Scope', Looked(p)'
  PROVE  Passed(p) \/ p = at
<1>1. Core' /\ UNCHANGED declared /\ pc = "observe"
  BY ObserveOutputKeeps DEF ObserveOutput, frame
<1>2. at \in declared /\ at \in Paths /\ \A q \in declared : q \in Paths
  BY <1>1 DEF Core, Placed, Shapes
<1>3. p # Nowhere
  BY <1>1, ScopeIs, FilesAre DEF Scope, Core, Shapes
<1>4. /\ source' = [source EXCEPT ![at] = SourceOf(at)]
      /\ IF SourceOf(at) # Nowhere THEN Proceed("source", at) ELSE Onward(at)
  BY DEF ObserveOutput, Refuse, Return, Go
<1>5. source'[at] = SourceOf(at) /\ \A q \in Paths : q # at => source'[q] = source[q]
  BY <1>2, <1>4 DEF Core, Shapes
<1>6. at \in Spots /\ ~Earlier(at, at)
  BY <1>2, FilesAreSpots, Trichotomy
<1>7. CASE SourceOf(at) # Nowhere
  <2>1. pc' = "source" /\ at' = at
    BY <1>4, <1>7 DEF Proceed, Go
  <2>2. p = at \/ (p \in declared /\ Earlier(p, at)) \/ \E q \in declared : Earlier(q, at) /\ source'[q] = p
    BY <1>1, <2>1 DEF Looked, Passed
  <2> QED
    BY <1>2, <1>5, <1>6, <2>2 DEF Passed
<1>8. CASE SourceOf(at) = Nowhere
  <2>1. \/ p \in declared /\ Earlier(p, at)
        \/ \E q \in declared : Earlier(q, at) /\ source'[q] = p
        \/ p = at
    BY <1>1, <1>2, <1>3, <1>4, <1>5, <1>8, OnwardLooks DEF Core
  <2> QED
    BY <1>2, <1>5, <1>6, <2>1 DEF Passed
<1> QED
  BY <1>7, <1>8

LEMMA ObserveSourceLooks ==
  ASSUME Core, ObserveSource, pc' # "idle", NEW p \in Scope', Looked(p)'
  PROVE  Passed(p) \/ p = at \/ p = source[at]
<1>1. Core' /\ UNCHANGED <<declared, source>> /\ pc = "source"
  BY ObserveSourceKeeps DEF ObserveSource, frame
<1>2. at \in declared /\ Onward(at)
  BY <1>1 DEF Core, Placed, ObserveSource, Refuse, Return, Go
<1>3. \/ p \in declared /\ Earlier(p, at)
      \/ \E q \in declared : Earlier(q, at) /\ source'[q] = p
      \/ p = at \/ p = source'[at]
  BY <1>1, <1>2, OnwardLooks DEF Core
<1> QED
  BY <1>1, <1>3 DEF Passed

(* A spoiled artifact stays so while nobody changes anything, as long as the    *)
(* loop takes no file that differs for looked at.                               *)
LEMMA SpoiledStays ==
  ASSUME Spoiled, UNCHANGED <<content, seen, declared, source, edits, gitCalls, durable>>,
         pc' \notin Installs, ~Ended("applied")',
         \A p \in Scope : submitted' /\ Looked(p)' => ~Bad(p) \/ (submitted /\ Looked(p))
  PROVE  Spoiled'
<1>1. Scope' = Scope /\ Upsets' = Upsets /\ \A p : Bad(p)' <=> Bad(p)
  BY SameScope DEF Upsets, Bad
<1>2. PICK p \in Scope : Bad(p) /\ (submitted => ~Looked(p))
  BY DEF Spoiled
<1>3. Bad(p)' /\ (submitted' => ~Looked(p)')
  BY <1>1, <1>2
<1> QED
  BY <1>1, <1>2, <1>3 DEF Spoiled

(* No look in vain: a loop of nothing. *)
LEMMA NothingLooked ==
  ASSUME pc' \in {"idle", "rescan", "submit"}
  PROVE  \A p : ~Looked(p)'
  BY DEF Looked

LEMMA UnlookedStays ==
  ASSUME Spoiled, UNCHANGED <<content, seen, declared, source, edits, gitCalls, durable>>,
         pc' \in {"idle", "rescan", "submit"}, ~Ended("applied")'
  PROVE  Spoiled'
<1>1. pc' \notin Installs /\ \A p : ~Looked(p)'
  BY NothingLooked DEF Installs
<1> QED
  BY <1>1, SpoiledStays

LEMMA RefuseSpoils ==
  ASSUME Spoiled, Refuse, UNCHANGED <<content, seen, declared, source, edits, gitCalls, durable>>
  PROVE  Spoiled'
  BY UnlookedStays DEF Refuse, Return, Go, Ended

LEMMA SectionSpoils ==
  ASSUME Core, Spoiled, submitted, OpenRepository \/ ObserveOutput \/ ObserveSource
  PROVE  Spoiled'
<1>1. CASE OpenRepository
  <2>1. /\ UNCHANGED <<content, seen, declared, source, edits, gitCalls, durable, submitted>>
        /\ pc = "open"
    BY <1>1 DEF OpenRepository, frame, artifact, git
  <2>2. CASE Refuse
    BY <2>1, <2>2, RefuseSpoils
  <2>3. CASE ~Refuse
    <3>1. pc' \in {"report", "observe"}
      BY <1>1, <2>3 DEF OpenRepository, Go
    <3>2. ASSUME NEW p \in Scope, Looked(p)' PROVE Looked(p)
      <4>1. p[1] < at[1]
        BY <1>1, <3>1, <3>2, OpenLooks
      <4> QED
        BY <2>1, <4>1 DEF Looked, Earlier
    <3> QED
      BY <2>1, <3>1, <3>2, SpoiledStays DEF Installs, Ended
  <2> QED
    BY <2>2, <2>3
<1>2. CASE ObserveOutput
  <2>1. /\ UNCHANGED <<content, declared, edits, gitCalls, durable, submitted>>
        /\ pc = "observe" /\ at \in declared /\ at \in Paths
    BY <1>2 DEF ObserveOutput, frame, git, Core, Placed, Shapes
  <2>2. CASE Refuse /\ UNCHANGED <<seen, source>>
    BY <2>1, <2>2, RefuseSpoils
  <2>3. CASE /\ ~Differs(at, SourceOf(at))
             /\ seen' = [seen EXCEPT ![at] = content[at]]
             /\ source' = [source EXCEPT ![at] = SourceOf(at)]
             /\ IF SourceOf(at) # Nowhere THEN Proceed("source", at) ELSE Onward(at)
    <3>1. content[at] = seen[at] /\ SourceOf(at) = source[at]
      BY <2>3 DEF Differs
    <3>2. UNCHANGED <<seen, source>>
      BY <2>1, <2>3, <3>1 DEF Core, Shapes
    <3>3. pc' \in {"source", "report", "observe"}
      BY <2>1, <2>3, OnwardIs DEF Proceed, Go, Core
    <3>4. Scope' = Scope
      BY <2>1, <3>2, SameScope
    <3>5. ASSUME NEW p \in Scope, Looked(p)' PROVE ~Bad(p) \/ Looked(p)
      BY <1>2, <2>1, <3>1, <3>3, <3>4, <3>5, ObserveOutputLooks DEF Looked, Bad
    <3> QED
      BY <2>1, <3>2, <3>3, <3>5, SpoiledStays DEF Installs, Ended
  <2> QED
    BY <1>2, <2>2, <2>3 DEF ObserveOutput
<1>3. CASE ObserveSource
  <2>1. /\ UNCHANGED <<content, declared, source, edits, gitCalls, durable, submitted>>
        /\ pc = "source" /\ at \in declared /\ source[at] \in Paths
    BY <1>3, FilesAre DEF ObserveSource, frame, git, Core, Placed, Shapes
  <2>2. CASE Refuse /\ UNCHANGED seen
    BY <2>1, <2>2, RefuseSpoils
  <2>3. CASE /\ ~Differs(source[at], source[source[at]])
             /\ seen' = [seen EXCEPT ![source[at]] = content[source[at]]]
             /\ Onward(at)
    <3>1. content[source[at]] = seen[source[at]]
      BY <2>3 DEF Differs
    <3>2. UNCHANGED seen
      BY <2>1, <2>3, <3>1 DEF Core, Shapes
    <3>3. pc' \in {"report", "observe"}
      BY <2>1, <2>3, OnwardIs DEF Core
    <3>4. Scope' = Scope
      BY <2>1, SameScope
    <3>5. ASSUME NEW p \in Scope, Looked(p)' PROVE ~Bad(p) \/ Looked(p)
      BY <1>3, <2>1, <3>1, <3>3, <3>4, <3>5, ObserveSourceLooks DEF Looked, Bad
    <3> QED
      BY <2>1, <3>2, <3>3, <3>5, SpoiledStays DEF Installs, Ended
  <2> QED
    BY <1>3, <2>2, <2>3 DEF ObserveSource
<1> QED
  BY <1>1, <1>2, <1>3

LEMMA NextSpoils ==
  ASSUME Core, Spoiled, submitted, pc \in {"report", "prepare"}, NextRepository(at[1]),
         UNCHANGED <<content, seen, declared, source, edits, gitCalls, durable, submitted>>
  PROVE  Spoiled'
<1>1. PICK p \in Scope : Bad(p) /\ ~Looked(p)
  BY DEF Spoiled
<1>2. \A q \in Scope : q \in Paths /\ q[1] \in 1 .. Members /\ Members \in Nat
  BY ScopeIs, FilesAre DEF Core
<1>3. at[1] \in 1 .. Members
  BY SpotsAre DEF Core, Sections, Repositories
<1>4. ~(p[1] <= at[1])
  BY <1>1 DEF Looked
<1>5. at[1] < Members
  BY <1>2, <1>3, <1>4
<1>6. pc' = "open" /\ at' = Start(at[1] + 1) /\ at[1] + 1 \in Repositories
  BY <1>2, <1>3, <1>5 DEF NextRepository, Go, Repositories
<1>7. ASSUME NEW q \in Scope, Looked(q)' PROVE Looked(q)
  <2>1. q[1] < at[1] + 1
    BY <1>2, <1>6, <1>7, StartIs DEF Looked
  <2>2. q[1] <= at[1]
    BY <1>2, <1>3, <2>1
  <2> QED
    BY <2>2 DEF Looked
<1> QED
  BY <1>6, <1>7, SpoiledStays DEF Installs, Ended

LEMMA VerifySpoils == ASSUME Core, Spoiled, Verify PROVE Spoiled'
<1>1. /\ UNCHANGED <<content, seen, declared, source, edits, gitCalls, durable, submitted>>
      /\ pc = "verify"
  BY DEF Verify, frame, artifact, git
<1>2. CASE Refuse
  BY <1>1, <1>2, RefuseSpoils
<1>3. CASE content[at] = seen[at] /\ Verified(at)
  <2> DEFINE n == NextIn(Scope, at)
  <2>1. /\ Scope \in SUBSET Paths /\ at \in Scope /\ at[1] = 1 /\ at \in Spots
        /\ FirstOf(Scope)[1] = 1
    BY <1>1, ScopeIs, FilesAreSpots, PrimaryFirst DEF Core, Placed
  <2>2. /\ n # Nowhere => \A q \in Scope : Earlier(q, n) => q = at \/ Earlier(q, at)
        /\ n = Nowhere => \A q \in Scope : q[1] <= 1 => q = at \/ Earlier(q, at)
    BY <2>1, NextIs
  <2>3. \/ pc' = "verify" /\ at' = n /\ n # Nowhere
        \/ pc' = "capture" /\ at' = FirstOf(Scope) /\ n = Nowhere /\ submitted
        \/ pc' = "submit" /\ at' = Nowhere /\ ~submitted
    BY <1>3 DEF Verified, Proceed, Go
  <2> HIDE DEF n
  <2>4. ASSUME NEW q \in Scope, Looked(q)' PROVE ~Bad(q) \/ Looked(q)
    <3>1. q = at \/ Earlier(q, at)
      BY <2>1, <2>2, <2>3, <2>4 DEF Looked
    <3> QED
      BY <1>1, <1>3, <3>1 DEF Looked, Bad
  <2> QED
    BY <1>1, <2>3, <2>4, SpoiledStays DEF Installs, Ended
<1> QED
  BY <1>2, <1>3 DEF Verify

LEMMA ServerSpoils ==
  ASSUME Core, Spoiled, Submit \/ Rescan \/ Verify \/ Recount \/ Capture \/ Prepare \/ Die
  PROVE  Spoiled'
<1>1. CASE Submit
  <2>1. UNCHANGED <<content, seen, declared, source, edits, gitCalls, durable>>
    BY <1>1 DEF Submit, artifact, git
  <2>2. pc' \in {"idle", "rescan"} /\ ~Ended("applied")'
    BY <1>1 DEF Submit, Go, Return, Ended
  <2> QED
    BY <2>1, <2>2, UnlookedStays
<1>2. CASE Rescan
  <2>1. UNCHANGED <<content, seen, declared, source, edits, gitCalls, durable>>
    BY <1>2 DEF Rescan, frame, artifact, git
  <2>2. CASE Refuse
    BY <2>1, <2>2, RefuseSpoils
  <2>3. CASE Proceed("verify", FirstOf(Scope))
    <3>1. pc' = "verify" /\ at' = FirstOf(Scope)
      BY <2>3 DEF Proceed, Go
    <3>2. Scope \in SUBSET Paths /\ FirstOf(Scope) \in Scope /\ \A q \in Scope : ~Earlier(q, FirstOf(Scope))
      BY ScopeIs, PrimaryFirst, FirstOfAll DEF Core
    <3>3. \A q \in Scope : ~Looked(q)'
      BY <3>1, <3>2 DEF Looked
    <3> QED
      BY <2>1, <3>1, <3>3, SpoiledStays DEF Installs, Ended
  <2> QED
    BY <1>2, <2>2, <2>3 DEF Rescan
<1>3. CASE Verify
  BY <1>3, VerifySpoils
<1>4. CASE Recount
  <2>1. /\ UNCHANGED <<content, seen, declared, source, edits, gitCalls, durable, submitted>>
        /\ pc = "report" /\ submitted
    BY <1>4 DEF Recount, artifact, git
  <2>2. CASE Refuse
    BY <2>1, <2>2, RefuseSpoils
  <2>3. CASE Scope \cap FilesOf(at[1]) # {} /\ Proceed("capture", NextIn(Scope, at))
    <3>1. pc' = "capture" /\ at' = NextIn(Scope, at)
      BY <2>3 DEF Proceed, Go
    <3>2. at' \in Scope /\ at'[1] = at[1]
      <4>1. at \in Spots /\ Scope \in SUBSET Paths /\ \A p \in Paths : p # at
        BY <2>1, SpotsAre, ScopeIs, StartIs DEF Core, Placed
      <4>2. PICK p \in Scope : p[1] = at[1]
        BY <2>3 DEF FilesOf
      <4>3. ~Earlier(p, at)
        BY <2>1, <4>1, <4>2, StartIs, FilesAre DEF Core, Placed, Repositories
      <4>4. p[1] <= at[1]
        BY <4>1, <4>2, FilesAre
      <4> QED
        BY <3>1, <4>1, <4>2, <4>3, <4>4, NextIs
    <3>3. \A q \in Scope : Looked(q)' => Looked(q)
      BY <2>1, <3>1, <3>2 DEF Looked
    <3> QED
      BY <2>1, <3>1, <3>3, SpoiledStays DEF Installs, Ended
  <2>4. CASE NextRepository(at[1])
    BY <2>1, <2>4, NextSpoils
  <2> QED
    BY <1>4, <2>2, <2>3, <2>4 DEF Recount
<1>5. CASE Capture
  <2>1. /\ UNCHANGED <<content, seen, declared, source, edits, gitCalls, durable, submitted>>
        /\ pc = "capture" /\ submitted /\ at \in Scope /\ at \in Spots /\ Scope \in SUBSET Paths
    BY <1>5, ScopeIs, FilesAreSpots DEF Capture, artifact, git, Core, Placed
  <2>2. CASE Refuse
    BY <2>1, <2>2, RefuseSpoils
  <2>3. CASE NextIn(Scope, at) # Nowhere /\ Proceed("capture", NextIn(Scope, at))
    <3>1. pc' = "capture" /\ at'[1] = at[1]
      BY <2>1, <2>3, NextIs DEF Proceed, Go
    <3>2. \A q \in Scope : Looked(q)' => Looked(q)
      BY <2>1, <3>1 DEF Looked
    <3> QED
      BY <2>1, <3>1, <3>2, SpoiledStays DEF Installs, Ended
  <2>4. CASE Proceed("prepare", NextIn(Scope, Start(at[1])))
    <3>1. pc' = "prepare" /\ at' = NextIn(Scope, Start(at[1]))
      BY <2>4 DEF Proceed, Go
    <3>2. at'[1] = at[1]
      <4>1. at \in Paths /\ at[1] \in Repositories /\ at[1] \in Nat
        BY <2>1, FilesAre DEF Repositories
      <4>2. /\ Start(at[1]) \in Spots /\ Start(at[1])[1] = at[1]
            /\ at # Start(at[1]) /\ ~Earlier(at, Start(at[1]))
        BY <4>1, StartIs
      <4>3. at[1] <= at[1]
        BY <4>1
      <4> HIDE DEF Start
      <4> QED
        BY <2>1, <3>1, <4>2, <4>3, NextIs
    <3>3. \A q \in Scope : Looked(q)' => Looked(q)
      BY <2>1, <3>1, <3>2 DEF Looked
    <3> QED
      BY <2>1, <3>1, <3>3, SpoiledStays DEF Installs, Ended
  <2> QED
    BY <1>5, <2>2, <2>3, <2>4 DEF Capture
<1>6. CASE Prepare
  <2>1. /\ UNCHANGED <<content, seen, declared, source, edits, gitCalls, durable, submitted>>
        /\ pc = "prepare" /\ submitted /\ at \in Scope /\ at \in Spots /\ Scope \in SUBSET Paths
    BY <1>6, ScopeIs, FilesAreSpots DEF Prepare, artifact, git, Core, Placed
  <2>2. CASE NextIn(Scope, at) # Nowhere
    <3>1. pc' = "prepare" /\ at'[1] = at[1]
      BY <1>6, <2>1, <2>2, NextIs DEF Prepare, Go
    <3>2. \A q \in Scope : Looked(q)' => Looked(q)
      BY <2>1, <3>1 DEF Looked
    <3> QED
      BY <2>1, <3>1, <3>2, SpoiledStays DEF Installs, Ended
  <2>3. CASE NextIn(Scope, at) = Nowhere
    BY <1>6, <2>1, <2>3, NextSpoils DEF Prepare
  <2> QED
    BY <2>2, <2>3
<1>7. CASE Die
  <2>1. UNCHANGED <<content, seen, declared, source, edits, gitCalls, durable>>
    BY <1>7 DEF Die, Crash, ghosts, artifact, git
  <2>2. pc' = "idle" /\ ~Ended("applied")'
    BY <1>7 DEF Die, Crash, Return, Go, Ended
  <2> QED
    BY <2>1, <2>2, UnlookedStays
<1> QED
  BY <1>1, <1>2, <1>3, <1>4, <1>5, <1>6, <1>7

(* One more save spoils another file, or makes the artifact true. *)
LEMMA SaveSpoils ==
  ASSUME Core, Spoiled, Complete, Save, Upsets' < 3, ~Holds'
  PROVE  Spoiled'
<1>1. PICK f \in Paths, image \in Images :
          /\ content' = [content EXCEPT ![f] = image] /\ edits' = edits + 1
          /\ UNCHANGED <<pc, at, result, declared, source, seen, submitted, durable, gitCalls>>
  BY DEF Save, Edit, Change, others, artifact, git
<1>2. Upsets = 1 /\ Upsets' = 2
  BY <1>1, UpsetsAre DEF Core, Spoiled, Upsets
<1>3. Scope' = Scope /\ Scope \in SUBSET Paths
  BY <1>1, SameScope, ScopeIs DEF Core
<1>4. \A p : Looked(p)' <=> Looked(p)
  BY <1>1 DEF Looked, Passed
<1>5. \A p \in Scope : p # f => (Bad(p)' <=> Bad(p))
  BY <1>1, <1>3 DEF Bad, Core, Shapes
<1>6. PICK p \in Scope : Bad(p) /\ (submitted => ~Looked(p))
  BY DEF Spoiled
<1>7. Bad(p)'
  <2>1. PICK q \in Scope : Bad(q)'
    BY <1>1, <1>3 DEF Holds, Complete, Bad
  <2>2. CASE q = p
    BY <2>1, <2>2
  <2>3. CASE q # p
    <3>1. ~Bad(q)
      BY <1>2, <1>6, <2>3 DEF Spoiled
    <3>2. p # f
      BY <1>5, <2>1, <2>3, <3>1
    <3> QED
      BY <1>5, <1>6, <3>2
  <2> QED
    BY <2>2, <2>3
<1>8. \E r \in Scope' : Bad(r)' /\ (submitted' => ~Looked(r)')
  BY <1>1, <1>3, <1>4, <1>6, <1>7
<1>9. pc' \notin Installs /\ ~Ended("applied")' /\ durable' = "nothing"
  BY <1>1 DEF Spoiled, Ended
<1> QED
  BY <1>2, <1>8, <1>9 DEF Spoiled

(* Calls of git count twice. *)
LEMMA GitUpsets ==
  ASSUME Core, NEW m \in Repositories, Checkout(m) \/ Commit(m)
  PROVE  Upsets' = Upsets + 2 /\ Upsets \in Nat
<1>1. edits' = edits /\ gitCalls' = gitCalls + 1
  BY DEF Checkout, Commit, ghosts
<1> QED
  BY <1>1, UpsetsAre DEF Core, Upsets

LEMMA Recorders ==
  ASSUME Core, Step, ~submitted', pc' \in Sections
  PROVE  \/ Build
         \/ /\ ~submitted /\ pc \in Sections
            /\ \/ OpenRepository \/ ObserveOutput \/ ObserveSource \/ Report \/ Save
               \/ \E m \in Repositories : Checkout(m) \/ Commit(m)
<1>1. ~Submit
  BY DEF Submit
<1>2. ~(Rescan \/ Verify)
  BY DEF Rescan, Verify, Verified, Proceed, Refuse, Return, Go, Sections
<1>3. ~(Recount \/ Capture \/ Prepare)
  BY DEF Recount, Capture, Prepare, Core, Placed
<1>4. ~Install
  BY DEF Install, Installing, Plan, Check, Recheck, Look, Write, UndoLook, UndoWrite, others,
         Core, Placed, Installs
<1>5. ~(Record \/ DieUnrecorded \/ Replay \/ Die)
  BY DEF Record, DieUnrecorded, Replay, Begin, Die, Crash, Return, Go, Sections
<1>6. OpenRepository \/ ObserveOutput \/ ObserveSource \/ Report => ~submitted /\ pc \in Sections
  BY DEF OpenRepository, ObserveOutput, ObserveSource, Report, Sections
<1>7. Save => ~submitted /\ pc \in Sections
  BY DEF Save, Edit, Change, others
<1>8. (\E m \in Repositories : Checkout(m) \/ Commit(m)) => ~submitted /\ pc \in Sections
  BY DEF Checkout, Commit, Change, others
<1> QED
  BY <1>1, <1>2, <1>3, <1>4, <1>5, <1>6, <1>7, <1>8 DEF Step

LEMMA RecordingKeeps == ASSUME Core, Recording, Step PROVE Recording'
<1> SUFFICES ASSUME ~submitted', pc' \in Sections PROVE Recording'
  BY DEF Recording
<1> DEFINE Same == \A p \in Scope' : Looked(p)' /\ Bad(p)' => p \in Scope /\ Looked(p) /\ Bad(p)
<1>1. ASSUME ~submitted, pc \in Sections, Upsets' = Upsets, Same PROVE Recording'
  BY <1>1 DEF Recording
<1>2. CASE Build
  <2>1. pc' = "open" /\ at' = Start(1) /\ declared' = declared
    BY <1>2 DEF Build, Go, frame
  <2>2. \A p \in Scope' : p \in Paths
    BY StepKeeps, ScopeIs DEF Core, Scope, Shapes
  <2>3. \A p \in Scope' : ~Looked(p)'
    BY <2>1, <2>2, FilesAre, StartIs DEF Looked, Repositories
  <2> QED
    BY <2>3 DEF Recording
<1>3. CASE ~submitted /\ pc \in Sections /\ OpenRepository
  <2>1. /\ UNCHANGED <<content, seen, source, declared, edits, gitCalls>> /\ pc = "open" /\ pc' # "idle"
    BY <1>3 DEF OpenRepository, frame, git, artifact, Sections
  <2>2. ASSUME NEW p \in Scope', Looked(p)' PROVE p \in Scope /\ Looked(p)
    <3>1. p \in Scope
      BY <2>1, SameScope
    <3> QED
      BY <1>3, <2>1, <2>2, <3>1, OpenLooks DEF Looked, Earlier
  <2> QED
    BY <1>1, <1>3, <2>1, <2>2 DEF Upsets, Bad
<1>4. CASE ~submitted /\ pc \in Sections /\ ObserveOutput
  <2>1. UNCHANGED <<content, declared, edits, gitCalls>> /\ pc = "observe" /\ pc' # "idle"
    BY <1>4 DEF ObserveOutput, frame, git, Sections
  <2>2. at \in declared /\ at \in Paths /\ seen' = [seen EXCEPT ![at] = content[at]]
    BY <1>4, <2>1 DEF ObserveOutput, Refuse, Return, Go, Core, Placed, Shapes
  <2>3. /\ seen'[at] = content[at] /\ \A p \in Paths : p # at => seen'[p] = seen[p]
    BY <2>2 DEF Core, Shapes
  <2>4. ASSUME NEW p \in Scope', Looked(p)', Bad(p)' PROVE p \in Scope /\ Looked(p) /\ Bad(p)
    <3>1. Passed(p) /\ p # at
      BY <1>4, <2>1, <2>3, <2>4, ObserveOutputLooks DEF Bad
    <3>2. p \in Paths
      BY <2>1 DEF Scope, Core, Shapes
    <3>3. p \in Scope
      BY <3>1, <3>2 DEF Passed, Scope, IsSource
    <3> QED
      BY <2>1, <2>3, <2>4, <3>1, <3>2, <3>3 DEF Looked, Bad
  <2> QED
    BY <1>1, <1>4, <2>1, <2>4 DEF Upsets
<1>5. CASE ~submitted /\ pc \in Sections /\ ObserveSource
  <2>1. UNCHANGED <<content, declared, source, edits, gitCalls>> /\ pc = "source" /\ pc' # "idle"
    BY <1>5 DEF ObserveSource, frame, git, Sections
  <2>2. source[at] \in Paths /\ seen' = [seen EXCEPT ![source[at]] = content[source[at]]]
    BY <1>5, <2>1 DEF ObserveSource, Refuse, Return, Go, Core, Placed, Shapes
  <2>3. /\ seen'[source[at]] = content[source[at]]
        /\ \A p \in Paths : p # source[at] => seen'[p] = seen[p]
    BY <2>2 DEF Core, Shapes
  <2>4. ASSUME NEW p \in Scope', Looked(p)', Bad(p)' PROVE p \in Scope /\ Looked(p) /\ Bad(p)
    <3>1. (Passed(p) \/ p = at) /\ p # source[at]
      BY <1>5, <2>1, <2>3, <2>4, ObserveSourceLooks DEF Bad
    <3>2. p \in Scope /\ p \in Paths
      BY <2>1, <2>4, SameScope, ScopeIs DEF Core
    <3> QED
      BY <2>1, <2>3, <2>4, <3>1, <3>2 DEF Looked, Bad
  <2> QED
    BY <1>1, <1>5, <2>1, <2>4 DEF Upsets
<1>6. CASE ~submitted /\ pc \in Sections /\ Report
  <2>1. /\ UNCHANGED <<content, seen, source, declared, edits, gitCalls>> /\ pc = "report"
        /\ pc' = "open" /\ at[1] < Members /\ at' = Start(at[1] + 1)
    BY <1>6 DEF Report, frame, git, Go, Sections
  <2>2. at[1] \in 1 .. Members /\ Members \in Nat
    BY <2>1, SpotsAre, FilesAre DEF Core, Sections, Repositories
  <2>3. at[1] + 1 \in Repositories
    BY <2>1, <2>2 DEF Repositories
  <2>4. ASSUME NEW p \in Scope', Looked(p)' PROVE p \in Scope /\ Looked(p)
    <3>1. p \in Scope /\ p \in Paths
      BY <2>1, SameScope, ScopeIs DEF Core
    <3>2. p[1] < at[1] + 1 /\ p[1] \in Nat
      BY <2>1, <2>3, <2>4, <3>1, StartIs, FilesAre DEF Looked
    <3> QED
      BY <2>1, <2>2, <3>1, <3>2 DEF Looked
  <2> QED
    BY <1>1, <1>6, <2>1, <2>4 DEF Upsets, Bad
<1>7. CASE ~submitted /\ pc \in Sections /\ Save
  <2>1. PICK f \in Paths, image \in Images :
            /\ content' = [content EXCEPT ![f] = image] /\ edits' = edits + 1
            /\ UNCHANGED <<pc, at, declared, source, seen, gitCalls>>
    BY <1>7 DEF Save, Edit, Change, others, artifact, git
  <2>2. Upsets' = Upsets + 1 /\ Upsets \in Nat
    BY <2>1, UpsetsAre DEF Core, Upsets
  <2>3. Scope' = Scope /\ Scope \in SUBSET Paths
    BY <2>1, SameScope, ScopeIs DEF Core
  <2>4. \A p : Looked(p)' <=> Looked(p)
    BY <2>1 DEF Looked, Passed
  <2>5. \A p \in Scope : p # f => (Bad(p)' <=> Bad(p))
    BY <2>1, <2>3 DEF Bad, Core, Shapes
  <2>6. ASSUME Upsets' = 1, NEW p \in Scope, Looked(p), Bad(p)' PROVE p = f
    <3>1. Upsets = 0
      BY <2>2, <2>6
    <3>2. ~Bad(p)
      BY <1>7, <2>6, <3>1 DEF Recording
    <3> QED
      BY <2>5, <2>6, <3>2
  <2> QED
    BY <2>2, <2>3, <2>4, <2>6 DEF Recording
<1>8. CASE \E m \in Repositories : Checkout(m) \/ Commit(m)
  BY <1>8, GitUpsets DEF Recording
<1> QED
  BY <1>2, <1>3, <1>4, <1>5, <1>6, <1>7, <1>8, Recorders

(* The artifact is complete: what was looked at and differs was spoiled. *)
LEMMA ReportSpoils ==
  ASSUME Core, Recording, Report, pc' = "rescan", ~Holds'
  PROVE  Spoiled'
<1>1. /\ UNCHANGED <<content, seen, source, declared, edits, gitCalls, durable, submitted>>
      /\ pc = "report" /\ ~submitted /\ ~(at[1] < Members)
  BY DEF Report, frame, git, Go
<1>2. Scope' = Scope /\ Scope \in SUBSET Paths /\ Upsets' = Upsets
  BY <1>1, SameScope, ScopeIs DEF Core, Upsets
<1>3. at[1] \in 1 .. Members /\ \A p \in Scope : p[1] \in 1 .. Members
  BY <1>1, <1>2, SpotsAre, FilesAre DEF Core, Sections, Repositories
<1>4. \A p \in Scope : Looked(p)
  BY <1>1, <1>3, FilesAre DEF Looked
<1>5. \A p \in Scope : Bad(p)' <=> Bad(p)
  BY <1>1 DEF Bad
<1>6. PICK p \in Scope : Bad(p)
  BY <1>1, <1>2 DEF Holds, Bad
<1>7. /\ Upsets # 0 /\ (Upsets = 1 => \A q, r \in Scope : Bad(q) /\ Bad(r) => q = r)
  BY <1>1, <1>4, <1>6 DEF Recording, Sections
<1>8. durable' = "nothing"
  BY <1>1 DEF Core, Phased, Shapes
<1> QED
  BY <1>1, <1>2, <1>5, <1>6, <1>7, <1>8 DEF Spoiled, Installs, Ended

(* Nothing but a person upsets the trees, and nothing calms them again. *)
LEMMA UpsetsGrow ==
  ASSUME Core, Step
  PROVE  Upsets \in Nat /\ Upsets' \in Nat /\ Upsets <= Upsets'
<1>1. edits \in Nat /\ gitCalls \in Nat
  BY ImagesAre DEF Core, Shapes
<1>2. CASE Build \/ OpenRepository \/ ObserveOutput \/ ObserveSource \/ Report
  BY <1>1, <1>2 DEF Build, OpenRepository, ObserveOutput, ObserveSource, Report, frame, git, Upsets
<1>3. CASE Submit \/ Rescan \/ Verify \/ Recount \/ Capture \/ Prepare
  BY <1>1, <1>3 DEF Submit, Rescan, Verify, Recount, Capture, Prepare, frame, ghosts, git, Upsets
<1>4. CASE Install
  <2>1. edits' = edits /\ gitCalls' = gitCalls
    BY <1>4 DEF Install, Installing, Plan, Check, Recheck, Look, Write, UndoLook, UndoWrite, ghosts, git
  <2> QED
    BY <1>1, <2>1 DEF Upsets
<1>5. CASE Record \/ DieUnrecorded \/ Replay \/ Die
  <2>1. edits' = edits /\ gitCalls' = gitCalls
    BY <1>5 DEF Record, DieUnrecorded, Replay, Begin, Die, Crash, ghosts, git
  <2> QED
    BY <1>1, <2>1 DEF Upsets
<1>6. CASE Save
  <2>1. edits' = edits + 1 /\ gitCalls' = gitCalls
    BY <1>6 DEF Save, Edit, git
  <2> QED
    BY <1>1, <2>1 DEF Upsets
<1>7. ASSUME NEW m \in Repositories, Checkout(m) \/ Commit(m)
      PROVE  Upsets \in Nat /\ Upsets' \in Nat /\ Upsets <= Upsets'
  <2>1. Upsets' = Upsets + 2 /\ Upsets \in Nat
    BY <1>7, GitUpsets
  <2> QED
    BY <2>1
<1> QED
  BY <1>2, <1>3, <1>4, <1>5, <1>6, <1>7 DEF Step

LEMMA SpoiledKeeps ==
  ASSUME Core, Recording, Step, Complete', Upsets' < 3, ~Holds',
         Complete /\ Upsets < 3 => Spoiled
  PROVE  Spoiled'
<1>1. Upsets \in Nat /\ Upsets' \in Nat /\ Upsets <= Upsets'
  BY UpsetsGrow
<1>2. CASE Complete
  <2>1. Spoiled
    <3>1. Upsets < 3
      BY <1>1
    <3> QED
      BY <1>2, <3>1
  <2>2. ~Build /\ ~Report
    BY <1>2 DEF Complete, Build, Report
  <2>3. OpenRepository \/ ObserveOutput \/ ObserveSource => Spoiled'
    <3>1. OpenRepository \/ ObserveOutput \/ ObserveSource => submitted
      BY <1>2 DEF Complete, OpenRepository, ObserveOutput, ObserveSource
    <3> QED
      BY <2>1, <3>1, SectionSpoils
  <2>4. Submit \/ Rescan \/ Verify \/ Recount \/ Capture \/ Prepare \/ Die => Spoiled'
    BY <2>1, ServerSpoils
  <2>5. ~Install /\ ~Record /\ ~DieUnrecorded /\ ~Replay
    BY <2>1 DEF Spoiled, Ended, Record, DieUnrecorded, Replay, Install, Installing, Plan, Check, Recheck,
                Look, Write, UndoLook, UndoWrite, Installs
  <2>6. Save => Spoiled'
    BY <1>2, <2>1, SaveSpoils
  <2>7. ~\E m \in Repositories : Checkout(m) \/ Commit(m)
    <3> SUFFICES ASSUME NEW m \in Repositories, Checkout(m) \/ Commit(m) PROVE FALSE
      OBVIOUS
    <3>1. Upsets' = Upsets + 2 /\ Upsets \in Nat /\ Upsets # 0
      BY <2>1, GitUpsets DEF Spoiled
    <3> QED
      BY <3>1
  <2> QED
    BY <2>2, <2>3, <2>4, <2>5, <2>6, <2>7 DEF Step
<1>3. CASE ~Complete
  <2>1. ~submitted /\ pc \notin {"rescan", "verify", "submit"}
    BY <1>3 DEF Complete
  <2>2. pc \in Sections \cup {"idle"}
    BY <2>1 DEF Core, Placed
  <2>3. ~Build /\ ~Save /\ ~Record /\ ~DieUnrecorded /\ ~Die
        /\ ~\E m \in Repositories : Checkout(m) \/ Commit(m)
    BY <2>1 DEF Complete, Build, Save, Edit, Change, Record, DieUnrecorded, Die, Crash, Return, Go,
                Checkout, Commit, others
  <2>4. ~OpenRepository /\ ~ObserveOutput /\ ~ObserveSource
    <3>1. ObserveOutput \/ ObserveSource => at \in declared
      BY DEF ObserveOutput, ObserveSource, Core, Placed
    <3> QED
      BY <2>1, <3>1, OnwardIs DEF Complete, OpenRepository, ObserveOutput, ObserveSource, Refuse,
             Return, Go, Proceed, Core
  <2>5. ~Submit /\ ~Rescan /\ ~Verify /\ ~Recount /\ ~Capture /\ ~Prepare /\ ~Install /\ ~Replay
    BY <2>1, <2>2 DEF Submit, Rescan, Verify, Recount, Capture, Prepare, Install, Installing, Plan, Check,
           Recheck, Look, Write, UndoLook, UndoWrite, Sections, Replay, Core, Phased
  <2>6. CASE Report
    <3>1. pc' = "rescan"
      BY <2>1, <2>6 DEF Report, Go, Complete
    <3> QED
      BY <2>6, <3>1, ReportSpoils
  <2> QED
    BY <2>3, <2>4, <2>5, <2>6 DEF Step
<1> QED
  BY <1>2, <1>3

LEMMA MomentKeeps ==
  ASSUME Core, Moment, Next
  PROVE  Moment' /\ together' \in BOOLEAN
<1>1. /\ Step /\ together' \in BOOLEAN
      /\ together' <=> Holds' \/ (together /\ (submitted' \/ pc' # "open"))
  BY TogetherIs DEF Next
<1>2. Recording'
  BY <1>1, RecordingKeeps DEF Moment
<1>3. ASSUME ~submitted', pc' \in Sections PROVE ~together'
  <2>1. ~Holds'
    BY <1>3 DEF Holds, Sections
  <2>2. pc' = "open" \/ ~together
    BY <1>1, <1>3, Recorders DEF Build, Go, Moment
  <2> QED
    BY <1>1, <1>3, <2>1, <2>2
<1>4. ASSUME Complete', ~together', Upsets' < 3 PROVE Spoiled'
  <2>1. ~Holds' /\ ~together
    BY <1>1, <1>4 DEF Complete
  <2> QED
    BY <1>1, <1>4, <2>1, SpoiledKeeps DEF Moment, Complete
<1> QED
  BY <1>1, <1>2, <1>3, <1>4 DEF Moment, Complete

-----------------------------------------------------------------------------
(* Theorems *)

(* The invariant the properties rest on holds in every reachable state. *)
THEOREM SubmissionInvariant == Spec => []SubmissionInv
<1>1. Init => SubmissionInv
  <2> SUFFICES ASSUME Init PROVE SubmissionInv
    OBVIOUS
  <2>1. Core
    BY CoreStarts
  <2>2. together = FALSE /\ submitted = FALSE /\ pc = "idle"
    BY DEF Init
  <2>3. Moment
    BY <2>2 DEF Moment, Recording, Sections
  <2> QED
    BY <2>1, <2>2, <2>3 DEF SubmissionInv
<1>2. SubmissionInv /\ [Next]_vars => SubmissionInv'
  <2> SUFFICES ASSUME SubmissionInv, [Next]_vars PROVE SubmissionInv'
    OBVIOUS
  <2>1. CASE Next
    BY <2>1, StepKeeps, MomentKeeps DEF SubmissionInv, Next
  <2>2. CASE UNCHANGED vars
    <3>1. /\ UNCHANGED <<content, pc, at, result, edits, gitCalls, declared, seen, source>>
          /\ UNCHANGED <<submitted, durable, together>>
      BY <2>2 DEF vars, git, artifact
    <3>2. Scope' = Scope /\ Upsets' = Upsets /\ \A p : (Bad(p)' <=> Bad(p)) /\ (Looked(p)' <=> Looked(p))
      BY <3>1, SameScope DEF Upsets, Bad, Looked, Passed
    <3>3. Moment'
      BY <3>1, <3>2 DEF SubmissionInv, Moment, Recording, Spoiled, Ended
    <3> QED
      BY <2>2, <3>1, <3>3, StandingStill DEF SubmissionInv
  <2> QED
    BY <2>1, <2>2
<1> QED
  BY <1>1, <1>2, PTL DEF Spec

(* Every variable keeps its type. *)
THEOREM TypeCorrect == Spec => []TypeOK
<1>1. SubmissionInv => TypeOK
  BY ShapesAreTypes DEF SubmissionInv, Core
<1> QED
  BY <1>1, SubmissionInvariant, PTL

(* An installation that reports a collision or a rollback leaves none of its    *)
(* writes, one that reports success has written everything (snapshots.ts).      *)
THEOREM InstallsAllOrNothing == Spec => []EndsAllOrNothing
<1>1. SubmissionInv => EndsAllOrNothing
  BY DEF SubmissionInv, Core, Finished, EndsAllOrNothing
<1> QED
  BY <1>1, SubmissionInvariant, PTL

(* What a crash left behind is not taken for somebody's edit. *)
THEOREM LeftoversAreNoCollisions == Spec => []LeftoversNeverCollide
<1>1. SubmissionInv => LeftoversNeverCollide
  BY DEF SubmissionInv, Core, Finished, LeftoversNeverCollide
<1> QED
  BY <1>1, SubmissionInvariant, PTL

(* What is recorded was in the trees at one moment: two saves, or one call of   *)
(* git, do not get past the two looks at every file.                           *)
THEOREM RecordsOneMoment == Spec => []OneMoment
<1>1. SubmissionInv => OneMoment
  <2> SUFFICES ASSUME SubmissionInv, pc = "check" \/ durable # "nothing", Upsets < 3, ~together
               PROVE  FALSE
    BY DEF OneMoment, Upsets
  <2>1. submitted
    BY DEF SubmissionInv, Core, Placed, Phased, Installs
  <2>2. Spoiled
    BY <2>1 DEF SubmissionInv, Moment
  <2> QED
    BY <2>2 DEF Spoiled, Installs
<1> QED
  BY <1>1, SubmissionInvariant, PTL

(* A file that holds neither its base nor its new image is overwritten only if  *)
(* it was changed in one of the two windows nobody watches.                     *)
THEOREM EditsAreWatched == Spec => OnlyRacedEditsLost
<1>1. ASSUME SubmissionInv, [Next]_vars,
             NEW p \in Paths, content'[p] # content[p], edits' = edits, gitCalls' = gitCalls,
             content[p] \notin {BaseTree[p], after[p]}
      PROVE  p \in raced
  <2>1. Core
    BY <1>1 DEF SubmissionInv
  <2>2. content' # content
    BY <1>1
  <2>3. ~Save
    <3>1. edits \in Nat
      BY <2>1, ImagesAre DEF Core, Shapes
    <3> QED
      BY <1>1, <3>1 DEF Save, Edit
  <2>4. ~\E m \in Repositories : Checkout(m) \/ Commit(m)
    <3> SUFFICES ASSUME NEW m \in Repositories, Checkout(m) \/ Commit(m) PROVE FALSE
      OBVIOUS
    <3>1. gitCalls' = gitCalls + 1 /\ gitCalls \in Nat
      BY <2>1, ImagesAre DEF Checkout, Commit, Core, Shapes
    <3> QED
      BY <1>1, <3>1
  <2>5. Write \/ UndoWrite
    BY <1>1, <2>2, <2>3, <2>4
    DEF Next, Step, vars, Build, OpenRepository, ObserveOutput, ObserveSource, Report, Submit, Rescan,
        Verify, Recount, Capture, Prepare, Install, Installing, Plan, Check, Recheck, Look, UndoLook,
        Record, DieUnrecorded, Replay, Die, Crash, frame
  <2>6. pc \in {"write", "undo-write"} /\ pc \in Installs /\ at \in Paths /\ at \in scope
    BY <2>1, <2>5, InstallFacts DEF Write, UndoWrite, Installs
  <2>7. p = at
    BY <1>1, <2>1, <2>5, <2>6 DEF Write, UndoWrite, Core, Shapes
  <2>8. /\ before[at] \in {BaseTree[at], after[at]} \/ at \in raced
        /\ planned[at] \in {before[at], after[at]}
        /\ content[at] \in {planned[at], after[at]} \/ at \in raced
    BY <2>1, <2>6 DEF Core, Installed, Writing, Undoing
  <2> QED
    BY <1>1, <2>7, <2>8
<1>2. SubmissionInv /\ [Next]_vars =>
         [\A p \in Paths :
            content'[p] # content[p] /\ edits' = edits /\ gitCalls' = gitCalls
            /\ content[p] \notin {BaseTree[p], after[p]} => p \in raced]_vars
  BY <1>1
<1> QED
  BY <1>2, SubmissionInvariant, PTL DEF Spec, OnlyRacedEditsLost
=============================================================================
