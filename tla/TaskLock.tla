------------------------------ MODULE TaskLock ------------------------------
(***************************************************************************)
(* The task lock directory, one file system call at a time                  *)
(* (src/state/lock.ts): writers that mkdir and rmdir the fixed path, and     *)
(* the repair that moves an abandoned lock into quarantine and removes it.   *)
(*                                                                          *)
(* A directory is known to the code by its inode number.  The file system    *)
(* may give a freed number to the next directory it makes, unless some       *)
(* process still holds a handle to the old one; birth tells two directories  *)
(* of the same number apart.  The code sees of it only time stamps in         *)
(* milliseconds, which two directories may share.                             *)
(***************************************************************************)
EXTENDS Naturals

CONSTANTS Writers, Repairers, Inodes,
          MaxMade,       \* how many lock directories are ever made
          None,          \* no directory at a path, no open handle
          Free, Stale    \* what the lock means to the kernel when nobody holds it

ASSUME MadeAssumption == MaxMade \in Nat
Dir == [ino : Inodes, birth : 1 .. MaxMade]

ASSUME NoneAssumption == None \notin Dir

VARIABLES
    fixed,    \* what is at transient/.transaction-lock
    aside,    \* what each repair has moved into its quarantine path
    strays,   \* quarantined directories nobody will remove
    made,     \* how many directories were made
    wpc,      \* where each writer is
    mine,     \* the birth of the directory each working writer made
    rpc,      \* where each repair is
    noted,    \* the inode number its lstat saw
    handle    \* the directory its open handle pins

writerVars == <<wpc, mine>>
repairVars == <<rpc, noted, handle>>
lockVars == <<fixed, aside, strays, made, wpc, mine, rpc, noted, handle>>

(* Every directory that is linked somewhere or pinned by a handle. *)
InUse == ({fixed} \cup strays \cup {aside[r] : r \in Repairers}
            \cup {handle[r] : r \in Repairers}) \ {None}

LockInit ==
    /\ fixed = None
    /\ aside = [r \in Repairers |-> None]
    /\ strays = {}
    /\ made = 0
    /\ wpc = [w \in Writers |-> "idle"]
    /\ mine = [w \in Writers |-> 0]
    /\ rpc = [r \in Repairers |-> "idle"]
    /\ noted = [r \in Repairers |-> None]
    /\ handle = [r \in Repairers |-> None]

-----------------------------------------------------------------------------
(* Writers: runExclusive. *)

Ask(w) ==
    /\ wpc[w] = "idle"
    /\ wpc' = [wpc EXCEPT ![w] = "acquiring"]
    /\ UNCHANGED <<fixed, aside, strays, made, mine, repairVars>>

(* mkdir makes a directory under a number nobody uses. *)
Mkdir(w) ==
    /\ wpc[w] = "acquiring"
    /\ fixed = None
    /\ made < MaxMade
    /\ \E i \in Inodes \ {d.ino : d \in InUse} : fixed' = [ino |-> i, birth |-> made + 1]
    /\ made' = made + 1
    /\ mine' = [mine EXCEPT ![w] = made + 1]
    /\ wpc' = [wpc EXCEPT ![w] = "working"]
    /\ UNCHANGED <<aside, strays, repairVars>>

(* What-if: a writer that timed out removes the lock it waited for. *)
GiveUpAndBreak(w) ==
    /\ wpc[w] = "acquiring"
    /\ fixed # None
    /\ fixed' = None
    /\ wpc' = [wpc EXCEPT ![w] = "idle"]
    /\ UNCHANGED <<aside, strays, made, mine, repairVars>>

(* The deadline passed while the path was taken. *)
GiveUp(w) ==
    /\ wpc[w] = "acquiring"
    /\ fixed # None
    /\ wpc' = [wpc EXCEPT ![w] = "idle"]
    /\ UNCHANGED <<fixed, aside, strays, made, mine, repairVars>>

(* rmdir removes whatever is at the path, or fails and leaves it. *)
Rmdir(w) ==
    /\ wpc[w] = "working"
    /\ wpc' = [wpc EXCEPT ![w] = "idle"]
    /\ mine' = [mine EXCEPT ![w] = 0]
    /\ fixed' \in {None, fixed}
    /\ UNCHANGED <<aside, strays, made, repairVars>>

WriterDies(w) ==
    /\ wpc[w] # "idle"
    /\ wpc' = [wpc EXCEPT ![w] = "idle"]
    /\ mine' = [mine EXCEPT ![w] = 0]
    /\ UNCHANGED <<fixed, aside, strays, made, repairVars>>

-----------------------------------------------------------------------------
(* Repairs: inspectAbandonedTaskLock, then removeConfirmedAbandonedTaskLock. *)

(* The directory at the path has the number the repair noted. *)
SameNumber(r) == fixed # None /\ fixed.ino = noted[r]

(* A repair that ends closes its handle; what is still in its quarantine      *)
(* path stays there.                                                          *)
EndRepair(r) ==
    /\ rpc' = [rpc EXCEPT ![r] = "idle"]
    /\ noted' = [noted EXCEPT ![r] = None]
    /\ handle' = [handle EXCEPT ![r] = None]
    /\ aside' = [aside EXCEPT ![r] = None]
    /\ strays' = strays \cup ({aside[r]} \ {None})

Lstat(r) ==
    /\ rpc[r] = "idle"
    /\ fixed # None
    /\ noted' = [noted EXCEPT ![r] = fixed.ino]
    /\ rpc' = [rpc EXCEPT ![r] = "open"]
    /\ UNCHANGED <<fixed, aside, strays, made, writerVars, handle>>

Open(r) ==
    /\ rpc[r] = "open"
    /\ \/ /\ SameNumber(r)
          /\ handle' = [handle EXCEPT ![r] = fixed]
          /\ rpc' = [rpc EXCEPT ![r] = "planned"]
          /\ UNCHANGED <<noted, aside, strays>>
       \/ /\ ~SameNumber(r)
          /\ EndRepair(r)
    /\ UNCHANGED <<fixed, made, writerVars>>

(* The human looks, and is right at that moment: nobody is at work. *)
Confirm(r) ==
    /\ rpc[r] = "planned"
    /\ \A w \in Writers : wpc[w] # "working"
    /\ rpc' = [rpc EXCEPT ![r] = "confirmed"]
    /\ UNCHANGED <<fixed, aside, strays, made, writerVars, noted, handle>>

(* The path still names the inspected object.  The lstats' time stamps are    *)
(* compared too: directories that share a number may share those, and where    *)
(* they differ the repair ends as in RepairFails.                             *)
Verify(r) ==
    /\ rpc[r] = "confirmed"
    /\ \/ /\ SameNumber(r) /\ handle[r].ino = noted[r]
          /\ rpc' = [rpc EXCEPT ![r] = "rename"]
          /\ UNCHANGED <<noted, handle, aside, strays>>
       \/ /\ ~(SameNumber(r) /\ handle[r].ino = noted[r])
          /\ EndRepair(r)
    /\ UNCHANGED <<fixed, made, writerVars>>

(* rename moves whatever is at the path by then. *)
Rename(r) ==
    /\ rpc[r] = "rename"
    /\ \/ /\ fixed # None
          /\ aside' = [aside EXCEPT ![r] = fixed]
          /\ fixed' = None
          /\ rpc' = [rpc EXCEPT ![r] = "check"]
          /\ UNCHANGED <<noted, handle, strays>>
       \/ EndRepair(r) /\ UNCHANGED fixed
    /\ UNCHANGED <<made, writerVars>>

(* The moved directory is compared with the handle before it is removed. *)
Check(r) ==
    /\ rpc[r] = "check"
    /\ \/ /\ aside[r].ino = handle[r].ino
          /\ rpc' = [rpc EXCEPT ![r] = "remove"]
          /\ UNCHANGED <<noted, handle, aside, strays>>
       \/ /\ aside[r].ino # handle[r].ino
          /\ EndRepair(r)
    /\ UNCHANGED <<fixed, made, writerVars>>

Remove(r) ==
    /\ rpc[r] = "remove"
    /\ rpc' = [rpc EXCEPT ![r] = "idle"]
    /\ noted' = [noted EXCEPT ![r] = None]
    /\ handle' = [handle EXCEPT ![r] = None]
    /\ aside' = [aside EXCEPT ![r] = None]
    /\ UNCHANGED <<fixed, strays, made, writerVars>>

(* The repair fails part way, or its process dies. *)
RepairFails(r) ==
    /\ rpc[r] # "idle"
    /\ EndRepair(r)
    /\ UNCHANGED <<fixed, made, writerVars>>

LockNext ==
    \/ \E w \in Writers : Ask(w) \/ Mkdir(w) \/ GiveUp(w) \/ Rmdir(w) \/ WriterDies(w)
    \/ \E r \in Repairers :
          \/ Lstat(r) \/ Open(r) \/ Confirm(r) \/ Verify(r)
          \/ Rename(r) \/ Check(r) \/ Remove(r) \/ RepairFails(r)

LockSpec == LockInit /\ [][LockNext]_lockVars

-----------------------------------------------------------------------------
(* Properties *)

RepairLabels == {"idle", "open", "planned", "confirmed", "rename", "check", "remove"}

LockTypeOK ==
    /\ fixed \in Dir \cup {None}
    /\ aside \in [Repairers -> Dir \cup {None}]
    /\ strays \subseteq Dir
    /\ made \in 0 .. MaxMade
    /\ wpc \in [Writers -> {"idle", "acquiring", "working"}]
    /\ mine \in [Writers -> 0 .. MaxMade]
    /\ rpc \in [Repairers -> RepairLabels]
    /\ noted \in [Repairers -> Inodes \cup {None}]
    /\ handle \in [Repairers -> Dir \cup {None}]

(* A repair deletes only the very directory it inspected, however many         *)
(* repairs run at once and whatever numbers the file system reuses.            *)
RemovesOnlyInspected ==
    \A r \in Repairers : rpc[r] = "remove" => aside[r] = handle[r]

(* Why: a number names one directory among those linked or pinned, and a       *)
(* repair past its open holds its directory.                                   *)
NumbersDiffer == \A d, e \in InUse : d.ino = e.ino => d = e

PlansArePinned ==
    \A r \in Repairers :
        /\ rpc[r] \in {"planned", "confirmed", "rename", "check", "remove"} => handle[r] # None
        /\ rpc[r] \in {"check", "remove"} => aside[r] # None

RepairInv == LockTypeOK /\ NumbersDiffer /\ PlansArePinned /\ RemovesOnlyInspected

Holder ==
    IF fixed = None THEN Free
    ELSE IF \E w \in Writers : wpc[w] = "working" /\ mine[w] = fixed.birth
    THEN CHOOSE w \in Writers : wpc[w] = "working" /\ mine[w] = fixed.birth
    ELSE Stale

Mutex == INSTANCE TaskMutex WITH
    holder <- Holder, inside <- {w \in Writers : wpc[w] = "working"}

(* The protocol implements the lock the transaction kernel assumes, with its    *)
(* atomic repair of an orphaned lock.                                          *)
ImplementsTaskMutex == Mutex!Spec
=============================================================================
