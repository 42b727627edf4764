----------------------------- MODULE BuildCache -----------------------------
(***************************************************************************)
(* One entry of the managed tool cache, shared by independent processes:   *)
(* builds that install or derive it and use it, and lasm cache repair.     *)
(* From src/application-lock.mjs (flock, polled), src/cache-lifecycle.mjs  *)
(* (shared lease, entry lock, owned staging), provisionArtifact,           *)
(* deriveArtifact and verifyTreeOnce of src/managed-artifacts.mjs and      *)
(* src/cache-repair.mjs.                                                   *)
(*                                                                         *)
(* A process may die at any step: the system releases its locks, what it   *)
(* left on disk stays.  Downloads, removals and the entry's files may      *)
(* fail; MaxFaults bounds crashes, failures and damage together.           *)
(***************************************************************************)
EXTENDS Naturals, FiniteSets

CONSTANTS Builds,      \* processes that build
          Repair,      \* the process that runs lasm cache repair
          MaxFaults,
          None

ASSUME CacheAssumption == Repair \notin Builds /\ None \notin Builds \cup {Repair} /\ MaxFaults \in Nat

Processes == Builds \cup {Repair}

VARIABLES
    pc,         \* pc[p]: what process p does next
    ready,      \* ready[p]: the entry was installed or verified, not failed
    before,     \* before[p]: the fingerprint verifyTreeOnce took first
    lease,      \* lease[p]: usage.lock held "shared", "exclusive" or "none"
    entry,      \* holder of the entry's lock
    staging,    \* .install-<id>: "absent", "empty", "partial", "whole" or "mixed"
    quarantine, \* .repair-<id> exists
    dir,        \* the published tree, or None
    record,     \* fingerprint of the verification record
    prints,     \* fingerprints given out so far
    faults      \* crashes, failures and damage so far

vars == <<pc, ready, before, lease, entry, staging, quarantine, dir, record, prints, faults>>
disk == <<staging, quarantine, dir, record, prints>>

Prints == 0..(2 * MaxFaults + 2)
Trees == [print : Prints,                          \* treeFingerprint
          content : {"partial", "whole", "mixed"}, \* what was published
          intact : BOOLEAN,                        \* nobody has changed it since
          early : BOOLEAN]                         \* history: changed before its fingerprint was recorded

ASSUME NoTreeAssumption == None \notin Trees

TypeOK ==
    /\ pc \in [Processes -> {"idle", "lease", "entry", "clean", "check", "hash", "create", "fetch",
                             "extract", "publish", "record", "tidy", "use", "repair", "remove"}]
    /\ ready \in [Processes -> BOOLEAN]
    /\ before \in [Processes -> Prints]
    /\ lease \in [Processes -> {"none", "shared", "exclusive"}]
    /\ entry \in Processes \cup {None}
    /\ staging \in {"absent", "empty", "partial", "whole", "mixed"}
    /\ quarantine \in BOOLEAN
    /\ dir \in Trees \cup {None}
    /\ record \in Prints /\ prints \in Prints
    /\ faults \in 0..MaxFaults

Init ==
    /\ pc = [p \in Processes |-> "idle"]
    /\ ready = [p \in Processes |-> FALSE]
    /\ before = [p \in Processes |-> 0]
    /\ lease = [p \in Processes |-> "none"]
    /\ entry = None
    /\ staging = "absent" /\ quarantine = FALSE
    /\ dir = None /\ record = 0 /\ prints = 0
    /\ faults = 0

Goto(p, next) == pc' = [pc EXCEPT ![p] = next]
Fault == faults < MaxFaults /\ faults' = faults + 1

\* Everything a process holds, given back when it ends, by itself or killed.
Release(p) ==
    /\ lease' = [lease EXCEPT ![p] = "none"]
    /\ entry' = IF entry = p THEN None ELSE entry
    /\ ready' = [ready EXCEPT ![p] = FALSE]
    /\ before' = [before EXCEPT ![p] = 0]

End(p) == Goto(p, "idle") /\ Release(p)
Die(p) == pc[p] # "idle" /\ Fault /\ End(p) /\ UNCHANGED disk

-----------------------------------------------------------------------------
(* Locks. *)

StartBuild(b) ==
    /\ pc[b] = "idle"
    /\ Goto(b, "lease")
    /\ UNCHANGED <<ready, before, lease, entry, disk, faults>>

\* withCacheLease of a build, held until its compilers have ended.
TakeLease(b) ==
    /\ pc[b] = "lease"
    /\ \A p \in Processes : lease[p] # "exclusive"
    /\ lease' = [lease EXCEPT ![b] = "shared"]
    /\ Goto(b, "entry")
    /\ UNCHANGED <<ready, before, entry, disk, faults>>

\* Mutant: the entry is not locked.
EntryOpen == TRUE

EntryFree == entry = None

TakeEntry(b) ==
    /\ pc[b] = "entry"
    /\ EntryFree
    /\ entry' = b
    /\ Goto(b, "clean")
    /\ UNCHANGED <<ready, before, lease, disk, faults>>

\* The signal of a build that waits for a lock, or downloads, is aborted.
Abort(b) ==
    /\ pc[b] \in {"lease", "entry"}
    /\ Fault
    /\ End(b)
    /\ UNCHANGED disk

-----------------------------------------------------------------------------
(* provisionArtifact and deriveArtifact, under the entry's lock: a tree is  *)
(* extracted from a download or produced from other trees.                  *)

\* removeOwnedStaging, which may fail part of the way and says so only to the user.
RemoveStaging ==
    \/ staging' = "absent" /\ UNCHANGED faults
    \/ staging # "absent" /\ Fault /\ UNCHANGED staging

\* Mutant: what a dead build left in staging is not reclaimed.
CleanNothing(b) ==
    /\ pc[b] = "clean"
    /\ Goto(b, "check")
    /\ UNCHANGED <<ready, before, lease, entry, disk, faults>>

Clean(b) ==
    /\ pc[b] = "clean"
    /\ RemoveStaging
    /\ Goto(b, "check")
    /\ UNCHANGED <<ready, before, lease, entry, quarantine, dir, record, prints>>

\* lstat, and verifyTreeOnce up to its decision to hash the tree.
Check(b) ==
    /\ pc[b] = "check"
    /\ IF dir = None
       THEN Goto(b, "create") /\ UNCHANGED <<ready, before, lease, entry>>
       ELSE IF record = dir.print
       THEN /\ Goto(b, "use")
            /\ ready' = [ready EXCEPT ![b] = TRUE]
            /\ entry' = None
            /\ UNCHANGED <<before, lease>>
       ELSE /\ Goto(b, "hash")
            /\ before' = [before EXCEPT ![b] = dir.print]
            /\ UNCHANGED <<ready, lease, entry>>
    /\ UNCHANGED <<disk, faults>>

\* Mutant: the fingerprint is taken once, after the check.
VouchLate(b) == dir.print

\* The fingerprint that is recorded after a full check.
Vouch(b) == IF dir.print = before[b] THEN before[b] ELSE record

\* writeVerificationRecord: its failure only costs the next build a full check.
WriteRecord(print) ==
    \/ record' = print /\ UNCHANGED faults
    \/ Fault /\ UNCHANGED record

\* The tree agrees with its receipt, or was changed behind the hash.
Hashed(b) ==
    /\ pc[b] = "hash"
    /\ dir.intact \/ dir.print # before[b]
    /\ WriteRecord(Vouch(b))
    /\ Goto(b, "use")
    /\ ready' = [ready EXCEPT ![b] = TRUE]
    /\ entry' = None
    /\ UNCHANGED <<before, lease, staging, quarantine, dir, prints>>

\* A damaged tree is never used nor overwritten: the build fails.
HashFails(b) ==
    /\ pc[b] = "hash"
    /\ ~dir.intact
    /\ End(b)
    /\ UNCHANGED <<disk, faults>>

\* Mutant: staging that could not be removed is used again.
MayCreate == TRUE

\* createOwnedStaging refuses what removeOwnedStaging left.
CanCreate == staging = "absent"

Create(b) ==
    /\ pc[b] = "create"
    /\ IF CanCreate
       THEN Goto(b, "fetch") /\ UNCHANGED <<ready, before, lease, entry>>
       ELSE End(b)
    /\ staging' = IF staging = "absent" THEN "empty" ELSE staging
    /\ UNCHANGED <<quarantine, dir, record, prints, faults>>

\* acquireArtifact, or produce: the archive's bytes are checked; it may fail.
Fetch(b) ==
    /\ pc[b] = "fetch"
    /\ \/ /\ Goto(b, "extract") /\ UNCHANGED faults
          /\ staging' = IF staging = "empty" THEN "partial" ELSE "mixed"
       \/ Fault /\ Goto(b, "tidy") /\ UNCHANGED staging
    /\ UNCHANGED <<ready, before, lease, entry, quarantine, dir, record, prints>>

\* extract, inventory and the receipt complete the tree.
Extract(b) ==
    /\ pc[b] = "extract"
    /\ \/ /\ Goto(b, "publish") /\ UNCHANGED faults
          /\ staging' = IF staging = "partial" THEN "whole" ELSE staging
       \/ Fault /\ Goto(b, "tidy") /\ UNCHANGED staging
    /\ UNCHANGED <<ready, before, lease, entry, quarantine, dir, record, prints>>

\* rename of the tree; nobody else can have published one.
Publish(b) ==
    /\ pc[b] = "publish"
    /\ dir' = [print |-> prints + 1, content |-> staging, intact |-> TRUE, early |-> FALSE]
    /\ prints' = prints + 1
    /\ staging' = "empty"
    /\ Goto(b, "record")
    /\ UNCHANGED <<ready, before, lease, entry, quarantine, record, faults>>

\* recordTreeVerified: the tree was hashed before the rename.
Record(b) ==
    /\ pc[b] = "record"
    /\ WriteRecord(dir.print)
    /\ ready' = [ready EXCEPT ![b] = TRUE]
    /\ Goto(b, "tidy")
    /\ UNCHANGED <<before, lease, entry, staging, quarantine, dir, prints>>

\* The finally: staging is removed, the entry unlocked, and the tool used or not.
Tidy(b) ==
    /\ pc[b] = "tidy"
    /\ RemoveStaging
    /\ IF ready[b] THEN Goto(b, "use") /\ entry' = None /\ UNCHANGED <<ready, before, lease>>
                   ELSE End(b)
    /\ UNCHANGED <<quarantine, dir, record, prints>>

\* The compilers of the build have run.
EndBuild(b) ==
    /\ pc[b] = "use"
    /\ End(b)
    /\ UNCHANGED <<disk, faults>>

-----------------------------------------------------------------------------
(* lasm cache repair. *)

\* Mutant: repair takes a shared lease.
Unleased == \A p \in Processes : lease[p] # "exclusive"

\* tryOnly: with any build active it gives up at once.
NoLease == \A p \in Processes : lease[p] = "none"

StartRepair ==
    /\ pc[Repair] = "idle"
    /\ NoLease
    /\ lease' = [lease EXCEPT ![Repair] = "exclusive"]
    /\ Goto(Repair, "repair")
    /\ UNCHANGED <<ready, before, entry, disk, faults>>

\* Unfinished staging and earlier quarantine are removed, or left as pending.
RepairStaging ==
    /\ pc[Repair] = "repair"
    /\ staging' \in {"absent", staging} /\ quarantine' \in {FALSE, quarantine}
    /\ IF staging' = "absent" /\ ~quarantine' THEN UNCHANGED faults ELSE Fault
    /\ Goto(Repair, "hash")
    /\ UNCHANGED <<ready, before, lease, entry, dir, record, prints>>

Damaged == dir # None /\ ~dir.intact

\* The tree is checked in full; a damaged one is moved away, unless an earlier
\* quarantine cannot be removed.
RepairTree ==
    /\ pc[Repair] = "hash"
    /\ \/ /\ Damaged
          /\ quarantine' = TRUE /\ dir' = None
          /\ Goto(Repair, "remove")
          /\ UNCHANGED <<ready, before, lease, entry, faults>>
       \/ /\ Damaged /\ quarantine /\ Fault
          /\ End(Repair)
          /\ UNCHANGED <<quarantine, dir>>
       \/ /\ ~Damaged
          /\ End(Repair)
          /\ UNCHANGED <<quarantine, dir, faults>>
    /\ UNCHANGED <<staging, record, prints>>

RemoveTree ==
    /\ pc[Repair] = "remove"
    /\ \/ quarantine' = FALSE /\ UNCHANGED faults
       \/ Fault /\ UNCHANGED quarantine
    /\ End(Repair)
    /\ UNCHANGED <<staging, dir, record, prints>>

-----------------------------------------------------------------------------
\* A file of the published tree is changed from outside.
Damage ==
    /\ dir # None /\ Fault
    /\ dir' = [dir EXCEPT !.print = prints + 1, !.intact = FALSE,
                         !.early = @ \/ \E p \in Processes : pc[p] = "record"]
    /\ prints' = prints + 1
    /\ UNCHANGED <<pc, ready, before, lease, entry, staging, quarantine, record>>

\* What a build does once it has its locks.
Step(b) ==
    \/ Clean(b) \/ Check(b) \/ Hashed(b) \/ HashFails(b) \/ Create(b) \/ Fetch(b)
    \/ Extract(b) \/ Publish(b) \/ Record(b) \/ Tidy(b) \/ EndBuild(b)

RepairStep == RepairStaging \/ RepairTree \/ RemoveTree

Next ==
    \/ \E b \in Builds : StartBuild(b) \/ TakeLease(b) \/ TakeEntry(b) \/ Abort(b) \/ Step(b)
    \/ StartRepair \/ RepairStep
    \/ \E p \in Processes : Die(p)
    \/ Damage

(***************************************************************************)
(* Processes run.  A lock that is free again and again is taken at last    *)
(* (it is polled every 50 ms), and users build again, and repair when they *)
(* are told to, until it works.                                            *)
(***************************************************************************)
Fairness ==
    /\ \A b \in Builds : /\ WF_vars(StartBuild(b))
                         /\ SF_vars(TakeLease(b)) /\ SF_vars(TakeEntry(b))
                         /\ WF_vars(Step(b))
    /\ SF_vars(StartRepair) /\ WF_vars(RepairStep)

Spec == Init /\ [][Next]_vars /\ Fairness

-----------------------------------------------------------------------------
(* Properties. *)

(***************************************************************************)
(* A build that uses the tool finds the whole tree in its place until it   *)
(* ends, whoever died while installing it before and whatever was left in  *)
(* staging, and whoever repairs the cache meanwhile.                       *)
(***************************************************************************)
WholeInUse == \A b \in Builds : pc[b] = "use" => dir # None /\ dir.content = "whole"

(***************************************************************************)
(* The verification record never vouches for a tree that changed while it  *)
(* was verified or later; only a change between its publication and its    *)
(* first fingerprint goes unnoticed. Damaged means changed since           *)
(* publication: that a file keeps its bytes in staging, or is a hard link  *)
(* of an intact original, is taken for granted, as inventory takes the     *)
(* hash of a file it knows from its size alone.                            *)
(***************************************************************************)
RecordSound == Damaged /\ record = dir.print => dir.early

(***************************************************************************)
(* After any crashes, failures and damage every build that is tried again  *)
(* uses the tool at last, unless builds never leave the cache idle for a   *)
(* repair.                                                                 *)
(***************************************************************************)
Recovers ==
    \A b \in Builds : []<>(pc[b] = "use")
                     \/ <>[](Damaged /\ \E c \in Builds : lease[c] # "none")
=============================================================================
