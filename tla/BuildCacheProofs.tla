--------------------------- MODULE BuildCacheProofs ---------------------------
(***************************************************************************)
(* Theorems about BuildCache, for any number of builds and any number of   *)
(* crashes, failures and damage: its types, that a build in use of the     *)
(* tool has the whole tree, and that the verification record never vouches *)
(* for later damage.                                                       *)
(*                                                                         *)
(* The invariant is TypeOK /\ CacheInv.  Locks says which locks a process  *)
(* holds at each of its steps, so that one build at most installs and none *)
(* is inside while repair runs.  Progress says what that build finds in    *)
(* staging and in the tree's place: it needs Locks, for nobody else to     *)
(* have touched them.  Fingerprints says that a tree never has a print the *)
(* record could have held before, and bounds the prints by the faults.     *)
(***************************************************************************)
EXTENDS BuildCache, TLAPS

\* The steps of a build that holds the entry's lock, and those inside its lease.
Installs == {"clean", "check", "hash", "create", "fetch", "extract", "publish", "record", "tidy"}
Inside == Installs \cup {"entry", "use"}

Locks ==
    /\ pc[Repair] \in {"idle", "repair", "hash", "remove"}
    /\ lease[Repair] = IF pc[Repair] = "idle" THEN "none" ELSE "exclusive"
    /\ entry # Repair
    /\ \A b \in Builds :
          /\ pc[b] \in {"idle", "lease"} \cup Inside
          /\ lease[b] = IF pc[b] \in Inside THEN "shared" ELSE "none"
          /\ entry = b <=> pc[b] \in Installs
          /\ pc[Repair] # "idle" => pc[b] \notin Inside

Progress ==
    \A b \in Builds :
        /\ pc[b] \in {"create", "fetch", "extract", "publish"} => dir = None
        /\ pc[b] = "fetch" => staging = "empty"
        /\ pc[b] = "extract" => staging = "partial"
        /\ pc[b] = "publish" => staging = "whole"
        /\ pc[b] \in {"hash", "record", "use"} => dir # None
        /\ ready[b] => pc[b] \in Inside /\ dir # None
        /\ pc[b] = "record" => dir.intact \/ dir.early

Intact == dir # None /\ dir.intact

Fingerprints ==
    /\ dir # None => dir.content = "whole" /\ dir.print <= prints
    /\ record <= prints
    /\ prints <= 2 * faults + IF Intact THEN 1 ELSE 0
    /\ RecordSound

CacheInv == Locks /\ Progress /\ Fingerprints

\* Fingerprints are numbers, and 0 is one.
LEMMA PrintsAreNumbers == 0 \in Prints /\ Prints \subseteq Nat
BY CacheAssumption DEF Prints

USE DEF disk, Goto, Fault, Release, End, Processes, Trees, Installs, Inside

\* The invariant holds initially.
LEMMA InitInv ==
  Init => TypeOK /\ CacheInv
<1> SUFFICES ASSUME Init PROVE TypeOK /\ CacheInv
  OBVIOUS
<1>1. TypeOK
  <2>1. 0 \in Prints /\ 0 \in 0..MaxFaults
    BY CacheAssumption, PrintsAreNumbers
  <2> QED BY <2>1 DEF Init, TypeOK
<1>2. Locks /\ Progress
  BY CacheAssumption DEF Init, Locks, Progress
<1>3. Fingerprints
  BY DEF Init, Fingerprints, RecordSound, Damaged
<1> QED BY <1>1, <1>2, <1>3 DEF CacheInv

\* A build starts: it holds nothing yet.
LEMMA StartBuildInv ==
  ASSUME TypeOK, CacheInv, NEW b \in Builds, StartBuild(b)
  PROVE  TypeOK' /\ CacheInv'
<1>1. TypeOK'
  BY DEF TypeOK, StartBuild
<1>2. Locks'
  BY CacheAssumption DEF CacheInv, Locks, StartBuild
<1>3. Progress'
  BY DEF CacheInv, Progress, StartBuild
<1>4. Fingerprints'
  BY DEF CacheInv, Fingerprints, Intact, RecordSound, Damaged, StartBuild
<1> QED BY <1>1, <1>2, <1>3, <1>4 DEF CacheInv

\* The shared lease is taken only while no repair runs.
LEMMA TakeLeaseInv ==
  ASSUME TypeOK, CacheInv, NEW b \in Builds, TakeLease(b)
  PROVE  TypeOK' /\ CacheInv'
<1>1. TypeOK'
  BY DEF TypeOK, TakeLease
<1>2. Locks'
  BY DEF TypeOK, CacheInv, Locks, TakeLease
<1>3. Progress'
  BY DEF CacheInv, Progress, TakeLease
<1>4. Fingerprints'
  BY DEF CacheInv, Fingerprints, Intact, RecordSound, Damaged, TakeLease
<1> QED BY <1>1, <1>2, <1>3, <1>4 DEF CacheInv

\* The entry is taken only when no build installs.
LEMMA TakeEntryInv ==
  ASSUME TypeOK, CacheInv, NEW b \in Builds, TakeEntry(b)
  PROVE  TypeOK' /\ CacheInv'
<1>1. TypeOK'
  BY DEF TypeOK, TakeEntry
<1>2. Locks'
  BY CacheAssumption DEF TypeOK, CacheInv, Locks, TakeEntry, EntryFree
<1>3. Progress'
  BY DEF CacheInv, Progress, TakeEntry
<1>4. Fingerprints'
  BY DEF CacheInv, Fingerprints, Intact, RecordSound, Damaged, TakeEntry
<1> QED BY <1>1, <1>2, <1>3, <1>4 DEF CacheInv

\* A waiting build holds at most its lease, and gives it back.
LEMMA AbortInv ==
  ASSUME TypeOK, CacheInv, NEW b \in Builds, Abort(b)
  PROVE  TypeOK' /\ CacheInv'
<1>1. TypeOK'
  BY CacheAssumption, PrintsAreNumbers DEF TypeOK, Abort
<1>2. Locks'
  BY DEF TypeOK, CacheInv, Locks, Abort
<1>3. Progress'
  BY DEF TypeOK, CacheInv, Progress, Abort
<1>4. Fingerprints'
  BY PrintsAreNumbers DEF TypeOK, CacheInv, Fingerprints, RecordSound, Damaged, Abort
<1> QED BY <1>1, <1>2, <1>3, <1>4 DEF CacheInv

\* Clean touches staging only, which no other build is filling.
LEMMA CleanInv ==
  ASSUME TypeOK, CacheInv, NEW b \in Builds, Clean(b)
  PROVE  TypeOK' /\ CacheInv'
<1>1. TypeOK'
  BY CacheAssumption DEF TypeOK, Clean, RemoveStaging
<1>2. Locks'
  BY DEF CacheInv, Locks, Clean
<1>3. Progress'
  BY DEF CacheInv, Locks, Progress, Clean
<1>4. Fingerprints'
  BY PrintsAreNumbers
     DEF TypeOK, CacheInv, Fingerprints, Intact, RecordSound, Damaged, Clean, RemoveStaging
<1> QED BY <1>1, <1>2, <1>3, <1>4 DEF CacheInv

\* Check goes to create without a tree, and to use or hash with one.
LEMMA CheckInv ==
  ASSUME TypeOK, CacheInv, NEW b \in Builds, Check(b)
  PROVE  TypeOK' /\ CacheInv'
<1>1. TypeOK'
  BY ZenonT(30), CacheAssumption, NoTreeAssumption, PrintsAreNumbers
     DEF TypeOK, CacheInv, Fingerprints, Progress, Intact, Check
<1>2. Locks'
  BY CacheAssumption DEF TypeOK, CacheInv, Locks, Check
<1>3. Progress'
  BY DEF TypeOK, CacheInv, Progress, Check
<1>4. Fingerprints'
  BY DEF CacheInv, Fingerprints, Intact, RecordSound, Damaged, Check
<1> QED BY <1>1, <1>2, <1>3, <1>4 DEF CacheInv

\* A full check records the fingerprint of an intact tree, or nothing.
LEMMA HashedInv ==
  ASSUME TypeOK, CacheInv, NEW b \in Builds, Hashed(b)
  PROVE  TypeOK' /\ CacheInv'
<1>1. TypeOK'
  BY CacheAssumption DEF TypeOK, Hashed, Vouch, WriteRecord
<1>2. Locks'
  BY CacheAssumption DEF TypeOK, CacheInv, Locks, Hashed
<1>3. Progress'
  BY DEF CacheInv, Progress, Hashed
<1>4. Fingerprints'
  BY PrintsAreNumbers
     DEF TypeOK, CacheInv, Fingerprints, Progress, Intact, RecordSound, Damaged, Hashed, Vouch,
         WriteRecord
<1> QED BY <1>1, <1>2, <1>3, <1>4 DEF CacheInv

\* A build that finds damage ends.
LEMMA HashFailsInv ==
  ASSUME TypeOK, CacheInv, NEW b \in Builds, HashFails(b)
  PROVE  TypeOK' /\ CacheInv'
<1>1. TypeOK'
  BY PrintsAreNumbers DEF TypeOK, HashFails
<1>2. Locks'
  BY CacheAssumption DEF TypeOK, CacheInv, Locks, HashFails
<1>3. Progress'
  BY DEF TypeOK, CacheInv, Progress, HashFails
<1>4. Fingerprints'
  BY DEF CacheInv, Fingerprints, Intact, RecordSound, Damaged, HashFails
<1> QED BY <1>1, <1>2, <1>3, <1>4 DEF CacheInv

\* Create starts from no staging at all.
LEMMA CreateInv ==
  ASSUME TypeOK, CacheInv, NEW b \in Builds, Create(b)
  PROVE  TypeOK' /\ CacheInv'
<1>1. TypeOK'
  <2>1. /\ ready' \in [Processes -> BOOLEAN] /\ before' \in [Processes -> Prints]
        /\ lease' \in [Processes -> {"none", "shared", "exclusive"}]
        /\ entry' \in Processes \cup {None}
    <3>1. CASE CanCreate
      BY <3>1 DEF TypeOK, Create
    <3>2. CASE ~CanCreate
      <4>1. ready' \in [Processes -> BOOLEAN] /\ before' \in [Processes -> Prints]
        BY <3>2, PrintsAreNumbers, Zenon DEF TypeOK, Create
      <4>2. lease' \in [Processes -> {"none", "shared", "exclusive"}]
        BY <3>2, Zenon DEF TypeOK, Create
      <4>3. entry' \in Processes \cup {None}
        BY <3>2 DEF TypeOK, Create
      <4> QED BY <4>1, <4>2, <4>3
    <3> QED BY <3>1, <3>2
  <2>2. /\ staging' \in {"absent", "empty", "partial", "whole", "mixed"}
        /\ quarantine' \in BOOLEAN
        /\ faults' \in 0..MaxFaults
    BY DEF TypeOK, Create
  <2>3. dir' \in Trees \cup {None} /\ record' \in Prints /\ prints' \in Prints
    BY DEF TypeOK, Create
  <2>4. pc' \in [Processes -> {"idle", "lease", "entry", "clean", "check", "hash", "create", "fetch",
                          "extract", "publish", "record", "tidy", "use", "repair", "remove"}]
    BY DEF TypeOK, Create
  <2> QED BY <2>1, <2>2, <2>3, <2>4 DEF TypeOK
<1>2. Locks'
  BY CacheAssumption DEF TypeOK, CacheInv, Locks, Create
<1>3. Progress'
  BY DEF TypeOK, CacheInv, Progress, Create, CanCreate
<1>4. Fingerprints'
  BY DEF CacheInv, Fingerprints, Intact, RecordSound, Damaged, Create
<1> QED BY <1>1, <1>2, <1>3, <1>4 DEF CacheInv

\* Fetch fills empty staging.
LEMMA FetchInv ==
  ASSUME TypeOK, CacheInv, NEW b \in Builds, Fetch(b)
  PROVE  TypeOK' /\ CacheInv'
<1>1. TypeOK'
  BY CacheAssumption DEF TypeOK, Fetch
<1>2. Locks'
  BY DEF TypeOK, CacheInv, Locks, Fetch
<1>3. Progress'
  BY DEF TypeOK, CacheInv, Locks, Progress, Fetch
<1>4. Fingerprints'
  BY PrintsAreNumbers DEF TypeOK, CacheInv, Fingerprints, Intact, RecordSound, Damaged, Fetch
<1> QED BY <1>1, <1>2, <1>3, <1>4 DEF CacheInv

\* Extract completes what was fetched.
LEMMA ExtractInv ==
  ASSUME TypeOK, CacheInv, NEW b \in Builds, Extract(b)
  PROVE  TypeOK' /\ CacheInv'
<1>1. TypeOK'
  BY CacheAssumption DEF TypeOK, Extract
<1>2. Locks'
  BY DEF TypeOK, CacheInv, Locks, Extract
<1>3. Progress'
  BY DEF TypeOK, CacheInv, Locks, Progress, Extract
<1>4. Fingerprints'
  BY PrintsAreNumbers DEF TypeOK, CacheInv, Fingerprints, Intact, RecordSound, Damaged, Extract
<1> QED BY <1>1, <1>2, <1>3, <1>4 DEF CacheInv

\* Publish puts a whole tree where none was, under a new fingerprint.
LEMMA PublishInv ==
  ASSUME TypeOK, CacheInv, NEW b \in Builds, Publish(b)
  PROVE  TypeOK' /\ CacheInv'
<1>1. dir = None /\ staging = "whole"
  BY DEF CacheInv, Progress, Publish
<1>2. prints \in Nat /\ prints + 1 \in Prints /\ prints + 1 <= 2 * faults + 1 /\ record <= prints
  BY <1>1, CacheAssumption DEF TypeOK, CacheInv, Fingerprints, Intact, Prints
<1>3. /\ dir' \in Trees /\ dir' # None
      /\ dir'.print = prints + 1 /\ dir'.content = "whole" /\ dir'.intact /\ ~dir'.early
  <2>1. dir' = [print |-> prints + 1, content |-> "whole", intact |-> TRUE, early |-> FALSE]
    BY <1>1 DEF Publish
  <2>2. dir' \in Trees
    BY <1>2, <2>1
  <2> QED BY <2>1, <2>2, NoTreeAssumption
<1>4. TypeOK'
  BY <1>3 DEF TypeOK, Publish
<1>5. Locks'
  BY DEF CacheInv, Locks, Publish
<1>6. ASSUME NEW c \in Builds, c # b
      PROVE  pc'[c] = pc[c] /\ pc[c] \notin Installs
  BY <1>6 DEF CacheInv, Locks, Publish
<1>7. Progress'
  BY <1>3, <1>6 DEF TypeOK, CacheInv, Progress, Publish
<1>8. Fingerprints'
  BY <1>2, <1>3 DEF TypeOK, Fingerprints, Intact, RecordSound, Publish
<1> QED BY <1>4, <1>5, <1>7, <1>8 DEF CacheInv

\* Record vouches for a damaged tree only when the damage was early.
LEMMA RecordInv ==
  ASSUME TypeOK, CacheInv, NEW b \in Builds, Record(b)
  PROVE  TypeOK' /\ CacheInv'
<1>1. TypeOK'
  BY CacheAssumption DEF TypeOK, CacheInv, Progress, Record, WriteRecord
<1>2. Locks'
  BY DEF CacheInv, Locks, Record
<1>3. Progress'
  BY DEF CacheInv, Progress, Record
<1>4. Fingerprints'
  BY PrintsAreNumbers
     DEF TypeOK, CacheInv, Fingerprints, Progress, Intact, RecordSound, Damaged, Record, WriteRecord
<1> QED BY <1>1, <1>2, <1>3, <1>4 DEF CacheInv

\* Tidy uses the tree only when it was recorded.
LEMMA TidyInv ==
  ASSUME TypeOK, CacheInv, NEW b \in Builds, Tidy(b)
  PROVE  TypeOK' /\ CacheInv'
<1>1. TypeOK'
  <2>1. /\ ready' \in [Processes -> BOOLEAN] /\ before' \in [Processes -> Prints]
        /\ lease' \in [Processes -> {"none", "shared", "exclusive"}]
        /\ entry' \in Processes \cup {None}
    <3>1. CASE ready[b]
      BY <3>1, CacheAssumption DEF TypeOK, Tidy
    <3>2. CASE ~ready[b]
      <4>1. ready' \in [Processes -> BOOLEAN] /\ before' \in [Processes -> Prints]
        BY <3>2, PrintsAreNumbers, Zenon DEF TypeOK, Tidy
      <4>2. lease' \in [Processes -> {"none", "shared", "exclusive"}]
        BY <3>2, Zenon DEF TypeOK, Tidy
      <4>3. entry' \in Processes \cup {None}
        BY <3>2 DEF TypeOK, Tidy
      <4> QED BY <4>1, <4>2, <4>3
    <3> QED BY <3>1, <3>2
  <2>2. /\ staging' \in {"absent", "empty", "partial", "whole", "mixed"}
        /\ quarantine' \in BOOLEAN
        /\ faults' \in 0..MaxFaults
    BY CacheAssumption DEF TypeOK, Tidy, RemoveStaging
  <2>3. dir' \in Trees \cup {None} /\ record' \in Prints /\ prints' \in Prints
    BY DEF TypeOK, Tidy
  <2>4. pc' \in [Processes -> {"idle", "lease", "entry", "clean", "check", "hash", "create", "fetch",
                          "extract", "publish", "record", "tidy", "use", "repair", "remove"}]
    BY DEF TypeOK, Tidy
  <2> QED BY <2>1, <2>2, <2>3, <2>4 DEF TypeOK
<1>2. Locks'
  BY CacheAssumption DEF TypeOK, CacheInv, Locks, Tidy
<1>3. Progress'
  BY DEF TypeOK, CacheInv, Locks, Progress, Tidy
<1>4. Fingerprints'
  BY PrintsAreNumbers
     DEF TypeOK, CacheInv, Fingerprints, Intact, RecordSound, Damaged, Tidy, RemoveStaging
<1> QED BY <1>1, <1>2, <1>3, <1>4 DEF CacheInv

\* The build ends.
LEMMA EndBuildInv ==
  ASSUME TypeOK, CacheInv, NEW b \in Builds, EndBuild(b)
  PROVE  TypeOK' /\ CacheInv'
<1>1. TypeOK'
  BY PrintsAreNumbers DEF TypeOK, EndBuild
<1>2. Locks'
  BY DEF TypeOK, CacheInv, Locks, EndBuild
<1>3. Progress'
  BY DEF TypeOK, CacheInv, Progress, EndBuild
<1>4. Fingerprints'
  BY DEF CacheInv, Fingerprints, Intact, RecordSound, Damaged, EndBuild
<1> QED BY <1>1, <1>2, <1>3, <1>4 DEF CacheInv

\* Repair starts only when no build holds a lease.
LEMMA StartRepairInv ==
  ASSUME TypeOK, CacheInv, StartRepair
  PROVE  TypeOK' /\ CacheInv'
<1>1. TypeOK'
  BY DEF TypeOK, StartRepair
<1>2. Locks'
  BY CacheAssumption DEF TypeOK, CacheInv, Locks, StartRepair, NoLease
<1>3. Progress'
  BY DEF CacheInv, Progress, StartRepair
<1>4. Fingerprints'
  BY DEF CacheInv, Fingerprints, Intact, RecordSound, Damaged, StartRepair
<1> QED BY <1>1, <1>2, <1>3, <1>4 DEF CacheInv

\* Repair removes staging while no build is inside.
LEMMA RepairStagingInv ==
  ASSUME TypeOK, CacheInv, RepairStaging
  PROVE  TypeOK' /\ CacheInv'
<1>1. TypeOK'
  <2>1. /\ ready' \in [Processes -> BOOLEAN] /\ before' \in [Processes -> Prints]
        /\ lease' \in [Processes -> {"none", "shared", "exclusive"}]
        /\ entry' \in Processes \cup {None}
    BY DEF TypeOK, RepairStaging
  <2>2. staging' \in {"absent", "empty", "partial", "whole", "mixed"} /\ faults' \in 0..MaxFaults
    BY CacheAssumption DEF TypeOK, RepairStaging
  <2>5. quarantine' \in BOOLEAN
    BY Zenon DEF TypeOK, RepairStaging
  <2>3. dir' \in Trees \cup {None} /\ record' \in Prints /\ prints' \in Prints
    BY DEF TypeOK, RepairStaging
  <2>4. pc' \in [Processes -> {"idle", "lease", "entry", "clean", "check", "hash", "create", "fetch",
                          "extract", "publish", "record", "tidy", "use", "repair", "remove"}]
    BY DEF TypeOK, RepairStaging
  <2> QED BY <2>1, <2>2, <2>3, <2>4, <2>5 DEF TypeOK
<1>2. Locks'
  BY DEF CacheInv, Locks, RepairStaging
<1>3. Progress'
  BY DEF CacheInv, Locks, Progress, RepairStaging
<1>4. Fingerprints'
  BY PrintsAreNumbers
     DEF TypeOK, CacheInv, Fingerprints, Intact, RecordSound, Damaged, RepairStaging
<1> QED BY <1>1, <1>2, <1>3, <1>4 DEF CacheInv

\* Repair removes only a damaged tree, and no build uses it.
LEMMA RepairTreeInv ==
  ASSUME TypeOK, CacheInv, RepairTree
  PROVE  TypeOK' /\ CacheInv'
<1>1. TypeOK'
  <2>1. /\ ready' \in [Processes -> BOOLEAN] /\ before' \in [Processes -> Prints]
        /\ lease' \in [Processes -> {"none", "shared", "exclusive"}]
        /\ entry' \in Processes \cup {None}
    <3>1. UNCHANGED <<ready, before, lease, entry>> \/ Release(Repair)
      BY DEF RepairTree
    <3>2. /\ ready \in [Processes -> BOOLEAN] /\ before \in [Processes -> Prints]
          /\ lease \in [Processes -> {"none", "shared", "exclusive"}]
          /\ entry \in Processes \cup {None}
      BY DEF TypeOK
    <3> QED BY <3>1, <3>2, PrintsAreNumbers
  <2>2. staging' \in {"absent", "empty", "partial", "whole", "mixed"} /\ faults' \in 0..MaxFaults
    BY CacheAssumption DEF TypeOK, RepairTree
  <2>5. quarantine' \in BOOLEAN
    BY Zenon DEF TypeOK, RepairTree
  <2>3. dir' \in Trees \cup {None} /\ record' \in Prints /\ prints' \in Prints
    BY DEF TypeOK, RepairTree
  <2>4. pc' \in [Processes -> {"idle", "lease", "entry", "clean", "check", "hash", "create", "fetch",
                          "extract", "publish", "record", "tidy", "use", "repair", "remove"}]
    BY DEF TypeOK, RepairTree
  <2> QED BY <2>1, <2>2, <2>3, <2>4, <2>5 DEF TypeOK
<1>2. Locks'
  BY DEF TypeOK, CacheInv, Locks, RepairTree
<1>3. Progress'
  BY DEF TypeOK, CacheInv, Locks, Progress, RepairTree
<1>4. Fingerprints'
  BY PrintsAreNumbers DEF TypeOK, CacheInv, Fingerprints, Intact, RecordSound, RepairTree, Damaged
<1> QED BY <1>1, <1>2, <1>3, <1>4 DEF CacheInv

\* The quarantine is removed, or kept.
LEMMA RemoveTreeInv ==
  ASSUME TypeOK, CacheInv, RemoveTree
  PROVE  TypeOK' /\ CacheInv'
<1>1. TypeOK'
  <2>1. /\ ready' \in [Processes -> BOOLEAN] /\ before' \in [Processes -> Prints]
        /\ lease' \in [Processes -> {"none", "shared", "exclusive"}]
        /\ entry' \in Processes \cup {None}
    BY PrintsAreNumbers DEF TypeOK, RemoveTree
  <2>2. staging' \in {"absent", "empty", "partial", "whole", "mixed"} /\ faults' \in 0..MaxFaults
    BY CacheAssumption DEF TypeOK, RemoveTree
  <2>5. quarantine' \in BOOLEAN
    BY Zenon DEF TypeOK, RemoveTree
  <2>3. dir' \in Trees \cup {None} /\ record' \in Prints /\ prints' \in Prints
    BY DEF TypeOK, RemoveTree
  <2>4. pc' \in [Processes -> {"idle", "lease", "entry", "clean", "check", "hash", "create", "fetch",
                          "extract", "publish", "record", "tidy", "use", "repair", "remove"}]
    BY DEF TypeOK, RemoveTree
  <2> QED BY <2>1, <2>2, <2>3, <2>4, <2>5 DEF TypeOK
<1>2. Locks'
  BY DEF TypeOK, CacheInv, Locks, RemoveTree
<1>3. Progress'
  BY DEF CacheInv, Progress, RemoveTree
<1>4. Fingerprints'
  BY PrintsAreNumbers DEF TypeOK, CacheInv, Fingerprints, Intact, RecordSound, Damaged, RemoveTree
<1> QED BY <1>1, <1>2, <1>3, <1>4 DEF CacheInv

\* A process that dies leaves the disk and gives back its locks.
LEMMA DieInv ==
  ASSUME TypeOK, CacheInv, NEW p \in Processes, Die(p)
  PROVE  TypeOK' /\ CacheInv'
<1>1. TypeOK'
  BY CacheAssumption, PrintsAreNumbers DEF TypeOK, Die
<1>2. Locks'
  BY CacheAssumption DEF TypeOK, CacheInv, Locks, Die
<1>3. Progress'
  BY DEF TypeOK, CacheInv, Progress, Die
<1>4. Fingerprints'
  BY PrintsAreNumbers DEF TypeOK, CacheInv, Fingerprints, RecordSound, Damaged, Die
<1> QED BY <1>1, <1>2, <1>3, <1>4 DEF CacheInv

\* Damage gives the tree a fingerprint nobody has recorded.
LEMMA DamageInv ==
  ASSUME TypeOK, CacheInv, Damage
  PROVE  TypeOK' /\ CacheInv'
<1>1. /\ prints \in Nat /\ prints + 1 \in Prints
      /\ prints + 1 <= 2 * (faults + 1) /\ record <= prints
  BY CacheAssumption DEF TypeOK, CacheInv, Fingerprints, Prints
<1>2. /\ dir' \in Trees /\ dir' # None
      /\ dir'.print = prints + 1 /\ dir'.content = dir.content /\ ~dir'.intact
  BY <1>1, NoTreeAssumption DEF TypeOK, Damage
<1>3. ASSUME NEW b \in Builds, pc[b] = "record"
      PROVE  dir'.early
  BY <1>3 DEF TypeOK, Damage
<1>4. TypeOK'
  <2>1. prints' \in Prints /\ dir' \in Trees
    BY <1>2 DEF Damage
  <2>2. /\ UNCHANGED <<pc, ready, before, lease, entry, staging, quarantine, record>>
        /\ faults < MaxFaults /\ faults' = faults + 1
    BY DEF Damage
  <2> QED BY <2>1, <2>2, CacheAssumption DEF TypeOK
<1>5. Locks'
  BY DEF CacheInv, Locks, Damage
<1>6. Progress'
  BY <1>2 DEF CacheInv, Progress, Damage
<1>7. Fingerprints'
  BY PrintsAreNumbers DEF TypeOK, CacheInv, Fingerprints, RecordSound, Damage
<1> QED BY <1>4, <1>5, <1>6, <1>7 DEF CacheInv

\* Every step preserves the invariant.
LEMMA StepInv ==
  ASSUME TypeOK, CacheInv, [Next]_vars
  PROVE  TypeOK' /\ CacheInv'
<1>1. CASE UNCHANGED vars
  BY <1>1 DEF vars, TypeOK, CacheInv, Locks, Progress, Intact, Fingerprints, RecordSound, Damaged
<1>2. ASSUME NEW b \in Builds, StartBuild(b) \/ TakeLease(b) \/ TakeEntry(b) \/ Abort(b)
      PROVE  TypeOK' /\ CacheInv'
  BY <1>2, StartBuildInv, TakeLeaseInv, TakeEntryInv, AbortInv
<1>3. ASSUME NEW b \in Builds, Step(b)
      PROVE  TypeOK' /\ CacheInv'
  BY <1>3, CleanInv, CheckInv, HashedInv, HashFailsInv, CreateInv, FetchInv, ExtractInv, PublishInv,
     RecordInv, TidyInv, EndBuildInv
     DEF Step
<1>4. CASE StartRepair \/ RepairStep
  BY <1>4, StartRepairInv, RepairStagingInv, RepairTreeInv, RemoveTreeInv DEF RepairStep
<1>5. ASSUME NEW p \in Processes, Die(p)
      PROVE  TypeOK' /\ CacheInv'
  BY <1>5, DieInv
<1>6. CASE Damage
  BY <1>6, DamageInv
<1> QED BY <1>1, <1>2, <1>3, <1>4, <1>5, <1>6 DEF Next

\* What holds in every reachable state.
LEMMA Invariance == Spec => [](TypeOK /\ CacheInv)
<1>1. TypeOK /\ CacheInv /\ [Next]_vars => (TypeOK /\ CacheInv)'
  BY StepInv
<1> QED BY <1>1, InitInv, PTL DEF Spec

(***************************************************************************)
(* The variables keep their types; the fingerprints a bounded number of    *)
(* faults can cause are bounded.                                           *)
(***************************************************************************)
THEOREM Typed == Spec => []TypeOK
BY Invariance, PTL

(***************************************************************************)
(* A build that uses the tool finds the whole tree in its place, whatever  *)
(* other builds, repair, crashes and failures did.                         *)
(***************************************************************************)
THEOREM UseIsWhole == Spec => []WholeInUse
<1>1. CacheInv => WholeInUse
  BY DEF CacheInv, Progress, Fingerprints, WholeInUse
<1> QED BY <1>1, Invariance, PTL

(***************************************************************************)
(* The verification record vouches for a tree that changed since its       *)
(* publication only when the change came before the tree's first record.   *)
(***************************************************************************)
THEOREM RecordIsSound == Spec => []RecordSound
<1>1. CacheInv => RecordSound
  BY DEF CacheInv, Fingerprints
<1> QED BY <1>1, Invariance, PTL
=============================================================================
