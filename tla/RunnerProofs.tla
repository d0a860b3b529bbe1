---------------------------- MODULE RunnerProofs ----------------------------
(***************************************************************************)
(* Proofs about the services of the script runner: libraries and their     *)
(* wheels, storage pins, pins and verdicts, the ticker, the courier.  They *)
(* share nothing but this module.                                          *)
(***************************************************************************)
EXTENDS Libs, StoragePins, Pins, Ticker, Courier, Wheels, SumTheorems, FiniteSetTheorems, TLAPS

-----------------------------------------------------------------------------
(* Libs: a run keeps what it has borrowed, for any plans, locks, runs and  *)
(* any number of faults.                                                   *)

Jobs == [at : {"none", "queued", "working", "publish", "sync", "failed", "later"},
         have : BOOLEAN, cancelled : BOOLEAN]
LTypes ==
    /\ onDisk \in [LibLocks -> {"none", "half", "whole", "rest", "torn"}]
    /\ job \in [Plans -> Jobs]
    /\ lease \in [Borrowers -> LibLocks \cup {NoLock}]
(* Who works holds the one place; what is published and not yet durable    *)
(* belongs to the job that published it; what is lent has its manifest.    *)
OneBuilder == \A p \in Plans : job[p].at \in {"working", "publish", "sync"} => builder = p
HalfIsOwned == \A p \in Plans : job[p].at = "sync" => onDisk[LockOf[p]] = "half"
LentIsThere ==
    \A r \in Borrowers : lease[r] # NoLock => onDisk[lease[r]] \in {"whole", "rest"}

LInv == LTypes /\ OneBuilder /\ HalfIsOwned /\ LentIsThere
(* What a step does to the directories that runs hold.                     *)
LentUntouched ==
    \A r \in Borrowers :
        lease[r] # NoLock /\ lease'[r] = lease[r] => onDisk'[lease[r]] = onDisk[lease[r]]

LEMMA LibsInvInit == LibsInit => LInv
  BY LibsAssumption
  DEF LibsInit, LInv, LTypes, Jobs, NoJob, OneBuilder, HalfIsOwned, LentIsThere

(* A step that touches neither directories nor jobs beyond this.           *)
LEMMA JobsOnly ==
    ASSUME LInv, UNCHANGED <<onDisk, lease>>, job' \in [Plans -> Jobs],
           \A p \in Plans : job'[p].at \in {"working", "publish", "sync"}
                => builder' = p /\ (job'[p].at = "sync" => job[p].at = "sync")
    PROVE  LInv' /\ LentUntouched
  BY DEF LInv, LTypes, OneBuilder, HalfIsOwned, LentIsThere, LentUntouched

(* The job of one plan goes from at to where it goes next.                 *)
LEMMA OneJob ==
    ASSUME LInv, NEW p \in Plans, NEW j \in Jobs, job' = [job EXCEPT ![p] = j]
    PROVE  /\ job' \in [Plans -> Jobs] /\ job'[p] = j
           /\ \A q \in Plans \ {p} : job'[q] = job[q]
  BY DEF LInv, LTypes

LEMMA JobSteps ==
    ASSUME LInv, NEW p \in Plans
    PROVE  /\ \A at \in {"none", "queued", "working", "publish", "sync", "failed", "later"} :
                 [job[p] EXCEPT !.at = at] \in Jobs /\ [job[p] EXCEPT !.at = at].at = at
           /\ NoJob \in Jobs /\ NoJob.at = "none"
           /\ \A have \in BOOLEAN : [NoJob EXCEPT !.at = "queued", !.have = have] \in Jobs
                /\ [NoJob EXCEPT !.at = "queued", !.have = have].at = "queued"
  BY DEF LInv, LTypes, Jobs, NoJob

LEMMA Others ==
    ASSUME LInv, NEW p \in Plans, job[p].at \in {"working", "publish", "sync"},
           NEW q \in Plans \ {p}
    PROVE  job[q].at \notin {"working", "publish", "sync"}
  BY DEF LInv, OneBuilder

(* A job that ends gives the place back.                                   *)
LEMMA JobEnds ==
    ASSUME LInv, NEW p \in Plans, NEW at \in {"none", "failed", "later"},
           job[p].at \in {"working", "publish", "sync"}, Done(p, at)
    PROVE  /\ job' \in [Plans -> Jobs]
           /\ \A q \in Plans : job'[q].at \notin {"working", "publish", "sync"}
<1> DEFINE j == IF at = "none" THEN NoJob ELSE [job[p] EXCEPT !.at = at]
<1>1. j \in Jobs /\ j.at = at
  BY JobSteps
<1>2. job' = [job EXCEPT ![p] = j]
  BY DEF Done, FinishJob
<1> HIDE DEF j
<1>3. job' \in [Plans -> Jobs] /\ job'[p] = j /\ \A q \in Plans \ {p} : job'[q] = job[q]
  BY <1>1, <1>2, OneJob
<1> QED BY <1>1, <1>3, Others

LEMMA JobMoves ==
    ASSUME LInv, NEW p \in Plans, NEW at \in {"working", "publish", "sync"}, Step(p, at)
    PROVE  /\ job' \in [Plans -> Jobs] /\ job'[p].at = at
           /\ \A q \in Plans \ {p} : job'[q] = job[q]
<1> DEFINE j == [job[p] EXCEPT !.at = at]
<1>1. job' = [job EXCEPT ![p] = j]
  BY DEF Step, LInv, LTypes
<1>2. j \in Jobs /\ j.at = at
  BY JobSteps
<1> HIDE DEF j
<1> QED BY <1>1, <1>2, OneJob

(* The directory of a job in "sync", or of one that found none, changes.    *)
LEMMA OneDirectory ==
    ASSUME LInv, NEW p \in Plans, NEW d \in {"none", "half", "whole", "rest", "torn"},
           onDisk[LockOf[p]] \in {"none", "half"},
           onDisk' = [onDisk EXCEPT ![LockOf[p]] = d], UNCHANGED lease,
           job' \in [Plans -> Jobs],
           \A q \in Plans : job'[q].at \in {"working", "publish", "sync"}
                => q = p /\ builder' = p /\ (job'[q].at = "sync" => d = "half")
    PROVE  LInv' /\ LentUntouched
<1>0. LockOf[p] \in LibLocks
  BY LibsAssumption
<1>1. \A r \in Borrowers : lease[r] # NoLock => lease[r] # LockOf[p] /\ lease[r] \in LibLocks
  BY DEF LInv, LTypes, LentIsThere
<1>2. LTypes' /\ LentUntouched /\ LentIsThere'
  BY <1>0, <1>1 DEF LInv, LTypes, LentUntouched, LentIsThere
<1>3. OneBuilder'
  BY DEF OneBuilder
<1>4. HalfIsOwned'
  BY <1>0 DEF HalfIsOwned, LInv, LTypes
<1> QED BY <1>2, <1>3, <1>4 DEF LInv

LEMMA PrepareKeeps ==
    ASSUME LInv, NEW p \in Plans, Prepare(p)
    PROVE  LInv' /\ LentUntouched
<1>0. LockOf[p] \in LibLocks
  BY LibsAssumption
<1>1. CASE TakePlace(p)
  <2>1. CASE builder = "nobody" /\ builder' = p /\ Step(p, "working")
    <3>1. \A q \in Plans : job[q].at \notin {"working", "publish", "sync"}
      BY <2>1, LibsAssumption DEF LInv, OneBuilder
    <3> QED BY <1>1, <2>1, <3>1, JobMoves, JobsOnly DEF TakePlace, Work
  <2>2. CASE job[p].cancelled /\ FinishJob(p, "later") /\ UNCHANGED builder
    <3>1. job' = [job EXCEPT ![p] = [job[p] EXCEPT !.at = "later"]]
      BY <2>2 DEF FinishJob
    <3>2. job' \in [Plans -> Jobs] /\ job'[p].at = "later" /\ \A q \in Plans \ {p} : job'[q] = job[q]
      BY <3>1, JobSteps, OneJob
    <3> QED BY <1>1, <2>2, <3>2, JobsOnly DEF TakePlace, Work, LInv, OneBuilder
  <2> QED BY <1>1, <2>1, <2>2 DEF TakePlace
<1>2. CASE ReadFails(p)
  BY <1>2, JobEnds, JobsOnly DEF ReadFails, Work
<1>3. CASE Mismatch(p)
  BY <1>3, JobEnds, JobsOnly DEF Mismatch, Work
<1>4. CASE VerifyWheels(p)
  BY <1>4, JobEnds, JobsOnly DEF VerifyWheels, Work
<1>5. CASE Build(p)
  <2>1. CASE Step(p, "publish") /\ UNCHANGED builder
    <3>1. builder = p /\ \A q \in Plans \ {p} : job[q].at \notin {"working", "publish", "sync"}
      BY <1>5, Others DEF Build, Work, LInv, OneBuilder
    <3> QED BY <1>5, <2>1, <3>1, JobMoves, JobsOnly DEF Build, Work
  <2>2. CASE Done(p, "failed")
    BY <1>5, <2>2, JobEnds, JobsOnly DEF Build, Work
  <2> QED BY <1>5, <2>1, <2>2 DEF Build
<1>6. CASE Publish(p)
  <2>0. builder = p /\ \A q \in Plans \ {p} : job[q].at \notin {"working", "publish", "sync"}
    BY <1>6, Others DEF Publish, Work, LInv, OneBuilder
  <2>1. CASE onDisk[LockOf[p]] = "none"
    <3>1. /\ onDisk' = [onDisk EXCEPT ![LockOf[p]] = "half"]
          /\ Step(p, "sync") /\ UNCHANGED <<builder, lease>>
      BY <1>6, <2>1 DEF Publish, Work
    <3>2. job' \in [Plans -> Jobs] /\ job'[p].at = "sync" /\ \A q \in Plans \ {p} : job'[q] = job[q]
      BY <3>1, JobMoves
    <3>3. \A q \in Plans : job'[q].at \in {"working", "publish", "sync"} => q = p /\ builder' = p
      BY <2>0, <3>1, <3>2
    <3> QED BY <2>1, <3>1, <3>2, <3>3, OneDirectory
  <2>2. CASE onDisk[LockOf[p]] # "none"
    <3>1. Done(p, "later") /\ UNCHANGED <<onDisk, lease>> /\ job[p].at = "publish"
      BY <1>6, <2>2 DEF Publish, Work
    <3> QED BY <3>1, JobEnds, JobsOnly
  <2> QED BY <2>1, <2>2
<1>7. CASE Sync(p)
  <2>1. PICK d \in {"whole", "none", "rest", "torn"} : onDisk' = [onDisk EXCEPT ![LockOf[p]] = d]
    BY <1>7 DEF Sync, Residue
  <2>2. PICK at \in {"none", "later"} : Done(p, at)
    BY <1>7 DEF Sync
  <2>3. job[p].at = "sync" /\ onDisk[LockOf[p]] = "half" /\ UNCHANGED lease
    BY <1>7 DEF Sync, Work, LInv, HalfIsOwned
  <2>4. /\ job' \in [Plans -> Jobs]
        /\ \A q \in Plans : job'[q].at \notin {"working", "publish", "sync"}
    BY <2>2, <2>3, JobEnds
  <2> QED BY <2>1, <2>3, <2>4, OneDirectory
<1> QED BY <1>1, <1>2, <1>3, <1>4, <1>5, <1>6, <1>7 DEF Prepare

LEMMA EnsureKeeps ==
    ASSUME LInv, NEW p \in Plans, Ensure(p) \/ Retry(p)
    PROVE  LInv' /\ LentUntouched
<1>1. UNCHANGED <<onDisk, lease, builder>>
  BY DEF Ensure, Retry
<1>2. \/ job' = job
      \/ \E j \in Jobs : j.at \in {"none", "queued"} /\ job' = [job EXCEPT ![p] = j]
  <2>1. CASE Retry(p)
    BY <2>1, JobSteps DEF Retry
  <2>2. CASE Ensure(p)
    <3> DEFINE l == LockOf[p]
    <3>1. (l \in ReadyOf(l)) \in BOOLEAN
      OBVIOUS
    <3>2. \/ job' = job
          \/ job' = [job EXCEPT ![p] = [NoJob EXCEPT !.at = "queued", !.have = l \in ReadyOf(l)]]
      BY <2>2 DEF Ensure
    <3> HIDE DEF l
    <3> QED BY <3>1, <3>2, JobSteps
  <2> QED BY <2>1, <2>2
<1>3. /\ job' \in [Plans -> Jobs]
      /\ \A q \in Plans : job'[q] = job[q] \/ job'[q].at \in {"none", "queued"}
  BY <1>2, OneJob DEF LInv, LTypes
<1> QED BY <1>1, <1>3, JobsOnly DEF LInv, OneBuilder

LEMMA PruneKeeps ==
    ASSUME LInv, NEW keep \in SUBSET LibLocks, Prune(keep)
    PROVE  LInv' /\ LentUntouched
<1>1. /\ job' = [p \in Plans |-> IF Preparing(p) \/ LockOf[p] \in keep THEN job[p] ELSE NoJob]
      /\ UNCHANGED <<builder, lease>>
  BY DEF Prune
<1>2. /\ job' \in [Plans -> Jobs]
      /\ \A p \in Plans : job'[p] = job[p] \/ job'[p].at = "none"
  BY <1>1, JobSteps DEF LInv, LTypes
<1>3. /\ onDisk' \in [LibLocks -> {"none", "half", "whole", "rest", "torn"}]
      /\ \A l \in LibLocks : l \notin NotLent(keep) => onDisk'[l] = onDisk[l]
  <2>1. CASE onDisk' = [l \in LibLocks |-> IF l \in NotLent(keep) THEN "none" ELSE onDisk[l]]
    BY <2>1 DEF LInv, LTypes
  <2>2. ASSUME NEW bad \in NotLent(keep), NEW left \in Residue,
               onDisk' = [l \in LibLocks |-> IF l = bad THEN left
                                             ELSE IF l \in NotLent(keep) THEN "none" ELSE onDisk[l]]
        PROVE  /\ onDisk' \in [LibLocks -> {"none", "half", "whole", "rest", "torn"}]
               /\ \A l \in LibLocks : l \notin NotLent(keep) => onDisk'[l] = onDisk[l]
    BY <2>2 DEF LInv, LTypes, Residue
  <2> QED BY <2>1, <2>2 DEF Prune
<1>4. \A r \in Borrowers : lease[r] # NoLock =>
          lease[r] \in LibLocks /\ lease[r] \notin NotLent(keep)
  BY DEF LInv, LTypes, NotLent, Leased
<1>5. \A p \in Plans : job[p].at = "sync" => LockOf[p] \in LibLocks /\ LockOf[p] \notin NotLent(keep)
  BY LibsAssumption DEF NotLent, Preparing
<1>6. LTypes' /\ LentUntouched /\ LentIsThere'
  BY <1>1, <1>2, <1>3, <1>4 DEF LInv, LTypes, LentUntouched, LentIsThere
<1>7. OneBuilder' /\ HalfIsOwned'
  BY <1>1, <1>2, <1>3, <1>5 DEF LInv, OneBuilder, HalfIsOwned
<1> QED BY <1>6, <1>7 DEF LInv

LEMMA ResetKeeps ==
    ASSUME LInv, ResetBegins \/ ResetEnds
    PROVE  LInv' /\ LentUntouched
<1>1. CASE ResetBegins
  <2>1. job' = [p \in Plans |-> [job[p] EXCEPT !.cancelled = Preparing(p)]]
    BY <1>1 DEF ResetBegins
  <2>2. \A p \in Plans : Preparing(p) \in BOOLEAN
    BY DEF Preparing
  <2>3. \A p \in Plans : job'[p] \in Jobs /\ job'[p].at = job[p].at
    <3> HIDE DEF Preparing
    <3> QED BY <2>1, <2>2 DEF LInv, LTypes, Jobs
  <2>4. job' \in [Plans -> Jobs]
    BY <2>1, <2>3
  <2> QED BY <1>1, <2>3, <2>4, JobsOnly DEF ResetBegins, LInv, OneBuilder
<1>2. CASE ResetEnds
  <2>1. \A r \in Borrowers : lease[r] = NoLock
    BY <1>2 DEF ResetEnds, Leased, LInv, LTypes
  <2>2. job' = [p \in Plans |-> NoJob] /\ UNCHANGED lease
    BY <1>2 DEF ResetEnds
  <2>3. onDisk' \in [LibLocks -> {"none", "half", "whole", "rest", "torn"}]
    BY <1>2 DEF ResetEnds, Residue
  <2> QED BY <2>1, <2>2, <2>3, JobSteps
       DEF LInv, LTypes, OneBuilder, HalfIsOwned, LentIsThere, LentUntouched
<1> QED BY <1>1, <1>2

LEMMA LeaseKeeps ==
    ASSUME LInv, NEW r \in Borrowers, NEW l \in LibLocks, AcquireLibs(r, l) \/ Release(r)
    PROVE  LInv' /\ LentUntouched
<1>1. UNCHANGED <<onDisk, job, builder>>
  BY DEF AcquireLibs, Release
<1>2. \/ lease' = lease
      \/ lease' = [lease EXCEPT ![r] = NoLock]
      \/ lease' = [lease EXCEPT ![r] = l] /\ lease[r] = NoLock /\ onDisk[l] \in {"whole", "rest"}
  BY DEF AcquireLibs, Release, ReadyOf, HasManifest
<1> QED BY <1>1, <1>2, LibsAssumption
     DEF LInv, LTypes, OneBuilder, HalfIsOwned, LentIsThere, LentUntouched

LEMMA OpenKeeps ==
    ASSUME LInv, Open
    PROVE  LInv' /\ \A r \in Borrowers : lease'[r] = NoLock
<1>1. onDisk' \in [LibLocks -> {"none", "half", "whole", "rest", "torn"}]
  BY DEF Open, Residue, LInv, LTypes
<1>2. job' = [p \in Plans |-> NoJob] /\ lease' = [r \in Borrowers |-> NoLock]
  BY DEF Open
<1> QED BY <1>1, <1>2, JobSteps DEF LInv, LTypes, OneBuilder, HalfIsOwned, LentIsThere

LEMMA LibsStep ==
    ASSUME LInv, [LibsNext]_libsVars
    PROVE  LInv' /\ (LentUntouched \/ \A r \in Borrowers : lease'[r] = NoLock)
<1>1. CASE UNCHANGED libsVars
  BY <1>1 DEF libsVars, LInv, LTypes, OneBuilder, HalfIsOwned, LentIsThere, LentUntouched
<1>2. CASE LibsNext
  <2>1. ASSUME NEW r \in Borrowers, Release(r) PROVE LInv' /\ LentUntouched
    <3>1. CASE LibLocks # {}
      BY <2>1, <3>1, LeaseKeeps
    <3>2. CASE LibLocks = {}
      BY <2>1, <3>2 DEF Release, LInv, LTypes, OneBuilder, HalfIsOwned, LentIsThere,
           LentUntouched
    <3> QED BY <3>1, <3>2
  <2> QED BY <1>2, <2>1, PrepareKeeps, EnsureKeeps, PruneKeeps, ResetKeeps, LeaseKeeps, OpenKeeps
       DEF LibsNext
<1> QED BY <1>1, <1>2

(* The invariant on which the promise to the runs rests.                   *)
THEOREM LibsInvariant == LibsSpec => []LInv
<1>1. LibsInit => LInv
  BY LibsInvInit
<1>2. LInv /\ [LibsNext]_libsVars => LInv'
  BY LibsStep
<1> QED BY <1>1, <1>2, PTL DEF LibsSpec

(* Acquire and release: what a run has borrowed is there and nobody touches *)
(* it, whatever is prepared, pruned, reset or fails meanwhile.             *)
THEOREM LentStays == LibsSpec => BorrowedStays
<1>1. LInv /\ [LibsNext]_libsVars =>
        [\A r \in Borrowers : lease'[r] # NoLock =>
            /\ onDisk'[lease'[r]] \in {"whole", "rest"}
            /\ lease[r] = lease'[r] => onDisk'[lease'[r]] = onDisk[lease'[r]]]_libsVars
  BY LibsStep DEF LInv, LentIsThere, LentUntouched
<1> QED BY <1>1, LibsInvariant, PTL DEF LibsSpec, BorrowedStays

-----------------------------------------------------------------------------
(* StoragePins: nobody brings an older list of pins back, for any lists,   *)
(* ages and number of faults.                                              *)

Keys == {"", "lost", "key"}
States == [key : Keys, seq : Nat, issued : Nat, pins : SUBSET PinNames, approved : SUBSET PinNames]
AnyList == Lists \cup {NoList}
Passes == [at : {"idle", "list", "packages", "publish", "fail"}, list : AnyList,
           good : SUBSET PinNames]

STypes ==
    /\ hour \in Nat /\ topSeq \in Nat
    /\ journal \in [loaded : BOOLEAN, start : Nat, state : States] /\ journal.start <= hour
    /\ stateFile \in States
    /\ pass \in Passes
    /\ sink \in [at : {"idle", "package", "again"}, pin : PinNames \cup {"none"}, of : States]

(* The newest list that was published was issued by time t, the skew aside. *)
TopBefore(t) == topSeq = 0 \/ \E l \in Lists : l.seq = topSeq /\ l.issued <= t + Skew
(* A state with a sequence is of the newest list, or of a later one that    *)
(* Publish gave up on; without a sequence it approves nothing.              *)
Newest(s) == IF s.seq = 0 THEN s.approved = {} ELSE s.seq >= topSeq
(* The sequence is known, or the quarantine began after the newest list.    *)
Quarantined == /\ journal.state.seq = 0 => TopBefore(journal.start)
               /\ journal.loaded = FALSE => journal.state.seq = 0
(* A pass is on its way with a journal that was read.                       *)
InStep == pass.at # "idle" => journal.loaded = TRUE
Handing == handedOver.seq >= handedOver.top /\ handedOver.age <= MaxAge

StorageInv ==
    /\ STypes /\ TopBefore(hour) /\ Newest(journal.state) /\ Newest(stateFile)
    /\ Quarantined /\ InStep /\ Handing

LEMMA EmptyState ==
    ASSUME NEW key \in Keys
    PROVE  EmptyFor(key) \in States /\ EmptyFor(key).seq = 0 /\ EmptyFor(key).approved = {}
  BY DEF EmptyFor, States

LEMMA Ages == MaxAge \in Nat /\ Skew \in Nat
  BY StorageAssumption

LEMMA StorageInvInit == StorageInit => StorageInv
<1> SUFFICES ASSUME StorageInit PROVE StorageInv
  OBVIOUS
<1>0. "" \in Keys /\ "lost" \in Keys
  BY DEF Keys
<1>1. /\ journal = [loaded |-> FALSE, start |-> 0, state |-> EmptyFor("")]
      /\ stateFile = EmptyFor("lost") /\ topSeq = 0 /\ hour = 0
      /\ sink = [at |-> "idle", pin |-> "none", of |-> EmptyFor("lost")]
      /\ pass = [at |-> "idle", list |-> NoList, good |-> {}]
      /\ handedOver = [seq |-> 0, top |-> 0, age |-> 0]
  BY DEF StorageInit, SinkIdle, PassIdle
<1>2. /\ EmptyFor("") \in States /\ EmptyFor("").seq = 0 /\ EmptyFor("").approved = {}
      /\ EmptyFor("lost") \in States /\ EmptyFor("lost").seq = 0 /\ EmptyFor("lost").approved = {}
  BY <1>0, EmptyState
<1>3. STypes
  <2>1. journal \in [loaded : BOOLEAN, start : Nat, state : States] /\ journal.start <= hour
    <3>1. \A b \in BOOLEAN, e \in States :
             [loaded |-> b, start |-> 0, state |-> e] \in [loaded : BOOLEAN, start : Nat, state : States]
      OBVIOUS
    <3>2. journal.start = 0
      BY <1>1
    <3> DEFINE e == EmptyFor("")
    <3>3. PICK b \in BOOLEAN : journal = [loaded |-> b, start |-> 0, state |-> e]
      BY <1>1, Zenon
    <3>4. e \in States
      BY <1>2
    <3> HIDE DEF e
    <3>5. journal \in [loaded : BOOLEAN, start : Nat, state : States]
      BY <3>1, <3>3, <3>4
    <3>6. hour = 0
      BY <1>1
    <3> QED BY <3>2, <3>5, <3>6
  <2>2. pass \in Passes
    BY <1>1 DEF Passes, AnyList
  <2>3. sink \in [at : {"idle", "package", "again"}, pin : PinNames \cup {"none"}, of : States]
    BY <1>1, <1>2
  <2> QED BY <1>1, <1>2, <2>1, <2>2, <2>3 DEF STypes
<1>4. TopBefore(hour) /\ Quarantined
  BY <1>1, <1>2 DEF TopBefore, Quarantined
<1>5. Newest(journal.state) /\ Newest(stateFile)
  BY <1>1, <1>2 DEF Newest
<1>6. InStep /\ Handing
  <2>1. pass.at = "idle"
    BY <1>1
  <2>2. handedOver.seq = 0 /\ handedOver.top = 0 /\ handedOver.age = 0
    BY <1>1
  <2> QED BY <2>1, <2>2, Ages DEF InStep, Handing
<1> QED BY <1>3, <1>4, <1>5, <1>6 DEF StorageInv

(* A step of the fetcher that leaves the newest list what it is.            *)
LEMMA FetcherStep ==
    ASSUME StorageInv, UNCHANGED topSeq, FetcherRest,
           NEW s \in States, NEW f \in States, NEW start \in Nat, NEW read \in BOOLEAN,
           journal' = [loaded |-> read, start |-> start, state |-> s], stateFile' = f,
           start <= hour, Newest(s), Newest(f),
           s.seq = 0 => TopBefore(start), read = FALSE => s.seq = 0,
           pass' \in Passes,
           pass'.at # "idle" => read = TRUE
    PROVE  StorageInv'
<1>1. journal'.start = start /\ journal'.state = s /\ journal'.loaded = read
  OBVIOUS
<1>2. STypes'
  BY DEF StorageInv, STypes, FetcherRest, sinkVars
<1>3. TopBefore(hour)' /\ Quarantined'
  BY <1>1 DEF StorageInv, TopBefore, Quarantined, FetcherRest
<1>4. Newest(journal.state)' /\ Newest(stateFile)'
  BY <1>1 DEF Newest
<1>5. InStep' /\ Handing'
  BY <1>1 DEF StorageInv, InStep, Handing, FetcherRest, sinkVars
<1> QED BY <1>2, <1>3, <1>4, <1>5 DEF StorageInv

(* SetKey: the file, what the journal holds, or a new quarantine.           *)
LEMMA KeyedState ==
    ASSUME StorageInv, NEW key \in Keys
    PROVE  LET k == Keyed(key) IN
           /\ k = [loaded |-> TRUE, start |-> k.start, state |-> k.state]
           /\ k.start \in Nat /\ k.start <= hour /\ k.state \in States
           /\ Newest(k.state) /\ (k.state.seq = 0 => TopBefore(k.start))
<1> DEFINE s == IF journal.loaded THEN journal.state
                ELSE IF Usable THEN stateFile ELSE EmptyFor(key)
<1>1. s \in States /\ Newest(s)
  <2>1. CASE Usable \/ journal.loaded
    BY <2>1 DEF StorageInv, STypes
  <2>2. CASE ~ Usable /\ ~ journal.loaded
    BY <2>2, EmptyState DEF Newest
  <2> QED BY <2>1, <2>2
<1>2. CASE s.key # key
  <2>1. Keyed(key) = [loaded |-> TRUE, start |-> hour, state |-> EmptyFor(key)]
    BY <1>2 DEF Keyed
  <2> QED BY <2>1, EmptyState DEF StorageInv, STypes, Newest
<1>3. CASE s.key = key
  <2>1. Keyed(key) = [loaded |-> TRUE, start |-> journal.start, state |-> s]
    <3>1. Keyed(key) = [journal EXCEPT !.loaded = TRUE, !.state = s]
      BY <1>3 DEF Keyed
    <3> HIDE DEF s
    <3> QED BY <3>1 DEF StorageInv, STypes
  <2>2. s.seq = 0 => TopBefore(journal.start)
    <3>1. CASE journal.loaded
      BY <3>1 DEF StorageInv, Quarantined
    <3>2. CASE ~ journal.loaded
      BY <3>2 DEF StorageInv, Quarantined, STypes
    <3> QED BY <3>1, <3>2
  <2> HIDE DEF s
  <2> QED BY <1>1, <2>1, <2>2 DEF StorageInv, STypes
<1> HIDE DEF s
<1> QED BY <1>2, <1>3

(* No list older than the newest passes: a state with a sequence refuses    *)
(* it, and when the quarantine is over it is too old.                       *)
LEMMA CheckedIsNewest ==
    ASSUME StorageInv, NEW l \in AnyList, Check(l)
    PROVE  /\ l \in Lists /\ l.seq \in Nat \ {0} /\ l.issued \in Nat /\ l.pins \in SUBSET PinNames
           /\ l.issued <= hour + Skew /\ l.seq >= topSeq
<1>1. /\ l \in Lists /\ l.seq \in Nat \ {0} /\ l.issued \in Nat /\ l.pins \in SUBSET PinNames
  BY StorageAssumption DEF Check, AnyList
<1>2. l.issued <= hour + Skew /\ hour - l.issued <= MaxAge
  BY DEF Check
<1>3. CASE journal.state.seq # 0
  <2>1. journal.state.seq \in Nat /\ topSeq \in Nat
    BY DEF StorageInv, STypes, States
  <2>2. l.seq >= journal.state.seq /\ journal.state.seq >= topSeq
    BY <1>3 DEF Check, StorageInv, Newest
  <2> QED BY <1>1, <1>2, <2>1, <2>2
<1>4. CASE journal.state.seq = 0
  <2>1. hour > journal.start + MaxAge + Skew
    BY <1>4 DEF Check
  <2>2. topSeq = 0 \/ \E m \in Lists : m.seq = topSeq /\ m.issued <= journal.start + Skew
    BY <1>4 DEF StorageInv, Quarantined, TopBefore
  <2>3. hour \in Nat /\ journal.start \in Nat /\ topSeq \in Nat
    BY DEF StorageInv, STypes
  <2>4. ASSUME NEW m \in Lists, m.seq = topSeq, m.issued <= journal.start + Skew, l.seq < topSeq
        PROVE  FALSE
    <3>1. l.issued <= m.issued /\ m.issued \in Nat
      BY <1>1, <2>4, StorageAssumption
    <3> QED BY <1>1, <1>2, <2>1, <2>3, <2>4, <3>1, Ages
  <2> QED BY <1>1, <1>2, <2>2, <2>3, <2>4
<1> QED BY <1>3, <1>4

LEMMA IdlePass == PassIdle \in Passes /\ PassIdle.at = "idle"
                  /\ [PassIdle EXCEPT !.at = "list"] \in Passes
  BY DEF PassIdle, Passes, AnyList

(* A write that works, or that fails before or after its rename.            *)
LEMMA WriteStep ==
    ASSUME StorageInv, UNCHANGED topSeq, FetcherRest,
           NEW s \in States, NEW start \in Nat, NEW old \in States, NEW ok \in Passes,
           NEW broken \in Passes, NEW read \in BOOLEAN,
           Write(s, [loaded |-> read, start |-> start, state |-> old], ok, broken),
           start <= hour, Newest(s), Newest(old),
           s.seq = 0 => TopBefore(start), old.seq = 0 => TopBefore(start),
           read = FALSE => s.seq = 0 /\ old.seq = 0,
           ok.at # "idle" => read = TRUE,
           broken.at # "idle" => read = TRUE
    PROVE  StorageInv'
<1> DEFINE j == [loaded |-> read, start |-> start, state |-> old]
<1>1. CASE stateFile' = s /\ journal' = [j EXCEPT !.state = s] /\ pass' = ok
  <2>1. journal' = [loaded |-> read, start |-> start, state |-> s]
    BY <1>1
  <2>2. pass' \in Passes /\ stateFile' = s /\ (pass'.at # "idle" => read = TRUE)
    BY <1>1
  <2> HIDE DEF j
  <2> QED BY <2>1, <2>2, FetcherStep
<1>2. CASE stateFile' \in {s, stateFile} /\ journal' = j /\ pass' = broken
  <2>1. journal' = [loaded |-> read, start |-> start, state |-> old]
    BY <1>2
  <2>2. pass' \in Passes /\ (pass'.at # "idle" => read = TRUE)
    BY <1>2
  <2>3. stateFile' \in States /\ Newest(stateFile')
    BY <1>2 DEF StorageInv, STypes
  <2> HIDE DEF j
  <2> QED BY <2>1, <2>2, <2>3, FetcherStep
<1> QED BY <1>1, <1>2 DEF Write

LEMMA JournalParts ==
    ASSUME StorageInv
    PROVE  /\ journal = [loaded |-> journal.loaded, start |-> journal.start, state |-> journal.state]
           /\ journal.loaded \in BOOLEAN /\ journal.start \in Nat /\ journal.state \in States
           /\ journal.start <= hour /\ Newest(journal.state)
           /\ journal.state.seq = 0 => TopBefore(journal.start)
           /\ journal.loaded = FALSE => journal.state.seq = 0
  BY DEF StorageInv, STypes, Quarantined

LEMMA FailedState ==
    ASSUME StorageInv
    PROVE  Failed \in States /\ Failed.seq = journal.state.seq /\ Newest(Failed)
<1>1. Failed \in States /\ Failed.seq = journal.state.seq /\ Failed.approved = {}
  BY JournalParts DEF Failed, States
<1> QED BY <1>1 DEF StorageInv, Newest

LEMMA KeySteps ==
    ASSUME StorageInv, SetKey \/ KeyMissing
    PROVE  StorageInv'
<1>1. CASE SetKey
  <2> DEFINE k == Keyed("key")
  <2>0. "key" \in Keys
    BY DEF Keys
  <2>1. /\ k = [loaded |-> TRUE, start |-> k.start, state |-> k.state]
        /\ k.start \in Nat /\ k.start <= hour /\ k.state \in States
        /\ Newest(k.state) /\ (k.state.seq = 0 => TopBefore(k.start))
    BY <2>0, KeyedState
  <2>2. /\ Write(k.state, k, [PassIdle EXCEPT !.at = "list"], PassIdle)
        /\ UNCHANGED topSeq /\ FetcherRest
    BY <1>1 DEF SetKey
  <2> HIDE DEF k
  <2>3. Write(k.state, [loaded |-> TRUE, start |-> k.start, state |-> k.state],
              [PassIdle EXCEPT !.at = "list"], PassIdle)
    BY <2>1, <2>2
  <2> QED BY <2>1, <2>2, <2>3, WriteStep, IdlePass
<1>2. CASE KeyMissing
  <2> DEFINE k == Keyed("")
  <2>0. "" \in Keys
    BY DEF Keys
  <2>1. /\ k = [loaded |-> TRUE, start |-> k.start, state |-> k.state]
        /\ k.start \in Nat /\ k.start <= hour /\ k.state \in States
        /\ Newest(k.state) /\ (k.state.seq = 0 => TopBefore(k.start))
    BY <2>0, KeyedState
  <2>2. /\ pass.at = "idle" /\ journal' = k /\ stateFile' \in {stateFile, k.state}
        /\ UNCHANGED <<pass, topSeq>> /\ FetcherRest
    BY <1>2 DEF KeyMissing
  <2> HIDE DEF k
  <2>3. journal' = [loaded |-> TRUE, start |-> k.start, state |-> k.state]
    BY <2>1, <2>2
  <2>4. stateFile' \in States /\ Newest(stateFile')
    BY <2>1, <2>2 DEF StorageInv, STypes
  <2>5. pass' \in Passes /\ pass'.at = "idle"
    BY <2>2 DEF StorageInv, STypes
  <2> QED BY <2>1, <2>2, <2>3, <2>4, <2>5, FetcherStep
<1> QED BY <1>1, <1>2

LEMMA FailSteps ==
    ASSUME StorageInv, Write(Failed, journal, PassIdle, PassIdle),
           UNCHANGED topSeq, FetcherRest
    PROVE  StorageInv'
<1> DEFINE j == [loaded |-> journal.loaded, start |-> journal.start, state |-> journal.state]
<1>1. journal = j
  BY JournalParts
<1>2. Write(Failed, j, PassIdle, PassIdle)
  BY <1>1
<1> QED BY <1>2, WriteStep, IdlePass, JournalParts, FailedState

LEMMA PassSteps ==
    ASSUME StorageInv, ReadList \/ ReadPackages
    PROVE  StorageInv'
<1>1. CASE ReadList
  <2>1. CASE Write(Failed, journal, PassIdle, PassIdle)
    BY <1>1, <2>1, FailSteps DEF ReadList
  <2>2. ASSUME NEW l \in Inbox, pass' = [pass EXCEPT !.at = "packages", !.list = l],
               UNCHANGED <<journal, stateFile>>
        PROVE  StorageInv'
    <3>1. pass' \in Passes /\ pass.at = "list"
      BY <1>1, <2>2 DEF ReadList, StorageInv, STypes, Passes, AnyList, Inbox
    <3>2. journal.loaded = TRUE /\ stateFile' = stateFile /\ stateFile \in States /\ Newest(stateFile)
      BY <2>2, <3>1 DEF StorageInv, STypes, InStep
    <3>3. journal' = [loaded |-> journal.loaded, start |-> journal.start, state |-> journal.state]
      BY <2>2, JournalParts
    <3> QED BY <1>1, <3>1, <3>3, <3>2, JournalParts, FetcherStep DEF ReadList
  <2> QED BY <1>1, <2>1, <2>2 DEF ReadList
<1>2. CASE ReadPackages
  <2>1. pass' \in Passes /\ pass.at = "packages"
    <3>1. PICK good \in SUBSET pass.list.pins :
             pass.at = "packages" /\ pass' = [pass EXCEPT !.at = "publish", !.good = good]
      BY <1>2 DEF ReadPackages
    <3>2. pass.list \in AnyList
      BY DEF StorageInv, STypes, Passes
    <3>3. \A l \in AnyList : l.pins \subseteq PinNames
      <4>1. NoList.pins = {}
        BY DEF NoList
      <4>2. \A l \in Lists : l.pins \in SUBSET PinNames
        BY StorageAssumption
      <4> QED BY <4>1, <4>2 DEF AnyList
    <3>4. good \in SUBSET PinNames
      BY <3>2, <3>3
    <3> QED BY <3>1, <3>4 DEF StorageInv, STypes, Passes
  <2>2. journal.loaded = TRUE /\ stateFile' = stateFile /\ stateFile \in States /\ Newest(stateFile)
    BY <1>2, <2>1 DEF StorageInv, STypes, InStep, ReadPackages
  <2>3. journal' = [loaded |-> journal.loaded, start |-> journal.start, state |-> journal.state]
    BY <1>2, JournalParts DEF ReadPackages
  <2> QED BY <1>2, <2>1, <2>2, <2>3, JournalParts, FetcherStep DEF ReadPackages
<1> QED BY <1>1, <1>2

LEMMA DiesStep ==
    ASSUME StorageInv, StoreDies
    PROVE  StorageInv'
<1>0. "" \in Keys /\ "lost" \in Keys
  BY DEF Keys
<1>1. /\ EmptyFor("") \in States /\ EmptyFor("").seq = 0 /\ EmptyFor("").approved = {}
      /\ EmptyFor("lost") \in States /\ EmptyFor("lost").seq = 0 /\ EmptyFor("lost").approved = {}
  BY <1>0, EmptyState
<1>2. journal' = [loaded |-> FALSE, start |-> hour, state |-> EmptyFor("")]
  BY DEF StoreDies
<1>3. stateFile' \in States /\ Newest(stateFile')
  BY <1>1 DEF StoreDies, StorageInv, STypes, Newest
<1>4. pass' \in Passes /\ pass'.at = "idle"
  BY IdlePass DEF StoreDies
<1>5. hour \in Nat /\ TopBefore(hour) /\ Newest(EmptyFor(""))
  BY <1>1 DEF StorageInv, STypes, Newest
<1>6. UNCHANGED topSeq /\ FetcherRest
  BY DEF StoreDies
<1> DEFINE e == EmptyFor("")
<1>7. e \in States /\ e.seq = 0 /\ Newest(e) /\ journal' = [loaded |-> FALSE, start |-> hour, state |-> e]
  BY <1>1, <1>2, <1>5
<1>8. PICK b \in BOOLEAN : b = FALSE /\ journal' = [loaded |-> b, start |-> hour, state |-> e]
  BY <1>7, Zenon
<1> HIDE DEF e
<1>9. b = FALSE => e.seq = 0
  BY <1>7
<1>10. pass'.at # "idle" => b = TRUE
  BY <1>4
<1>11. journal' = [loaded |-> b, start |-> hour, state |-> e]
  BY <1>8
<1>12. hour <= hour
  BY DEF StorageInv, STypes
<1>13. e.seq = 0 => TopBefore(hour)
  BY <1>5, Zenon
<1> QED BY <1>3, <1>4, <1>5, <1>6, <1>7, <1>9, <1>10, <1>11, <1>12, <1>13, FetcherStep

(* The list that is published is the newest there was.                      *)
LEMMA PublishStep ==
    ASSUME StorageInv, PublishList
    PROVE  StorageInv'
<1> DEFINE l == pass.list
           s == [key |-> "key", seq |-> l.seq, issued |-> l.issued, pins |-> l.pins,
                 approved |-> pass.good]
<1>1. /\ pass \in Passes /\ pass.at = "publish" /\ FetcherRest
      /\ journal.loaded = TRUE /\ stateFile \in States /\ Newest(stateFile)
  BY DEF PublishList, StorageInv, STypes, InStep
<1>2. l \in AnyList /\ pass.good \in SUBSET PinNames
      /\ [pass EXCEPT !.at = "fail"] \in Passes
  BY <1>1 DEF Passes
<1>3. CASE ~ Check(l)
  <2>1. /\ pass' = [pass EXCEPT !.at = "fail"] /\ UNCHANGED <<journal, stateFile, topSeq>>
    BY <1>3 DEF PublishList
  <2>2. pass' \in Passes
    BY <1>2, <2>1
  <2>3. /\ journal' = [loaded |-> journal.loaded, start |-> journal.start, state |-> journal.state]
        /\ stateFile' = stateFile
    BY <2>1, JournalParts
  <2> QED BY <1>1, <2>1, <2>2, <2>3, JournalParts, FetcherStep
<1>4. CASE Check(l)
  <2>1. /\ l \in Lists /\ l.seq \in Nat \ {0} /\ l.issued \in Nat /\ l.pins \in SUBSET PinNames
        /\ l.issued <= hour + Skew /\ l.seq >= topSeq
    BY <1>2, <1>4, CheckedIsNewest
  <2>2. /\ Write(s, journal, PassIdle, [pass EXCEPT !.at = "fail"])
        /\ topSeq' = IF pass' = PassIdle /\ l.seq > topSeq THEN l.seq ELSE topSeq
    BY <1>4 DEF PublishList
  <2>3. s \in States /\ s.seq = l.seq
    BY <1>2, <2>1 DEF States, Keys
  <2> HIDE DEF s
  <2>4. CASE stateFile' = s /\ journal' = [journal EXCEPT !.state = s] /\ pass' = PassIdle
    <3>1. topSeq' = l.seq
      BY <2>1, <2>2, <2>4 DEF StorageInv, STypes
    <3>2. journal' = [loaded |-> journal.loaded, start |-> journal.start, state |-> s]
      BY <2>4, JournalParts
    <3>3. journal'.loaded = journal.loaded /\ journal'.start = journal.start /\ journal'.state = s
      BY <3>2
    <3>5. STypes'
      BY <1>1, <2>1, <2>3, <2>4, <3>1, <3>2, <3>3, IdlePass, JournalParts
         DEF StorageInv, STypes, FetcherRest, sinkVars
    <3>6. TopBefore(hour)' /\ Newest(journal.state)' /\ Newest(stateFile)' /\ InStep'
      BY <1>1, <2>1, <2>3, <2>4, <3>1, <3>3 DEF TopBefore, Newest, InStep, FetcherRest
    <3>7. Quarantined'
      BY <1>1, <2>1, <2>3, <3>3 DEF Quarantined
    <3>8. Handing'
      BY <1>1 DEF StorageInv, Handing, FetcherRest, sinkVars
    <3> QED BY <3>5, <3>6, <3>7, <3>8 DEF StorageInv
  <2>5. CASE /\ stateFile' \in {s, stateFile} /\ journal' = journal
             /\ pass' = [pass EXCEPT !.at = "fail"]
    <3>1. pass'.at = "fail" /\ pass' \in Passes
      BY <1>1, <1>2, <2>5 DEF Passes
    <3>2. topSeq' = topSeq
      BY <2>2, <3>1, IdlePass
    <3>3. journal' = [loaded |-> journal.loaded, start |-> journal.start, state |-> journal.state]
      BY <2>5, JournalParts
    <3>4. Newest(s)
      BY <2>1, <2>3 DEF Newest
    <3>5. stateFile' \in States /\ Newest(stateFile')
      BY <1>1, <2>3, <2>5, <3>4
    <3> QED BY <1>1, <3>1, <3>2, <3>3, <3>5, JournalParts, FetcherStep
  <2> QED BY <2>2, <2>4, <2>5 DEF Write
<1> QED BY <1>3, <1>4

(* The mediator only reads; what it hands over was read in the same step.   *)
LEMMA MediatorSteps ==
    ASSUME StorageInv, (\E p \in PinNames : BeginSink(p)) \/ ReadPackage \/ HandOver
    PROVE  StorageInv'
<1>1. UNCHANGED <<hour, journal, stateFile, pass, topSeq>>
  BY DEF BeginSink, ReadPackage, HandOver, MediatorRest, storeVars
<1>2. sink' \in [at : {"idle", "package", "again"}, pin : PinNames \cup {"none"}, of : States]
  <2>1. SinkIdle \in [at : {"idle", "package", "again"}, pin : PinNames \cup {"none"}, of : States]
    <3>1. "lost" \in Keys
      BY DEF Keys
    <3>2. EmptyFor("lost") \in States
      BY <3>1, EmptyState
    <3> QED BY <3>2 DEF SinkIdle
  <2>2. ASSUME NEW p \in PinNames, BeginSink(p)
        PROVE  sink' \in [at : {"idle", "package", "again"}, pin : PinNames \cup {"none"}, of : States]
    BY <2>2 DEF BeginSink, StorageInv, STypes
  <2>3. CASE ReadPackage
    BY <2>1, <2>3 DEF ReadPackage, StorageInv, STypes
  <2>4. CASE HandOver
    BY <2>1, <2>4 DEF HandOver
  <2> QED BY <2>2, <2>3, <2>4
<1>3. handedOver' = handedOver \/ (Approves(sink.pin) /\ handedOver' = Handed(stateFile))
  BY DEF BeginSink, ReadPackage, HandOver
<1>4. Handing'
  <2>1. CASE Approves(sink.pin) /\ handedOver' = Handed(stateFile)
    <3>1. stateFile.seq >= topSeq /\ hour - stateFile.issued <= MaxAge
      BY <2>1 DEF Approves, Readable, StorageInv, STypes, States, Newest
    <3> QED BY <2>1, <3>1 DEF Handed, Handing
  <2> QED BY <1>3, <2>1 DEF StorageInv, Handing
<1> QED BY <1>1, <1>2, <1>4 DEF StorageInv, STypes, TopBefore, Newest, Quarantined, InStep

LEMMA HourStep == ASSUME StorageInv, HourPasses PROVE StorageInv'
<1>1. hour' = hour + 1 /\ UNCHANGED <<journal, stateFile, pass, topSeq, sink, handedOver>>
  BY DEF HourPasses, storeVars, sinkVars
<1>2. STypes'
  BY <1>1 DEF StorageInv, STypes
<1>3. TopBefore(hour)'
  <2>1. \A l \in Lists : l.issued \in Nat
    BY StorageAssumption
  <2> QED BY <1>1, <2>1, Ages DEF StorageInv, STypes, TopBefore
<1> QED BY <1>1, <1>2, <1>3 DEF StorageInv, TopBefore, Newest, Quarantined, InStep, Handing

LEMMA StorageStep ==
    ASSUME StorageInv, [StorageNext]_storageVars PROVE StorageInv'
<1>1. CASE UNCHANGED storageVars
  BY <1>1 DEF storageVars, storeVars, sinkVars, StorageInv, STypes, TopBefore, Newest,
     Quarantined, InStep, Handing
<1>2. CASE Fail
  BY <1>2, FailSteps DEF Fail
<1> QED BY <1>1, <1>2, HourStep, KeySteps, PassSteps, PublishStep, DiesStep, MediatorSteps
     DEF StorageNext

(* The invariant that carries the argument of the quarantine.               *)
THEOREM StorageInvariant == StorageSpec => []StorageInv
<1>1. StorageInit => StorageInv
  BY StorageInvInit
<1>2. StorageInv /\ [StorageNext]_storageVars => StorageInv'
  BY StorageStep
<1> QED BY <1>1, <1>2, PTL DEF StorageSpec

(* Approvals are of no list older than the newest that Publish accepted, and *)
(* so is what is handed over, which had not expired.                         *)
THEOREM NothingIsReplayed == StorageSpec => []NoReplay
<1>1. StorageInv => NoReplay
  BY DEF StorageInv, Newest, Handing, NoReplay
<1>2. StorageSpec => []StorageInv
  BY StorageInvariant
<1> QED BY <1>1, <1>2, PTL

-----------------------------------------------------------------------------
(* Pins: what a run is given was proved, for any repositories, commits and *)
(* keys, and any order of the poll, the fetcher and the panel.             *)

AnyUrl == Urls \cup {NoUrl}
Polls == [at : {"read", "url", "want", "begin", "judge", "verify"}, wish : Wishes,
          todo : SUBSET DeployKeys, key : DeployKeys \cup {"none"}]
Fetches == [at : {"idle", "url", "init", "head", "check"}, todo : SUBSET Commits,
            url : AnyUrl, head : SUBSET Commits]
Readings == [DeployKeys -> Verdicts]

PinTypes ==
    /\ wish \in Wishes /\ onMain \in [Urls -> SUBSET Commits] /\ proved \subseteq Urls \X Commits
    /\ polled \in Polls /\ cache \in Readings /\ verdict \in Readings /\ cacheUrl \in AnyUrl
    /\ listed \in [url : AnyUrl, of : Readings] /\ wanted \subseteq Commits /\ urlFile \in AnyUrl
    /\ fetching \in Fetches /\ approvals \in [Commits -> AnyUrl] /\ failed \subseteq Commits
    /\ storeUrl \in AnyUrl /\ objects \subseteq Commits /\ pinEvents \in 0 .. MaxPinEvents

(* A mark approved/<sha> names a repository whose default branch had it.    *)
MarksProved == \A c \in Commits : approvals[c] # NoUrl => <<approvals[c], c>> \in proved
(* A fetcher past repo_url and a loop past its start know the repository.   *)
UrlsKnown == /\ fetching.at \in {"init", "head", "check"} => fetching.url \in Urls
             /\ polled.at \in {"judge", "verify"} => cacheUrl \in Urls
(* What the loop has found ready so far, and what it is about to walk.      *)
JudgedProved == /\ \A k \in DeployKeys : verdict[k] = "ready" => <<cacheUrl, k[2]>> \in proved
                /\ polled.at = "verify" => polled.key \in DeployKeys
                                           /\ <<cacheUrl, polled.key[2]>> \in proved

PinInv == PinTypes /\ MarksProved /\ UrlsKnown /\ JudgedProved /\ OnlyProvedRuns

LEMMA WishParts ==
    ASSUME NEW w \in Wishes
    PROVE  /\ w.url \in Urls /\ w.pins \subseteq Commits /\ w.deskUrl \in Urls /\ w.desk \subseteq Commits
           /\ DeskPins(w) \subseteq Commits /\ WantedOf(w) \subseteq Commits
  BY PinsAssumption DEF DeskPins, WantedOf

LEMMA NoReadIsReading == NoRead \in Readings /\ \A k \in DeployKeys : NoRead[k] # "ready"
  BY DEF NoRead, Readings, Verdicts

LEMMA PollIdleIsPoll == PinTypes => PollIdle \in Polls /\ PollIdle.at = "read"
<1> SUFFICES ASSUME PinTypes PROVE PollIdle \in Polls /\ PollIdle.at = "read"
  OBVIOUS
<1>1. (CHOOSE w \in Wishes : TRUE) \in Wishes
  BY DEF PinTypes
<1> QED BY <1>1 DEF PollIdle, Polls

(* A verdict of the marks counts for the repository that was proved.        *)
LEMMA ReadyIsProved ==
    ASSUME PinTypes, MarksProved, NEW c \in Commits, NEW u \in Urls, FetchVerdict(c, u) = "ready"
    PROVE  <<u, c>> \in proved
  BY PinsAssumption DEF FetchVerdict, MarksProved

LEMMA PinInvInit == PinsInit => PinInv
<1> SUFFICES ASSUME PinsInit PROVE PinInv
  OBVIOUS
<1>1. (CHOOSE w \in Wishes : TRUE) \in Wishes
  BY DEF PinsInit
<1>2. polled \in Polls /\ polled.at = "read"
  BY <1>1 DEF PinsInit, PollIdle, Polls
<1>3. fetching \in Fetches /\ fetching.at = "idle"
  BY DEF PinsInit, FetchIdle, Fetches, AnyUrl
<1>4. onMain \in [Urls -> SUBSET Commits]
  BY DEF PinsInit
<1>5. PinTypes
  BY <1>2, <1>3, <1>4, NoReadIsReading, PinsAssumption DEF PinsInit, PinTypes, AnyUrl
<1>6. MarksProved /\ UrlsKnown /\ JudgedProved
  BY <1>2, <1>3, NoReadIsReading DEF PinsInit, MarksProved, UrlsKnown, JudgedProved
<1>7. OnlyProvedRuns
  BY NoReadIsReading DEF PinsInit, OnlyProvedRuns
<1> QED BY <1>5, <1>6, <1>7 DEF PinInv

(* A step of the poll loop that proves nothing and leaves the fetcher alone.*)
LEMMA PollStep ==
    ASSUME PinInv, PollRest, polled' \in Polls, cache' \in Readings, verdict' \in Readings,
           cacheUrl' \in AnyUrl, listed' \in [url : AnyUrl, of : Readings],
           wanted' \subseteq Commits, urlFile' \in AnyUrl, pinEvents' \in 0 .. MaxPinEvents,
           polled'.at \in {"judge", "verify"} => cacheUrl' \in Urls,
           \A k \in DeployKeys : verdict'[k] = "ready" => <<cacheUrl', k[2]>> \in proved,
           polled'.at = "verify" => polled'.key \in DeployKeys /\ <<cacheUrl', polled'.key[2]>> \in proved,
           \A k \in DeployKeys : listed'.of[k] = "ready" => <<listed'.url, k[2]>> \in proved
    PROVE  PinInv'
<1> USE DEF PollRest, fetchVars, handVars
<1>1. PinTypes'
  BY DEF PinInv, PinTypes
<1>2. MarksProved' /\ UrlsKnown' /\ JudgedProved'
  BY DEF PinInv, MarksProved, UrlsKnown, JudgedProved
<1>3. OnlyProvedRuns'
  BY DEF PinInv, OnlyProvedRuns
<1> QED BY <1>1, <1>2, <1>3 DEF PinInv

LEMMA EventBound == PinInv /\ (PinEvent \/ UNCHANGED pinEvents) => pinEvents' \in 0 .. MaxPinEvents
  BY PinsAssumption DEF PinInv, PinTypes, PinEvent

LEMMA JudgedKeeps ==
    ASSUME PinInv, NEW k \in DeployKeys, NEW v \in Verdicts, Judged(k, v), UNCHANGED cacheUrl,
           v = "ready" => <<cacheUrl, k[2]>> \in proved
    PROVE  /\ verdict' \in Readings /\ polled' \in Polls /\ polled'.at = "judge"
           /\ \A i \in DeployKeys : verdict'[i] = "ready" => <<cacheUrl', i[2]>> \in proved
<1>1. polled' = [polled EXCEPT !.at = "judge", !.todo = @ \ {k}, !.key = "none"]
  BY DEF Judged
<1>2. polled' \in Polls /\ polled'.at = "judge"
  BY <1>1 DEF PinInv, PinTypes, Polls
<1>3. verdict' = [verdict EXCEPT ![k] = v]
  BY DEF Judged
<1>4. verdict' \in Readings
  BY <1>3 DEF PinInv, PinTypes, Readings
<1>5. ASSUME NEW i \in DeployKeys, verdict'[i] = "ready" PROVE <<cacheUrl', i[2]>> \in proved
  BY <1>3, <1>5 DEF PinInv, PinTypes, Readings, JudgedProved
<1> QED BY <1>2, <1>4, <1>5

LEMMA PollKeeps == PinInv /\ Poll => PinInv'
<1> SUFFICES ASSUME PinInv, Poll PROVE PinInv'
  OBVIOUS
<1>0. /\ \A k \in DeployKeys : verdict[k] = "ready" => <<cacheUrl, k[2]>> \in proved
      /\ \A k \in DeployKeys : listed.of[k] = "ready" => <<listed.url, k[2]>> \in proved
  BY DEF PinInv, JudgedProved, OnlyProvedRuns
<1>T. /\ wish \in Wishes /\ polled \in Polls /\ cache \in Readings /\ verdict \in Readings /\ cacheUrl \in AnyUrl
      /\ listed \in [url : AnyUrl, of : Readings] /\ wanted \subseteq Commits /\ urlFile \in AnyUrl
  BY DEF PinInv, PinTypes
<1>W. polled.wish \in Wishes /\ polled.todo \subseteq DeployKeys
  BY <1>T DEF Polls
<1>P. PollIdle \in Polls /\ PollIdle.at = "read"
  BY PollIdleIsPoll DEF PinInv
<1>1. CASE ReadWish
  <2>1. polled' \in Polls /\ polled'.at = "url"
    BY <1>1, <1>P, <1>T DEF ReadWish, Polls
  <2>2. wanted' \subseteq Commits
    BY <1>1, <1>T DEF ReadWish
  <2>3. pinEvents' \in 0 .. MaxPinEvents
    BY <1>1, EventBound DEF ReadWish
  <2> QED BY <1>0, <1>1, <1>T, <2>1, <2>2, <2>3, PollStep DEF ReadWish
<1>2. CASE WriteUrl
  <2>1. polled' \in Polls /\ polled'.at \in {"want", "begin"}
    BY <1>2, <1>T DEF WriteUrl, GoTo, Polls
  <2>2. urlFile' \in AnyUrl
    BY <1>2, <1>T, <1>W, WishParts DEF WriteUrl, AnyUrl
  <2>3. pinEvents' \in 0 .. MaxPinEvents
    BY <1>2, EventBound DEF WriteUrl
  <2> QED BY <1>0, <1>2, <1>T, <2>1, <2>2, <2>3, PollStep DEF WriteUrl
<1>3. CASE WriteWanted
  <2>1. polled' \in Polls /\ polled'.at = "begin"
    BY <1>3, <1>T DEF WriteWanted, GoTo, Polls
  <2>2. wanted' \subseteq Commits
    BY <1>3, <1>T, <1>W, WishParts DEF WriteWanted
  <2>3. pinEvents' \in 0 .. MaxPinEvents
    BY <1>3, EventBound DEF WriteWanted
  <2> QED BY <1>0, <1>3, <1>T, <2>1, <2>2, <2>3, PollStep DEF WriteWanted
<1>4. CASE BeginJudging
  <2> DEFINE w == polled.wish
  <2>1. w.url \in Urls /\ w.pins \subseteq Commits /\ w.desk \subseteq Commits /\ DeskPins(w) \subseteq Commits
    BY <1>W, WishParts
  <2>2. polled' \in Polls /\ polled'.at = "judge"
    <3> DEFINE keys == ({"script"} \X (w.pins \ w.desk)) \cup ({"desk"} \X DeskPins(w))
    <3>1. keys \subseteq DeployKeys
      BY <2>1 DEF DeployKeys, Kinds
    <3>2. polled' = [polled EXCEPT !.at = "judge", !.todo = keys]
      BY <1>4 DEF BeginJudging
    <3> HIDE DEF keys
    <3> QED BY <3>1, <3>2, <1>T DEF Polls
  <2>3. cacheUrl' \in Urls /\ cacheUrl' \in AnyUrl
    BY <1>4, <2>1 DEF BeginJudging, AnyUrl
  <2>4. cache' \in Readings
    BY <1>4, <1>T, NoReadIsReading DEF BeginJudging
  <2>5. verdict' \in Readings /\ \A k \in DeployKeys : verdict'[k] # "ready"
    BY <1>4 DEF BeginJudging, Readings, Verdicts
  <2>6. pinEvents' \in 0 .. MaxPinEvents
    BY <1>4, EventBound DEF BeginJudging
  <2> QED BY <1>0, <1>4, <1>T, <2>2, <2>3, <2>4, <2>5, <2>6, PollStep DEF BeginJudging
<1>5. ASSUME NEW k \in DeployKeys, Evaluate(k) PROVE PinInv'
  <2> DEFINE f == FetchVerdict(k[2], cacheUrl)
  <2>1. cacheUrl \in Urls /\ k[2] \in Commits
    BY <1>5 DEF Evaluate, PinInv, UrlsKnown, DeployKeys
  <2>2. f = "ready" => <<cacheUrl, k[2]>> \in proved
    BY <2>1, ReadyIsProved DEF PinInv
  <2>3. f \in Verdicts /\ cache[k] \in Verdicts
    BY <1>T DEF FetchVerdict, Verdicts, Readings
  <2>4. pinEvents' \in 0 .. MaxPinEvents
    BY <1>5, EventBound DEF Evaluate
  <2> HIDE DEF f
  <2>5. CASE f # "ready" /\ Judged(k, f)
    <3>1. /\ verdict' \in Readings /\ polled' \in Polls /\ polled'.at = "judge"
          /\ \A i \in DeployKeys : verdict'[i] = "ready" => <<cacheUrl', i[2]>> \in proved
      BY <1>5, <2>3, <2>5, JudgedKeeps DEF Evaluate
    <3> QED BY <1>0, <1>5, <1>T, <2>1, <2>4, <3>1, PollStep DEF Evaluate
  <2>6. CASE f = "ready" /\ Judged(k, cache[k])
    <3>1. /\ verdict' \in Readings /\ polled' \in Polls /\ polled'.at = "judge"
          /\ \A i \in DeployKeys : verdict'[i] = "ready" => <<cacheUrl', i[2]>> \in proved
      BY <1>5, <2>2, <2>3, <2>6, JudgedKeeps DEF Evaluate
    <3> QED BY <1>0, <1>5, <1>T, <2>1, <2>4, <3>1, PollStep DEF Evaluate
  <2>7. CASE f = "ready" /\ polled' = [polled EXCEPT !.at = "verify", !.key = k] /\ UNCHANGED verdict
    <3>1. polled' \in Polls /\ polled'.key = k
      BY <2>7, <1>T DEF Polls
    <3> QED BY <1>0, <1>5, <1>T, <2>1, <2>2, <2>4, <2>7, <3>1, PollStep DEF Evaluate
  <2> QED BY <1>5, <2>5, <2>6, <2>7 DEF Evaluate, f
<1>6. CASE Verify
  <2> DEFINE k == polled.key
  <2>1. k \in DeployKeys /\ <<cacheUrl, k[2]>> \in proved /\ cacheUrl \in Urls
    BY <1>6 DEF Verify, PinInv, JudgedProved, UrlsKnown
  <2>2. pinEvents' \in 0 .. MaxPinEvents
    BY <1>6, EventBound DEF Verify
  <2>3. PICK v \in {"ready", "pending", "invalid"} :
            Judged(k, v) /\ cache' \in {cache, [cache EXCEPT ![k] = v]}
    BY <1>6 DEF Verify
  <2>4. v \in Verdicts /\ cache' \in Readings
    BY <2>3, <1>T DEF Readings, Verdicts
  <2> HIDE DEF k
  <2>5. /\ verdict' \in Readings /\ polled' \in Polls /\ polled'.at = "judge"
        /\ \A i \in DeployKeys : verdict'[i] = "ready" => <<cacheUrl', i[2]>> \in proved
    BY <1>6, <2>1, <2>3, <2>4, JudgedKeeps DEF Verify
  <2> QED BY <1>0, <1>6, <1>T, <2>1, <2>2, <2>4, <2>5, PollStep DEF Verify
<1>7. CASE PublishPins
  <2>1. listed' \in [url : AnyUrl, of : Readings]
    BY <1>7, <1>T DEF PublishPins
  <2>2. \A k \in DeployKeys : listed'.of[k] = "ready" => <<listed'.url, k[2]>> \in proved
    BY <1>0, <1>7 DEF PublishPins
  <2>3. pinEvents' \in 0 .. MaxPinEvents
    BY <1>7, EventBound DEF PublishPins
  <2> QED BY <1>7, <1>T, <1>P, <2>1, <2>2, <2>3, NoReadIsReading, PollStep DEF PublishPins
<1> QED BY <1>1, <1>2, <1>3, <1>4, <1>5, <1>6, <1>7 DEF Poll

(* A step of the fetcher: what was proved stays proved.                     *)
LEMMA FetchStep ==
    ASSUME PinInv, FetchRest, fetching' \in Fetches, approvals' \in [Commits -> AnyUrl],
           failed' \subseteq Commits, storeUrl' \in AnyUrl, objects' \subseteq Commits,
           pinEvents' \in 0 .. MaxPinEvents, proved \subseteq proved', proved' \subseteq Urls \X Commits,
           fetching'.at \in {"init", "head", "check"} => fetching'.url \in Urls,
           \A c \in Commits : approvals'[c] # NoUrl => <<approvals'[c], c>> \in proved'
    PROVE  PinInv'
<1> USE DEF FetchRest, pollVars, handVars
<1>1. PinTypes'
  BY DEF PinInv, PinTypes
<1>2. MarksProved' /\ UrlsKnown' /\ JudgedProved'
  BY DEF PinInv, MarksProved, UrlsKnown, JudgedProved
<1>3. OnlyProvedRuns'
  BY DEF PinInv, OnlyProvedRuns
<1> QED BY <1>1, <1>2, <1>3 DEF PinInv

LEMMA FetchIdleIsFetch == FetchIdle \in Fetches /\ FetchIdle.at = "idle"
  BY DEF FetchIdle, Fetches, AnyUrl

LEMMA FailUnverifiedKeeps ==
    ASSUME PinInv, NEW cs \in SUBSET Commits, FailUnverified(cs)
    PROVE  /\ approvals' \in [Commits -> AnyUrl] /\ failed' \subseteq Commits
           /\ \A c \in Commits : approvals'[c] # NoUrl => <<approvals'[c], c>> \in proved
  BY DEF PinInv, PinTypes, MarksProved, FailUnverified, Unverified, AnyUrl

LEMMA FetchKeeps == PinInv /\ (Fetch \/ FetcherRestarts) => PinInv'
<1> SUFFICES ASSUME PinInv, Fetch \/ FetcherRestarts PROVE PinInv'
  OBVIOUS
<1>0. \A c \in Commits : approvals[c] # NoUrl => <<approvals[c], c>> \in proved
  BY DEF PinInv, MarksProved
<1>T. /\ fetching \in Fetches /\ approvals \in [Commits -> AnyUrl] /\ failed \subseteq Commits
      /\ storeUrl \in AnyUrl /\ objects \subseteq Commits /\ proved \subseteq Urls \X Commits
      /\ wanted \subseteq Commits /\ urlFile \in AnyUrl /\ onMain \in [Urls -> SUBSET Commits]
  BY DEF PinInv, PinTypes
<1>U. fetching.at \in {"init", "head", "check"} => fetching.url \in Urls
  BY DEF PinInv, UrlsKnown
<1>E. pinEvents' \in 0 .. MaxPinEvents
  BY EventBound DEF Fetch, FetcherRestarts, ReadWanted, ReadUrl, InitStore, ResolveHead, CheckAncestor,
                    PassEnds
<1>1. CASE ReadWanted
  <2>1. fetching' \in Fetches /\ fetching'.at = "url"
    BY <1>1, <1>T DEF ReadWanted, FetchIdle, Fetches, AnyUrl
  <2> QED BY <1>0, <1>1, <1>T, <1>E, <2>1, FetchStep DEF ReadWanted
<1>2. CASE ReadUrl
  <2>1. fetching' \in Fetches /\ fetching'.url = urlFile /\ urlFile \in Urls
    BY <1>2, <1>T DEF ReadUrl, Fetches, AnyUrl
  <2> QED BY <1>0, <1>2, <1>T, <1>E, <2>1, FetchStep DEF ReadUrl
<1>3. CASE InitStore
  <2>1. fetching' \in Fetches /\ (fetching'.at \in {"init", "head", "check"} => fetching'.url \in Urls)
    BY <1>3, <1>T, <1>U, FetchIdleIsFetch DEF InitStore, PinsGo, Fetches
  <2>2. approvals' \in [Commits -> AnyUrl] /\ \A c \in Commits : approvals'[c] = NoUrl
    BY <1>3 DEF InitStore, AnyUrl
  <2>3. failed' \subseteq Commits /\ objects' \subseteq Commits /\ storeUrl' \in AnyUrl
    BY <1>3, <1>T DEF InitStore, AnyUrl, Fetches
  <2> QED BY <1>3, <1>T, <1>E, <2>1, <2>2, <2>3, FetchStep DEF InitStore
<1>4. CASE ResolveHead
  <2>1. CASE /\ fetching' = [fetching EXCEPT !.at = "check", !.head = onMain[fetching.url]]
             /\ objects' = objects \cup onMain[fetching.url]
             /\ UNCHANGED <<approvals, failed, pinEvents>>
    <3>1. onMain[fetching.url] \subseteq Commits /\ fetching.url \in Urls
      BY <1>4, <1>T, <1>U DEF ResolveHead
    <3>2. fetching' \in Fetches /\ fetching'.url \in Urls
      BY <2>1, <3>1, <1>T DEF Fetches
    <3> QED BY <1>0, <1>4, <1>T, <1>E, <2>1, <3>1, <3>2, FetchStep DEF ResolveHead
  <2>2. CASE FailUnverified(fetching.todo) /\ fetching' = FetchIdle /\ UNCHANGED objects
    <3>1. fetching.todo \in SUBSET Commits
      BY <1>T DEF Fetches
    <3> QED BY <1>4, <1>T, <1>E, <2>2, <3>1, FetchIdleIsFetch, FailUnverifiedKeeps, FetchStep DEF ResolveHead
  <2> QED BY <1>4, <2>1, <2>2 DEF ResolveHead
<1>5. ASSUME NEW c \in Commits, CheckAncestor(c) PROVE PinInv'
  <2> DEFINE u == fetching.url
  <2>1. u \in Urls
    BY <1>5, <1>U DEF CheckAncestor
  <2>2. CASE Checked(c)
    <3>1. fetching' \in Fetches /\ fetching'.url = u
      BY <2>2, <1>T DEF Checked, Fetches
    <3>2. CASE approvals' = [approvals EXCEPT ![c] = u] /\ failed' \subseteq failed
               /\ proved' = proved \cup {<<u, c>>}
      <4>1. approvals' \in [Commits -> AnyUrl]
        BY <1>T, <2>1, <3>2 DEF AnyUrl
      <4>2. \A d \in Commits : approvals'[d] # NoUrl => <<approvals'[d], d>> \in proved'
        BY <1>0, <1>T, <3>2
      <4>3. proved' \subseteq Urls \X Commits
        BY <1>T, <2>1, <3>2
      <4> QED BY <1>5, <1>T, <1>E, <2>1, <3>1, <3>2, <4>1, <4>2, <4>3, FetchStep DEF CheckAncestor
    <3>3. CASE MarkFailed(c) /\ UNCHANGED proved
      <4>1. approvals' \in [Commits -> AnyUrl] /\ failed' \subseteq Commits
        BY <1>T, <3>3 DEF AnyUrl, MarkFailed
      <4>2. \A d \in Commits : approvals'[d] # NoUrl => <<approvals'[d], d>> \in proved
        BY <1>0, <1>T, <3>3 DEF MarkFailed
      <4> QED BY <1>5, <1>T, <1>E, <2>1, <3>1, <3>3, <4>1, <4>2, FetchStep DEF CheckAncestor
    <3>4. CASE FailUnverified({c}) /\ UNCHANGED proved
      <4>1. {c} \in SUBSET Commits
        OBVIOUS
      <4> QED BY <1>5, <1>T, <1>E, <2>1, <3>1, <3>4, <4>1, FailUnverifiedKeeps, FetchStep DEF CheckAncestor
    <3> QED BY <1>5, <3>2, <3>3, <3>4 DEF CheckAncestor
  <2> QED BY <1>5, <2>2 DEF CheckAncestor
<1>6. CASE PassEnds
  BY <1>0, <1>6, <1>T, <1>E, FetchIdleIsFetch, FetchStep DEF PassEnds
<1>7. CASE FetcherRestarts
  BY <1>0, <1>7, <1>T, <1>E, FetchIdleIsFetch, FetchStep DEF FetcherRestarts
<1> QED BY <1>1, <1>2, <1>3, <1>4, <1>5, <1>6, <1>7 DEF Fetch

LEMMA OthersKeep ==
    ASSUME PinInv,
           \/ NewWish \/ (\E u \in Urls : BranchMoves(u)) \/ (\E k \in DeployKeys : Forget(k))
           \/ MediatorRestarts \/ (\E c \in Commits : AskPackage(c)) \/ SendPackage
           \/ UNCHANGED pinVars
    PROVE  PinInv'
<1> USE DEF pollVars, fetchVars, handVars
<1>T. /\ wish \in Wishes /\ onMain \in [Urls -> SUBSET Commits]
      /\ cache \in Readings /\ pinEvents' \in 0 .. MaxPinEvents
  BY EventBound DEF PinInv, PinTypes, NewWish, BranchMoves, Forget, MediatorRestarts, AskPackage, SendPackage,
                    PollRest, HandRest, pinVars
<1>1. CASE NewWish \/ (\E u \in Urls : BranchMoves(u)) \/ UNCHANGED pinVars
  <2>1. wish' \in Wishes /\ onMain' \in [Urls -> SUBSET Commits]
    BY <1>1, <1>T DEF NewWish, BranchMoves, pinVars
  <2>2. UNCHANGED <<pollVars, fetchVars, handVars>>
    BY <1>1 DEF NewWish, BranchMoves, pinVars
  <2>3. PinTypes'
    BY <1>T, <2>1, <2>2 DEF PinInv, PinTypes
  <2>4. MarksProved' /\ UrlsKnown' /\ JudgedProved'
    BY <2>2 DEF PinInv, MarksProved, UrlsKnown, JudgedProved
  <2>5. OnlyProvedRuns'
    BY <2>2 DEF PinInv, OnlyProvedRuns
  <2> QED BY <2>3, <2>4, <2>5 DEF PinInv
<1>2. ASSUME NEW k \in DeployKeys, Forget(k) PROVE PinInv'
  <2>1. cache' \in Readings
    BY <1>2, <1>T DEF Forget, Readings, Verdicts
  <2>2. UNCHANGED <<polled, cacheUrl, verdict, listed, wanted, urlFile, pinEvents>> /\ PollRest
    BY <1>2 DEF Forget
  <2> QED BY <1>T, <2>1, <2>2, PollStep DEF PinInv, PinTypes, UrlsKnown, JudgedProved, OnlyProvedRuns
<1>3. CASE MediatorRestarts
  <2>1. listed' \in [url : AnyUrl, of : Readings] /\ \A k \in DeployKeys : listed'.of[k] # "ready"
    BY <1>3, NoReadIsReading DEF MediatorRestarts, AnyUrl
  <2>2. polled' \in Polls /\ polled'.at = "read"
    BY <1>3, PollIdleIsPoll DEF MediatorRestarts, PinInv
  <2>3. PinTypes'
    BY <1>3, <1>T, <2>1, <2>2, NoReadIsReading DEF PinInv, PinTypes, MediatorRestarts, AnyUrl
  <2>4. MarksProved' /\ UrlsKnown' /\ JudgedProved'
    BY <1>3, <2>2, NoReadIsReading DEF PinInv, MarksProved, UrlsKnown, JudgedProved, MediatorRestarts
  <2>5. OnlyProvedRuns'
    BY <1>3, <2>1 DEF PinInv, OnlyProvedRuns, MediatorRestarts
  <2> QED BY <2>3, <2>4, <2>5 DEF PinInv
<1>4. CASE (\E c \in Commits : AskPackage(c)) \/ SendPackage
  <2>1. HandRest
    BY <1>4 DEF AskPackage, SendPackage
  <2>2. PinTypes'
    BY <1>T, <2>1 DEF PinInv, PinTypes, HandRest
  <2>3. MarksProved' /\ UrlsKnown' /\ JudgedProved'
    BY <2>1 DEF PinInv, MarksProved, UrlsKnown, JudgedProved, HandRest
  <2>4. ASSUME NEW h \in handed' PROVE h.ok /\ <<h.url, h.commit>> \in proved
    <3>1. CASE h \in handed
      BY <3>1 DEF PinInv, OnlyProvedRuns
    <3>2. CASE h \notin handed
      <4>1. SendPackage /\ Authorized(hand.commit) /\ h = [url |-> wish.url, commit |-> hand.commit, ok |-> TRUE]
        BY <1>4, <2>4, <3>2 DEF AskPackage, SendPackage
      <4>2. hand.commit \in Commits /\ wish.url \in Urls /\ FetchVerdict(hand.commit, wish.url) = "ready"
        BY <1>T, <4>1, WishParts DEF Authorized
      <4> QED BY <4>1, <4>2, ReadyIsProved DEF PinInv
    <3> QED BY <3>1, <3>2
  <2>5. OnlyProvedRuns'
    BY <2>1, <2>4 DEF PinInv, OnlyProvedRuns, HandRest
  <2> QED BY <2>2, <2>3, <2>5 DEF PinInv
<1> QED BY <1>1, <1>2, <1>3, <1>4

(* The inductive invariant: types, marks that were proved, a repository     *)
(* known to whoever works for it, verdicts that rest on a proof.            *)
THEOREM PinInvariant == PinsSpec => []PinInv
<1>1. PinInv /\ [PinsNext]_pinVars => PinInv'
  BY PollKeeps, FetchKeeps, OthersKeep DEF PinsNext
<1> QED BY PinInvInit, <1>1, PTL DEF PinsSpec

(* Whatever the wishes, branches, failures and restarts, a pin is listed as *)
(* ready and a package is sent only for a commit that was proved to be on   *)
(* the default branch of that repository.                                   *)
THEOREM OnlyProvedIsReady == PinsSpec => []OnlyProvedRuns
<1>1. PinInv => OnlyProvedRuns
  BY DEF PinInv
<1> QED BY PinInvariant, <1>1, PTL

(* The type invariant of the pins follows.                                  *)
THEOREM PinsTypeCorrect == PinsSpec => []PinsTypeOK
<1>1. PinInv => PinsTypeOK
  BY DEF PinInv, PinTypes, PinsTypeOK, Polls, Fetches, Readings, AnyUrl
<1> QED BY PinInvariant, <1>1, PTL

-----------------------------------------------------------------------------
(* Ticker: every slot is fired, passed over or missed, once, or left out   *)
(* by maxScan, and an earlier answer replaces a later one only if the      *)
(* clock was set.  The clock, the latenesses and the schedules are any.    *)

(* An item of the schedule file.                                                   *)
ItemShape(it) ==
    /\ it = [cursor |-> it.cursor, lastFired |-> it.lastFired, pause |-> it.pause,
             pauseOff |-> it.pauseOff, lastRun |-> it.lastRun, missed |-> it.missed]
    /\ it.cursor \in Nat /\ it.lastFired \in Nat /\ it.lastRun \in Nat /\ it.missed \in Nat
    /\ it.pause \in BOOLEAN /\ it.pauseOff \in BOOLEAN

(* The history of its slots.                                                       *)
GoneShape(g) ==
    /\ g = [since |-> g.since, fired |-> g.fired, again |-> g.again, missed |-> g.missed,
            passed |-> g.passed, skipped |-> g.skipped, back |-> g.back]
    /\ g.since \in Nat /\ g.back \in BOOLEAN
    /\ g.fired \subseteq Slots /\ g.missed \subseteq Slots \cup Gaps
    /\ g.passed \subseteq Slots /\ g.skipped \subseteq Slots
AllOf(g) == g.fired \cup g.missed \cup g.passed \cup g.skipped
Unfired(g, s) == {t \in Slots : g.since < t /\ t < s /\ t \notin g.fired}

(* While the cursor has only gone forward.                                         *)
OnceRight(it, g) ==
    /\ g.since <= it.cursor /\ it.lastFired <= it.cursor
    /\ \A s \in AllOf(g) : g.since < s /\ s <= it.cursor
    /\ g.fired \cap (g.missed \cup g.passed \cup g.skipped) = {}
    /\ g.missed \cap (g.passed \cup g.skipped) = {} /\ g.passed \cap g.skipped = {}
    /\ it.missed = Cardinality(g.missed)
    /\ \A s \in g.skipped : Cardinality(Unfired(g, s)) >= MaxScan

(* Wherever the cursor has gone: the slots up to it, and up to the last that fired. *)
SlotsRight(it, g) ==
    /\ GoneShape(g) /\ g.again = {}
    /\ \A s \in g.fired : s <= it.lastFired
    /\ \A s \in Slots : g.since < s /\ (s <= it.cursor \/ s <= it.lastFired) => s \in AllOf(g)
    /\ g.back = FALSE => OnceRight(it, g)

(* The pause of the item is the one that the core's words call for.               *)
PauseRight(it, p) ==
    /\ p \in {"no", "yes", "off"}
    /\ it.pause = TRUE <=> p # "no"
    /\ it.pause = TRUE => (it.pauseOff = TRUE <=> p = "off")

(* A call that saw no setting of the clock has had its time since its slot and no   *)
(* more, and nothing that a poll or such an answer knows is younger than the slots   *)
(* that are still out.                                                              *)
CallShape(c) ==
    /\ c = [slot |-> c.slot, left |-> c.left, stepped |-> c.stepped]
    /\ c.slot \in Slots /\ c.left \in 0 .. CallTimeout /\ c.stepped \in BOOLEAN
CallRight(c) ==
    c.stepped = FALSE =>
      /\ c.slot <= wall /\ wall - c.slot < FireWindow + (CallTimeout - c.left)
      /\ item # Unknown => c.slot <= item.cursor /\ (strayed = FALSE => item.lastRun <= c.slot)
RunRight == item # Unknown /\ strayed = FALSE => item.lastRun <= item.cursor /\ item.lastRun <= wall
CallsRight == RunRight /\ \A c \in calls : CallRight(c)

TickerInv ==
    /\ wall \in Nat /\ strayed \in BOOLEAN /\ \A c \in calls : CallShape(c)
    /\ item # Unknown => ItemShape(item) /\ SlotsRight(item, gone) /\ PauseRight(item, paused)
    /\ item = Unknown => paused = "no"
    /\ CallsRight

LEMMA SlotsAreTimes ==
    /\ \A s \in Slots \cup Gaps : s \in Nat \ {0}
    /\ FireWindow \in Nat \ {0} /\ CallTimeout \in Nat \ {0} /\ MaxWall \in Nat \ {0} /\ MaxScan \in Nat \ {0}
    /\ \A s \in Slots : s \notin Gaps
  BY TickerAssumption

LEMMA TimesAreFinite ==
    ASSUME NEW S, S \subseteq Slots \cup Gaps
    PROVE  IsFiniteSet(S) /\ Cardinality(S) \in Nat
<1>1. IsFiniteSet(1 .. MaxWall)
  BY SlotsAreTimes, FS_Interval
<1>2. S \in SUBSET (1 .. MaxWall)
  BY TickerAssumption
<1> QED BY <1>1, <1>2, FS_Subset, FS_CardinalityType

LEMMA NewItemRight ==
    ASSUME wall \in Nat
    PROVE  /\ ItemShape(NewItem(wall)) /\ SlotsRight(NewItem(wall), NothingGone)
           /\ NewItem(wall).pause = FALSE /\ NewItem(wall).pauseOff = FALSE
           /\ NewItem(wall).cursor = wall /\ NewItem(wall).lastRun = 0
<1>1. \A b \in BOOLEAN : LET r == [cursor |-> wall, lastFired |-> 0, pause |-> b, pauseOff |-> b,
                                   lastRun |-> 0, missed |-> 0] IN
        /\ ItemShape(r) /\ r.pause = b /\ r.pauseOff = b /\ r.cursor = wall /\ r.lastRun = 0
        /\ r.lastFired = 0 /\ r.missed = 0
  BY DEF ItemShape
<1>2. /\ ItemShape(NewItem(wall)) /\ NewItem(wall).pause = FALSE /\ NewItem(wall).pauseOff = FALSE
      /\ NewItem(wall).cursor = wall /\ NewItem(wall).lastRun = 0
      /\ NewItem(wall).lastFired = 0 /\ NewItem(wall).missed = 0
  BY <1>1, Zenon DEF NewItem
<1>3. /\ NothingGone.since = wall /\ NothingGone.fired = {} /\ NothingGone.missed = {} /\ NothingGone.passed = {}
      /\ NothingGone.again = {} /\ NothingGone.skipped = {} /\ NothingGone.back \in BOOLEAN
      /\ NothingGone = [since |-> NothingGone.since, fired |-> NothingGone.fired, again |-> NothingGone.again,
                        missed |-> NothingGone.missed, passed |-> NothingGone.passed,
                        skipped |-> NothingGone.skipped, back |-> NothingGone.back]
  BY DEF NothingGone
<1>4. GoneShape(NothingGone) /\ AllOf(NothingGone) = {}
  BY <1>3 DEF GoneShape, AllOf
<1>5. OnceRight(NewItem(wall), NothingGone)
  <2>1. Cardinality({}) = 0
    BY FS_EmptySet
  <2> QED BY <1>2, <1>3, <1>4, <2>1 DEF OnceRight
<1>6. SlotsRight(NewItem(wall), NothingGone)
  BY <1>2, <1>3, <1>4, <1>5, SlotsAreTimes DEF SlotsRight
<1> QED BY <1>2, <1>6

LEMMA UnknownIsNone ==
    ASSUME NEW it, ItemShape(it)
    PROVE  it # Unknown
<1>1. Unknown.cursor = -1
  BY DEF Unknown, NewItem
<1> QED BY <1>1 DEF ItemShape

(* syncPause                                                                      *)
LEMMA SyncPauseKeeps ==
    ASSUME NEW it, ItemShape(it)
    PROVE  /\ ItemShape(SyncPause(it))
           /\ SyncPause(it).cursor = it.cursor /\ SyncPause(it).lastFired = it.lastFired
           /\ SyncPause(it).lastRun = it.lastRun /\ SyncPause(it).missed = it.missed
           /\ \A p, q : PauseRight(it, p)
                          /\ q = (CASE p = "yes" /\ line = "disabled" -> "off"
                                    [] p = "off" /\ line # "disabled" -> "no"
                                    [] OTHER -> p)
                        => PauseRight(SyncPause(it), q)
<1>1. CASE ~(it.pause = TRUE)
  <2>1. SyncPause(it) = it
    BY <1>1 DEF SyncPause, ItemShape
  <2> QED BY <1>1, <2>1 DEF PauseRight
<1>2. CASE it.pause = TRUE /\ line = "disabled"
  <2>1. SyncPause(it) = [it EXCEPT !.pauseOff = TRUE]
    BY <1>2 DEF SyncPause
  <2>2. \A b \in BOOLEAN : LET r == [it EXCEPT !.pauseOff = b] IN
          /\ ItemShape(r) /\ r.pause = it.pause /\ r.pauseOff = b /\ r.cursor = it.cursor
          /\ r.lastFired = it.lastFired /\ r.lastRun = it.lastRun /\ r.missed = it.missed
    BY DEF ItemShape
  <2>3. LET r == SyncPause(it) IN
          /\ ItemShape(r) /\ r.pause = it.pause /\ r.pauseOff = TRUE /\ r.cursor = it.cursor
          /\ r.lastFired = it.lastFired /\ r.lastRun = it.lastRun /\ r.missed = it.missed
    BY <2>1, <2>2, Zenon
  <2> QED BY <1>2, <2>3 DEF PauseRight
<1>3. CASE it.pause = TRUE /\ line # "disabled" /\ it.pauseOff = TRUE
  <2>1. SyncPause(it) = [it EXCEPT !.pause = FALSE, !.pauseOff = FALSE]
    BY <1>3 DEF SyncPause
  <2>2. \A b \in BOOLEAN : LET r == [it EXCEPT !.pause = b, !.pauseOff = b] IN
          /\ ItemShape(r) /\ r.pause = b /\ r.pauseOff = b /\ r.cursor = it.cursor
          /\ r.lastFired = it.lastFired /\ r.lastRun = it.lastRun /\ r.missed = it.missed
    <3>1. \A b \in BOOLEAN : LET r == [it EXCEPT !.pause = b] IN
            /\ ItemShape(r) /\ r.pause = b /\ r.cursor = it.cursor
            /\ r.lastFired = it.lastFired /\ r.lastRun = it.lastRun /\ r.missed = it.missed
      BY DEF ItemShape
    <3>2. \A b \in BOOLEAN : \A i : ItemShape(i) =>
            LET r == [i EXCEPT !.pauseOff = b] IN
            /\ ItemShape(r) /\ r.pause = i.pause /\ r.pauseOff = b /\ r.cursor = i.cursor
            /\ r.lastFired = i.lastFired /\ r.lastRun = i.lastRun /\ r.missed = i.missed
      BY DEF ItemShape
    <3>3. \A b : [it EXCEPT !.pause = b, !.pauseOff = b] = [[it EXCEPT !.pause = b] EXCEPT !.pauseOff = b]
      OBVIOUS
    <3> TAKE b \in BOOLEAN
    <3> DEFINE i == [it EXCEPT !.pause = b]
               r == [i EXCEPT !.pauseOff = b]
    <3>4. /\ ItemShape(i) /\ i.pause = b /\ i.cursor = it.cursor
          /\ i.lastFired = it.lastFired /\ i.lastRun = it.lastRun /\ i.missed = it.missed
      BY <3>1, Zenon
    <3>5. r = [it EXCEPT !.pause = b, !.pauseOff = b]
      BY <3>3, Zenon
    <3> HIDE DEF i
    <3>6. /\ ItemShape(r) /\ r.pause = i.pause /\ r.pauseOff = b /\ r.cursor = i.cursor
          /\ r.lastFired = i.lastFired /\ r.lastRun = i.lastRun /\ r.missed = i.missed
      BY <3>2, <3>4, Zenon
    <3> HIDE DEF r
    <3> QED BY <3>4, <3>5, <3>6, Zenon
  <2>3. LET r == SyncPause(it) IN
          /\ ItemShape(r) /\ r.pause = FALSE /\ r.pauseOff = FALSE /\ r.cursor = it.cursor
          /\ r.lastFired = it.lastFired /\ r.lastRun = it.lastRun /\ r.missed = it.missed
    BY <2>1, <2>2, Zenon
  <2> QED BY <1>3, <2>3 DEF PauseRight
<1>4. CASE it.pause = TRUE /\ line # "disabled" /\ ~(it.pauseOff = TRUE)
  <2>1. SyncPause(it) = it
    BY <1>4 DEF SyncPause, ItemShape
  <2> QED BY <1>4, <2>1 DEF PauseRight
<1> QED BY <1>1, <1>2, <1>3, <1>4

(* What a poll makes of the slots that occurred: at most one fires, the youngest;   *)
(* one that is not judged has maxScan others before it, and then none fires.         *)
LEMMA OccurredRight ==
    ASSUME NEW it, ItemShape(it), wall \in Nat
    PROVE  /\ Fires(it) \subseteq Scanned(it) /\ Late(it) \subseteq Scanned(it)
           /\ Scanned(it) \subseteq Occurred(it) /\ Occurred(it) \subseteq Slots
           /\ GapMisses(it) \subseteq Gaps
           /\ \A s \in Occurred(it) \cup GapMisses(it) : s \in Nat /\ it.cursor < s /\ s <= wall
           /\ Fires(it) \cap Late(it) = {}
           /\ Eligible => \A s \in Scanned(it) : s > it.lastFired => s \in Fires(it) \cup Late(it)
           /\ ~Eligible => Fires(it) = {} /\ Late(it) = {} /\ GapMisses(it) = {}
           /\ \A s \in Fires(it) : s > it.lastFired /\ wall - s < FireWindow /\ Max(Fires(it)) = s
           /\ \A s \in Occurred(it) \ Scanned(it) :
                 Fires(it) = {} /\ Cardinality({t \in Occurred(it) : t < s}) >= MaxScan
<1>1. /\ Fires(it) \subseteq Scanned(it) /\ Late(it) \subseteq Scanned(it)
      /\ Scanned(it) \subseteq Occurred(it) /\ Occurred(it) \subseteq Slots
      /\ GapMisses(it) \subseteq Gaps /\ Fires(it) \cap Late(it) = {}
      /\ Eligible => \A s \in Scanned(it) : s > it.lastFired => s \in Fires(it) \cup Late(it)
      /\ ~Eligible => Fires(it) = {} /\ Late(it) = {} /\ GapMisses(it) = {}
      /\ \A s \in Fires(it) : s > it.lastFired /\ wall - s < FireWindow
                                 /\ \A t \in Occurred(it) : t <= s
  BY DEF Fires, Late, Scanned, Occurred, GapMisses
<1>2. \A s \in Occurred(it) \cup GapMisses(it) : s \in Nat /\ it.cursor < s /\ s <= wall
  BY SlotsAreTimes DEF Occurred, GapMisses
<1>3. ASSUME NEW s \in Fires(it) PROVE Max(Fires(it)) = s
  <2>1. s \in Nat /\ Fires(it) = {s}
    <3>1. \A t \in Fires(it) : t \in Nat /\ s \in Nat /\ t <= s /\ s <= t
      BY <1>1, <1>2
    <3>2. \A t \in Fires(it) : t = s
      BY <3>1
    <3> QED BY <3>1, <3>2
  <2>2. Max({s}) = s
    BY <2>1 DEF Max
  <2> QED BY <2>1, <2>2
<1>4. \A s \in Occurred(it) : /\ IsFiniteSet({t \in Occurred(it) : t < s})
                              /\ Cardinality({t \in Occurred(it) : t < s}) \in Nat
  <2> TAKE s \in Occurred(it)
  <2>1. {t \in Occurred(it) : t < s} \subseteq Slots \cup Gaps
    BY <1>1
  <2> QED BY <2>1, TimesAreFinite
<1>5. ASSUME NEW s \in Occurred(it) \ Scanned(it)
      PROVE  Fires(it) = {} /\ Cardinality({t \in Occurred(it) : t < s}) >= MaxScan
  <2>1. Cardinality({t \in Occurred(it) : t < s}) >= MaxScan
    <3>1. ~(Cardinality({t \in Occurred(it) : t < s}) < MaxScan)
      BY <1>5 DEF Scanned
    <3> QED BY <1>4, <3>1, SlotsAreTimes
  <2>2. ASSUME NEW m \in Fires(it) PROVE FALSE
    <3>1. m \in Scanned(it) /\ m \in Occurred(it)
      BY <1>1
    <3>2. Cardinality({t \in Occurred(it) : t < m}) < MaxScan
      BY <3>1 DEF Scanned
    <3>3. s <= m
      BY <1>1, <1>2, <3>1
    <3>4. {t \in Occurred(it) : t < s} \subseteq {t \in Occurred(it) : t < m}
      BY <1>2, <3>1, <3>3
    <3>5. Cardinality({t \in Occurred(it) : t < s}) <= Cardinality({t \in Occurred(it) : t < m})
      BY <1>4, <3>1, <3>4, FS_Subset
    <3> QED BY <1>4, <2>1, <3>1, <3>2, <3>5, SlotsAreTimes
  <2> QED BY <2>1, <2>2
<1> QED BY <1>1, <1>2, <1>3, <1>5

LEMMA CountedOnce ==
    ASSUME NEW it, ItemShape(it), NEW g, GoneShape(g), OnceRight(it, g), wall \in Nat
    PROVE  Cardinality(g.missed \cup Late(it) \cup GapMisses(it))
             = it.missed + Cardinality(Late(it)) + Cardinality(GapMisses(it))
<1>1. /\ g.missed \subseteq Slots \cup Gaps /\ Late(it) \subseteq Slots /\ GapMisses(it) \subseteq Gaps
      /\ it.missed = Cardinality(g.missed)
      /\ \A s \in g.missed : s <= it.cursor
      /\ \A s \in Late(it) \cup GapMisses(it) : s \in Nat /\ it.cursor < s
  BY OccurredRight DEF GoneShape, OnceRight, AllOf
<1>2. /\ IsFiniteSet(g.missed) /\ IsFiniteSet(Late(it)) /\ IsFiniteSet(GapMisses(it))
      /\ Cardinality(g.missed) \in Nat /\ Cardinality(Late(it)) \in Nat /\ Cardinality(GapMisses(it)) \in Nat
  BY <1>1, TimesAreFinite
<1>3. g.missed \cap Late(it) = {} /\ (g.missed \cup Late(it)) \cap GapMisses(it) = {}
  <2>1. it.cursor \in Nat /\ \A m, n \in Nat : ~(m <= n /\ n < m)
    BY DEF ItemShape
  <2>2. \A s \in g.missed : s \notin Late(it) /\ s \notin GapMisses(it)
    BY <1>1, <2>1
  <2>3. \A s \in Late(it) : s \notin GapMisses(it)
    BY <1>1, SlotsAreTimes
  <2> QED BY <2>2, <2>3
<1>4. IsFiniteSet(g.missed \cup Late(it))
      /\ Cardinality(g.missed \cup Late(it)) = Cardinality(g.missed) + Cardinality(Late(it)) - Cardinality({})
  BY <1>2, <1>3, FS_Union
<1>5. Cardinality(g.missed \cup Late(it) \cup GapMisses(it))
        = Cardinality(g.missed \cup Late(it)) + Cardinality(GapMisses(it)) - Cardinality({})
  BY <1>2, <1>3, <1>4, FS_Union
<1> QED BY <1>1, <1>2, <1>4, <1>5, FS_EmptySet

(* advance                                                                        *)
LEMMA AdvanceShape ==
    ASSUME NEW it, ItemShape(it), wall \in Nat
    PROVE  /\ ItemShape(Advance(it)) /\ Advance(it).cursor = wall
           /\ Advance(it).pause = it.pause /\ Advance(it).pauseOff = it.pauseOff
           /\ Advance(it).lastRun = it.lastRun
           /\ Advance(it).missed = it.missed + Cardinality(Late(it)) + Cardinality(GapMisses(it))
           /\ Advance(it).lastFired >= it.lastFired
           /\ Fires(it) = {} => Advance(it).lastFired = it.lastFired
           /\ \A s \in Fires(it) : Advance(it).lastFired = s
<1> DEFINE m == it.missed + Cardinality(Late(it)) + Cardinality(GapMisses(it))
           f == IF Fires(it) = {} THEN it.lastFired ELSE Max(Fires(it))
<1>1. /\ it = [cursor |-> it.cursor, lastFired |-> it.lastFired, pause |-> it.pause,
               pauseOff |-> it.pauseOff, lastRun |-> it.lastRun, missed |-> it.missed]
      /\ it.lastRun \in Nat /\ it.pause \in BOOLEAN /\ it.pauseOff \in BOOLEAN
      /\ it.lastFired \in Nat /\ it.missed \in Nat
  BY DEF ItemShape
<1>2. Cardinality(Late(it)) \in Nat /\ Cardinality(GapMisses(it)) \in Nat
  <2>1. Late(it) \subseteq Slots \cup Gaps /\ GapMisses(it) \subseteq Slots \cup Gaps
    BY OccurredRight
  <2> QED BY <2>1, TimesAreFinite
<1>3. m \in Nat
  BY <1>1, <1>2
<1>4. f \in Nat /\ f >= it.lastFired /\ \A s \in Fires(it) : f = s
  <2>1. CASE Fires(it) = {}
    BY <1>1, <2>1
  <2>2. ASSUME NEW s \in Fires(it) PROVE f = s /\ s \in Nat /\ s > it.lastFired
    BY <2>2, OccurredRight
  <2> QED BY <1>1, <2>1, <2>2
<1>5. Fires(it) = {} => f = it.lastFired
  OBVIOUS
<1>6. Advance(it) = [cursor |-> wall, lastFired |-> f, pause |-> it.pause,
                     pauseOff |-> it.pauseOff, lastRun |-> it.lastRun, missed |-> m]
  <2>1. CASE line # "external"
    <3>1. Advance(it) = [it EXCEPT !.cursor = wall, !.missed = m, !.lastFired = f]
      BY <2>1 DEF Advance
    <3> HIDE DEF m, f
    <3> QED BY <1>1, <3>1
  <2>2. CASE line = "external"
    <3>1. Late(it) = {} /\ GapMisses(it) = {} /\ Fires(it) = {}
      BY <2>2 DEF Late, GapMisses, Fires, Eligible
    <3>2. Cardinality({}) = 0
      BY FS_EmptySet
    <3>3. m = it.missed /\ f = it.lastFired
      BY <1>1, <3>1, <3>2
    <3>4. Advance(it) = [it EXCEPT !.cursor = wall]
      BY <2>2 DEF Advance
    <3> HIDE DEF m, f
    <3> QED BY <1>1, <3>3, <3>4
  <2> QED BY <2>1, <2>2
<1> HIDE DEF f
<1>7. Advance(it).missed = m
  <2> HIDE DEF m
  <2> QED BY <1>6
<1>8. ItemShape(Advance(it)) /\ Advance(it).cursor = wall /\ Advance(it).lastFired = f
      /\ Advance(it).pause = it.pause /\ Advance(it).pauseOff = it.pauseOff
      /\ Advance(it).lastRun = it.lastRun
  <2> HIDE DEF m
  <2> QED BY <1>1, <1>3, <1>4, <1>6 DEF ItemShape
<1> QED BY <1>4, <1>5, <1>7, <1>8

LEMMA AfterShape ==
    ASSUME NEW it, ItemShape(it), NEW g, GoneShape(g), wall \in Nat
    PROVE  LET a == After(it, g) IN
           /\ GoneShape(a) /\ a.since = g.since
           /\ a.fired = g.fired \cup Fires(it) /\ a.again = g.again \cup (g.fired \cap Fires(it))
           /\ a.missed = g.missed \cup Late(it) \cup GapMisses(it)
           /\ a.passed = g.passed \cup IF Eligible THEN {} ELSE Occurred(it)
           /\ a.skipped = g.skipped \cup IF Eligible THEN Occurred(it) \ Scanned(it) ELSE {}
           /\ a.back = FALSE => g.back = FALSE /\ ~(wall < it.cursor)
<1> DEFINE fi == g.fired \cup Fires(it)
           ag == g.again \cup (g.fired \cap Fires(it))
           mi == g.missed \cup Late(it) \cup GapMisses(it)
           pa == g.passed \cup IF Eligible THEN {} ELSE Occurred(it)
           sk == g.skipped \cup IF Eligible THEN Occurred(it) \ Scanned(it) ELSE {}
           ba == g.back \/ wall < it.cursor
           a == After(it, g)
<1>1. a = [g EXCEPT !.fired = fi, !.again = ag, !.missed = mi, !.passed = pa, !.skipped = sk, !.back = ba]
  BY Zenon DEF After
<1>2. /\ fi \subseteq Slots /\ mi \subseteq Slots \cup Gaps /\ pa \subseteq Slots /\ sk \subseteq Slots
  BY OccurredRight DEF GoneShape
<1>3. ba \in BOOLEAN /\ (ba = FALSE => g.back = FALSE /\ ~(wall < it.cursor))
  BY Zenon DEF GoneShape
<1> HIDE DEF fi, ag, mi, pa, sk, ba, a
<1>4. a = [since |-> g.since, fired |-> fi, again |-> ag, missed |-> mi, passed |-> pa, skipped |-> sk, back |-> ba]
  BY <1>1 DEF GoneShape
<1>5. /\ a.since = g.since /\ a.fired = fi /\ a.again = ag /\ a.missed = mi /\ a.passed = pa
      /\ a.skipped = sk /\ a.back = ba
      /\ a = [since |-> a.since, fired |-> a.fired, again |-> a.again, missed |-> a.missed,
              passed |-> a.passed, skipped |-> a.skipped, back |-> a.back]
  BY <1>4
<1>6. GoneShape(a)
  BY <1>2, <1>3, <1>5 DEF GoneShape
<1> QED BY <1>3, <1>5, <1>6 DEF fi, ag, mi, pa, sk, ba, a

LEMMA AdvanceKeeps ==
    ASSUME NEW it, ItemShape(it), NEW g, SlotsRight(it, g), wall \in Nat
    PROVE  SlotsRight(Advance(it), After(it, g))
<1> DEFINE r == Advance(it)
           a == After(it, g)
<1>G. GoneShape(g) /\ g.again = {} /\ \A s \in g.fired : s <= it.lastFired
  BY DEF SlotsRight
<1>R. /\ ItemShape(r) /\ r.cursor = wall /\ r.lastFired >= it.lastFired
      /\ r.missed = it.missed + Cardinality(Late(it)) + Cardinality(GapMisses(it))
      /\ Fires(it) = {} => r.lastFired = it.lastFired
      /\ \A s \in Fires(it) : r.lastFired = s
  BY AdvanceShape
<1>A. /\ GoneShape(a) /\ a.since = g.since
      /\ a.fired = g.fired \cup Fires(it) /\ a.again = g.again \cup (g.fired \cap Fires(it))
      /\ a.missed = g.missed \cup Late(it) \cup GapMisses(it)
      /\ a.passed = g.passed \cup IF Eligible THEN {} ELSE Occurred(it)
      /\ a.skipped = g.skipped \cup IF Eligible THEN Occurred(it) \ Scanned(it) ELSE {}
      /\ a.back = FALSE => g.back = FALSE /\ ~(wall < it.cursor)
  BY <1>G, AfterShape
<1> HIDE DEF r, a
<1>N. it.cursor \in Nat /\ it.lastFired \in Nat /\ r.lastFired \in Nat /\ g.since \in Nat
      /\ \A s \in Slots \cup Gaps : s \in Nat
  BY <1>G, <1>R, SlotsAreTimes DEF ItemShape, GoneShape
<1>1. a.again = {}
  <2>1. \A s \in Fires(it) : s \in Nat /\ s > it.lastFired
    BY OccurredRight
  <2>2. \A s \in g.fired : s \notin Fires(it)
    BY <1>G, <1>N, <2>1
  <2> QED BY <1>A, <1>G, <2>2
<1>2. \A s \in a.fired : s <= r.lastFired
  <2> TAKE s \in a.fired
  <2>1. CASE s \in g.fired
    <3>1. s \in Nat /\ s <= it.lastFired
      BY <1>G, <1>N, <2>1 DEF GoneShape
    <3> QED BY <1>N, <1>R, <3>1
  <2>2. CASE s \in Fires(it)
    BY <1>N, <1>R, <2>2
  <2> QED BY <1>A, <2>1, <2>2
<1>3. ASSUME NEW s \in Slots, a.since < s, s <= r.cursor \/ s <= r.lastFired
      PROVE  s \in AllOf(a)
  <2>1. AllOf(g) \subseteq AllOf(a)
    BY <1>A DEF AllOf
  <2>2. CASE s <= it.cursor \/ s <= it.lastFired
    BY <1>3, <1>A, <2>1, <2>2 DEF SlotsRight
  <2>3. CASE it.cursor < s /\ it.lastFired < s
    <3>1. s <= wall
      <4>1. CASE Fires(it) = {}
        BY <1>3, <1>N, <1>R, <2>3, <4>1
      <4>2. ASSUME NEW q \in Fires(it) PROVE s <= wall
        <5>1. r.lastFired = q /\ q <= wall /\ q \in Nat
          BY <1>R, <4>2, OccurredRight
        <5> QED BY <1>3, <1>N, <1>R, <5>1
      <4> QED BY <4>1, <4>2
    <3>2. s \in Occurred(it)
      BY <2>3, <3>1 DEF Occurred
    <3>3. CASE ~Eligible
      BY <1>A, <3>2, <3>3 DEF AllOf
    <3>4. CASE Eligible /\ s \notin Scanned(it)
      BY <1>A, <3>2, <3>4 DEF AllOf
    <3>5. CASE Eligible /\ s \in Scanned(it)
      <4>1. s \in Fires(it) \cup Late(it)
        BY <1>N, <2>3, <3>5, OccurredRight
      <4> QED BY <1>A, <4>1 DEF AllOf
    <3> QED BY <3>3, <3>4, <3>5
  <2> QED BY <1>N, <2>2, <2>3
<1>4. ASSUME a.back = FALSE PROVE OnceRight(r, a)
  <2>1. OnceRight(it, g) /\ it.cursor <= wall
    BY <1>4, <1>A, <1>N DEF SlotsRight
  <2>O. /\ Fires(it) \subseteq Scanned(it) /\ Late(it) \subseteq Scanned(it)
        /\ Scanned(it) \subseteq Occurred(it) /\ Occurred(it) \subseteq Slots
        /\ GapMisses(it) \subseteq Gaps /\ Fires(it) \cap Late(it) = {}
        /\ \A s \in Occurred(it) \cup GapMisses(it) : s \in Nat /\ it.cursor < s /\ s <= wall
        /\ ~Eligible => Fires(it) = {} /\ Late(it) = {} /\ GapMisses(it) = {}
        /\ \A s \in Occurred(it) \ Scanned(it) :
              Fires(it) = {} /\ Cardinality({t \in Occurred(it) : t < s}) >= MaxScan
    BY OccurredRight
  <2>2. g.since <= it.cursor /\ it.lastFired <= it.cursor
        /\ \A s \in AllOf(g) : s \in Nat /\ g.since < s /\ s <= it.cursor
    BY <1>G, <1>N, <2>1 DEF OnceRight, GoneShape, AllOf
  <2>3. a.since <= r.cursor /\ r.lastFired <= r.cursor
    <3>1. CASE Fires(it) = {}
      BY <1>A, <1>N, <1>R, <2>1, <2>2, <3>1
    <3>2. ASSUME NEW q \in Fires(it) PROVE r.lastFired <= wall
      BY <1>R, <2>O, <3>2
    <3> QED BY <1>A, <1>N, <1>R, <2>1, <2>2, <3>1, <3>2
  <2>4. AllOf(a) \subseteq AllOf(g) \cup Occurred(it) \cup GapMisses(it)
    BY <1>A, <2>O DEF AllOf
  <2>5. \A s \in AllOf(a) : a.since < s /\ s <= r.cursor
    <3> TAKE s \in AllOf(a)
    <3>1. CASE s \in AllOf(g)
      BY <1>A, <1>N, <1>R, <2>1, <2>2, <3>1
    <3>2. CASE s \in Occurred(it) \cup GapMisses(it)
      BY <1>A, <1>N, <1>R, <2>O, <2>2, <3>2
    <3> QED BY <2>4, <3>1, <3>2
  <2>6. \A s \in Occurred(it) \cup GapMisses(it) : s \notin AllOf(g)
    BY <1>N, <2>O, <2>2
  <2>7. Occurred(it) \cap GapMisses(it) = {}
    BY <2>O, SlotsAreTimes
  <2>8. /\ g.fired \cap (g.missed \cup g.passed \cup g.skipped) = {}
        /\ g.missed \cap (g.passed \cup g.skipped) = {} /\ g.passed \cap g.skipped = {}
    BY <2>1 DEF OnceRight
  <2>9. /\ a.fired \cap (a.missed \cup a.passed \cup a.skipped) = {}
        /\ a.missed \cap (a.passed \cup a.skipped) = {} /\ a.passed \cap a.skipped = {}
    <3>1. CASE Eligible
      BY <1>A, <2>O, <2>6, <2>7, <2>8, <3>1 DEF AllOf
    <3>2. CASE ~Eligible
      BY <1>A, <2>O, <2>6, <2>7, <2>8, <3>2 DEF AllOf
    <3> QED BY <3>1, <3>2
  <2>10. r.missed = Cardinality(a.missed)
    BY <1>A, <1>G, <1>R, <2>1, CountedOnce
  <2>11. ASSUME NEW s \in a.skipped PROVE Cardinality(Unfired(a, s)) >= MaxScan
    <3>1. CASE s \in g.skipped
      <4>1. s \in Nat /\ s <= it.cursor /\ Cardinality(Unfired(g, s)) >= MaxScan
        BY <1>N, <2>1, <2>2, <3>1 DEF OnceRight, AllOf
      <4>2. Unfired(a, s) = Unfired(g, s)
        <5>1. \A t \in Slots : t < s => (t \in a.fired <=> t \in g.fired)
          BY <1>A, <1>N, <2>O, <4>1
        <5> QED BY <1>A, <5>1 DEF Unfired
      <4> QED BY <4>1, <4>2
    <3>2. CASE Eligible /\ s \in Occurred(it) \ Scanned(it)
      <4> DEFINE O == {t \in Occurred(it) : t < s}
      <4>1. Fires(it) = {} /\ Cardinality(O) >= MaxScan
        BY <2>O, <3>2
      <4>2. O \subseteq Unfired(a, s)
        <5>1. a.fired = g.fired
          BY <1>A, <4>1
        <5>2. ASSUME NEW t \in O PROVE t \in Slots /\ a.since < t /\ t < s /\ t \notin a.fired
          BY <1>A, <1>N, <2>O, <2>2, <2>6, <5>1, <5>2 DEF AllOf
        <5> QED BY <5>2 DEF Unfired
      <4>3. Unfired(a, s) \subseteq Slots \cup Gaps
        BY DEF Unfired
      <4>4. IsFiniteSet(Unfired(a, s)) /\ Cardinality(Unfired(a, s)) \in Nat
        BY <4>3, TimesAreFinite
      <4>5. Cardinality(O) \in Nat /\ Cardinality(O) <= Cardinality(Unfired(a, s))
        BY <4>2, <4>4, FS_Subset, FS_CardinalityType
      <4> QED BY <4>1, <4>4, <4>5, SlotsAreTimes
    <3> QED BY <1>A, <3>1, <3>2
  <2> QED BY <2>3, <2>5, <2>9, <2>10, <2>11 DEF OnceRight
<1> QED BY <1>A, <1>1, <1>2, <1>3, <1>4 DEF SlotsRight, r, a

LEMMA TickerInvInit == TickerInit => TickerInv
<1> SUFFICES ASSUME TickerInit PROVE TickerInv
  OBVIOUS
<1>1. wall = 0 /\ item = Unknown /\ calls = {} /\ paused = "no" /\ strayed = FALSE
  BY DEF TickerInit
<1> QED BY <1>1 DEF TickerInv, CallsRight, RunRight

(* No answer makes the record of a schedule older, unless the clock was set.         *)
NotOlderAnswer ==
    item # Unknown /\ item' # Unknown /\ item'.lastRun < item.lastRun => strayed \/ strayed'

LEMMA SameItemNotOlder ==
    ASSUME TickerInv, item # Unknown /\ item' # Unknown => item'.lastRun = item.lastRun
    PROVE  NotOlderAnswer
<1>1. item # Unknown => item.lastRun \in Nat
  BY DEF TickerInv, ItemShape
<1> QED BY <1>1 DEF NotOlderAnswer

LEMMA NewCallShape ==
    ASSUME NEW s \in Slots
    PROVE  /\ CallShape(NewCall(s)) /\ NewCall(s).slot = s /\ NewCall(s).left = CallTimeout
           /\ NewCall(s).stepped = FALSE
<1>1. \A b \in BOOLEAN : LET c == [slot |-> s, left |-> CallTimeout, stepped |-> b] IN
        CallShape(c) /\ c.slot = s /\ c.left = CallTimeout /\ c.stepped = b
  BY SlotsAreTimes DEF CallShape
<1> QED BY <1>1, Zenon DEF NewCall

LEMMA TickKeeps ==
    ASSUME TickerInv, Tick
    PROVE  TickerInv' /\ NotOlderAnswer
<1> DEFINE old == IF item = Unknown THEN NewItem(wall) ELSE item
           it == SyncPause(old)
           was == IF item = Unknown THEN NothingGone ELSE gone
<1>1. /\ UNCHANGED <<wall, line, pinReady, strayed>> /\ wall \in Nat /\ strayed \in BOOLEAN
      /\ \A c \in calls : CallShape(c)
      /\ Unknown' = Unknown
  BY DEF Tick, TickerInv, Unknown, NewItem
<1>2. ItemShape(old) /\ SlotsRight(old, was) /\ PauseRight(old, paused)
  <2>1. CASE item = Unknown
    <3>1. old = NewItem(wall) /\ was = NothingGone /\ paused = "no"
      BY <2>1 DEF TickerInv
    <3>2. PauseRight(NewItem(wall), "no")
      BY <1>1, NewItemRight DEF PauseRight
    <3> QED BY <1>1, <3>1, <3>2, NewItemRight
  <2>2. CASE item # Unknown
    BY <2>2 DEF TickerInv
  <2> QED BY <2>1, <2>2
<1>3. CASE line = Absent
  <2>1. item' = Unknown /\ paused' = "no" /\ calls' = calls
    BY <1>3 DEF Tick
  <2>2. CallsRight'
    <3>1. \A c \in calls : CallRight(c)
      BY DEF TickerInv, CallsRight
    <3>2. ASSUME NEW c \in calls PROVE CallRight(c)'
      BY <1>1, <2>1, <3>1 DEF CallRight
    <3> QED BY <1>1, <2>1, <3>2 DEF CallsRight, RunRight
  <2>3. NotOlderAnswer
    BY <1>1, <2>1 DEF NotOlderAnswer
  <2> QED BY <1>1, <2>1, <2>2, <2>3 DEF TickerInv
<1>4. CASE line # Absent
  <2> DEFINE fresh == {NewCall(s) : s \in Fires(it)}
             now == CASE paused = "yes" /\ line = "disabled" -> "off"
                      [] paused = "off" /\ line # "disabled" -> "no"
                      [] OTHER -> paused
  <2>1. /\ item' = Advance(it) /\ calls' = calls \cup fresh /\ gone' = After(it, was) /\ paused' = now
    BY <1>4 DEF Tick
  <2>2. /\ ItemShape(it) /\ it.cursor = old.cursor /\ it.lastFired = old.lastFired
        /\ it.lastRun = old.lastRun /\ it.missed = old.missed
        /\ PauseRight(it, now)
    <3> HIDE DEF old, now
    <3>1. now = (CASE paused = "yes" /\ line = "disabled" -> "off"
                   [] paused = "off" /\ line # "disabled" -> "no"
                   [] OTHER -> paused)
      BY DEF now
    <3> QED BY <1>2, <3>1, SyncPauseKeeps
  <2>3. SlotsRight(it, was)
    <3> HIDE DEF old, was, it
    <3> QED BY <1>2, <2>2 DEF SlotsRight, OnceRight
  <2> HIDE DEF now, it
  <2>4. /\ ItemShape(item') /\ SlotsRight(item', gone')
        /\ item'.pause = it.pause /\ item'.pauseOff = it.pauseOff
        /\ item'.lastRun = it.lastRun /\ item'.cursor = wall
    <3> HIDE DEF was
    <3> QED BY <1>1, <2>1, <2>2, <2>3, AdvanceShape, AdvanceKeeps
  <2>5. PauseRight(item', paused')
    BY <2>1, <2>2, <2>4 DEF PauseRight
  <2>6. item' # Unknown'
    BY <1>1, <2>4, UnknownIsNone
  <2>F. \A s \in Fires(it) : /\ s \in Slots /\ s \in Nat /\ it.cursor < s /\ s <= wall
                             /\ wall - s < FireWindow
    BY <1>1, <2>2, OccurredRight
  <2>7. \A c \in fresh : /\ CallShape(c) /\ c.slot \in Fires(it) /\ c.left = CallTimeout
                         /\ c.stepped = FALSE
    <3>1. \A c \in fresh : \E s \in Fires(it) : c = NewCall(s)
      OBVIOUS
    <3> HIDE DEF fresh
    <3>2. ASSUME NEW c \in fresh
          PROVE  CallShape(c) /\ c.slot \in Fires(it) /\ c.left = CallTimeout /\ c.stepped = FALSE
      <4>1. PICK s \in Fires(it) : c = NewCall(s)
        BY <3>1
      <4>2. s \in Slots
        BY <2>F
      <4>3. CallShape(NewCall(s)) /\ NewCall(s).slot = s /\ NewCall(s).left = CallTimeout
            /\ NewCall(s).stepped = FALSE
        BY <4>2, NewCallShape
      <4> QED BY <4>1, <4>3
    <3> QED BY <3>2
  <2> HIDE DEF fresh
  <2>8. strayed = FALSE => /\ old.lastRun \in Nat /\ old.lastRun <= old.cursor /\ old.lastRun <= wall
                           /\ old.cursor \in Nat
    <3>1. CASE item = Unknown
      BY <1>1, <3>1, NewItemRight
    <3>2. CASE item # Unknown
      BY <1>2, <3>2 DEF TickerInv, CallsRight, RunRight, ItemShape
    <3> QED BY <3>1, <3>2
  <2>9. ASSUME NEW c \in calls' PROVE CallRight(c)'
    <3> SUFFICES ASSUME c.stepped = FALSE
                 PROVE  /\ c.slot <= wall /\ wall - c.slot < FireWindow + (CallTimeout - c.left)
                        /\ strayed = FALSE => item'.lastRun <= c.slot
      BY <1>1, <2>4 DEF CallRight
    <3>1. CASE c \in calls
      <4>1. /\ c.slot <= wall /\ wall - c.slot < FireWindow + (CallTimeout - c.left)
            /\ item # Unknown => (strayed = FALSE => item.lastRun <= c.slot)
            /\ c.slot \in Nat
        BY <1>1, <3>1, SlotsAreTimes DEF TickerInv, CallsRight, CallRight, CallShape
      <4>2. CASE item = Unknown
        <5>1. item'.lastRun = 0
          BY <1>1, <2>2, <2>4, <4>2, NewItemRight
        <5> QED BY <4>1, <5>1
      <4>3. CASE item # Unknown
        <5>1. item'.lastRun = item.lastRun
          BY <2>2, <2>4, <4>3
        <5> QED BY <4>1, <4>3, <5>1
      <4> QED BY <4>2, <4>3
    <3>2. CASE c \in fresh
      <4>1. c.slot \in Fires(it) /\ c.left = CallTimeout
        BY <2>7, <3>2
      <4>2. strayed = FALSE => item'.lastRun <= c.slot
        <5> HIDE DEF old
        <5> QED BY <2>2, <2>4, <2>8, <2>F, <4>1
      <4>3. wall - c.slot < FireWindow + (CallTimeout - c.left)
        BY <1>1, <2>F, <4>1, SlotsAreTimes
      <4> QED BY <2>F, <4>1, <4>2, <4>3
    <3> QED BY <2>1, <3>1, <3>2
  <2>10. RunRight'
    <3> HIDE DEF old
    <3> QED BY <1>1, <2>2, <2>4, <2>8 DEF RunRight
  <2>11. NotOlderAnswer
    <3>1. item # Unknown => item'.lastRun = item.lastRun
      BY <2>2, <2>4
    <3> QED BY <3>1, SameItemNotOlder
  <2>12. \A c \in calls' : CallShape(c)
    BY <1>1, <2>1, <2>7
  <2> QED BY <1>1, <2>4, <2>5, <2>6, <2>9, <2>10, <2>11, <2>12 DEF TickerInv, CallsRight
<1> QED BY <1>3, <1>4

LEMMA AnsweredKeeps ==
    ASSUME TickerInv, NEW c \in calls, Answered(c)
    PROVE  TickerInv' /\ NotOlderAnswer
<1>1. /\ calls' = calls \ {c} /\ UNCHANGED <<wall, line, pinReady, gone>> /\ wall \in Nat
      /\ \A d \in calls : CallShape(d) /\ CallRight(d)
      /\ Unknown' = Unknown /\ strayed \in BOOLEAN /\ RunRight
  BY DEF Answered, TickerInv, CallsRight, Unknown, NewItem
<1>2. CASE UNCHANGED <<item, paused, strayed>>
  <2>1. CallsRight'
    BY <1>1, <1>2 DEF CallsRight, RunRight, CallRight
  <2>2. NotOlderAnswer
    BY <1>2, SameItemNotOlder
  <2>3. item # Unknown => ItemShape(item)' /\ SlotsRight(item, gone)' /\ PauseRight(item, paused)'
    BY <1>1, <1>2 DEF TickerInv
  <2> QED BY <1>1, <1>2, <2>1, <2>2, <2>3 DEF TickerInv
<1>3. ASSUME item # Unknown, NEW end \in TickerEnds,
             item' = [item EXCEPT !.lastRun = c.slot, !.pause = end = "paused", !.pauseOff = FALSE],
             paused' = IF end = "paused" THEN "yes" ELSE "no",
             strayed' = c.stepped
      PROVE  TickerInv' /\ NotOlderAnswer
  <2> DEFINE b == end = "paused"
             off == FALSE
  <2>1. b \in BOOLEAN /\ off \in BOOLEAN
    OBVIOUS
  <2>2. item' = [item EXCEPT !.lastRun = c.slot, !.pause = b, !.pauseOff = off]
    BY <1>3
  <2>3. (b = TRUE <=> end = "paused") /\ off = FALSE
    OBVIOUS
  <2> HIDE DEF b, off
  <2>4. ItemShape(item) /\ SlotsRight(item, gone) /\ c.slot \in Nat /\ c.stepped \in BOOLEAN
    BY <1>1, <1>3, SlotsAreTimes DEF TickerInv, CallShape
  <2>5. item = [cursor |-> item.cursor, lastFired |-> item.lastFired, pause |-> item.pause,
                pauseOff |-> item.pauseOff, lastRun |-> item.lastRun, missed |-> item.missed]
    BY <2>4 DEF ItemShape
  <2>6. item' = [cursor |-> item.cursor, lastFired |-> item.lastFired, pause |-> b,
                 pauseOff |-> off, lastRun |-> c.slot, missed |-> item.missed]
    BY <2>2, <2>5
  <2>7. /\ item'.cursor = item.cursor /\ item'.lastFired = item.lastFired /\ item'.missed = item.missed
        /\ item'.lastRun = c.slot /\ item'.pause = b /\ item'.pauseOff = off
    BY <2>6
  <2>8. ItemShape(item')
    BY <2>1, <2>4, <2>6, <2>7 DEF ItemShape
  <2>9. SlotsRight(item', gone')
    BY <1>1, <2>4, <2>7 DEF SlotsRight, OnceRight
  <2>10. PauseRight(item', paused')
    BY <1>3, <2>1, <2>3, <2>7 DEF PauseRight
  <2>11. item' # Unknown
    BY <2>8, UnknownIsNone
  <2>12. ASSUME NEW d \in calls, d.stepped = FALSE
         PROVE  /\ d.slot <= wall /\ wall - d.slot < FireWindow + (CallTimeout - d.left)
                /\ d.slot <= item.cursor /\ (strayed = FALSE => item.lastRun <= d.slot)
                /\ d.slot \in Nat /\ d.left \in Nat /\ d.slot \in Slots
    BY <1>1, <1>3, <2>12, SlotsAreTimes DEF CallRight, CallShape
  <2>13. ASSUME NEW d \in calls, d.stepped = FALSE, c.stepped = FALSE
         PROVE  c.slot <= d.slot
    <3>1. /\ d.slot \in Slots /\ d.slot \in Nat /\ d.left \in Nat
          /\ wall - d.slot < FireWindow + (CallTimeout - d.left)
      BY <2>12, <2>13
    <3>2. c.slot \in Slots /\ c.slot <= wall
      BY <2>12, <2>13
    <3>3. d.slot < c.slot => c.slot - d.slot >= FireWindow + CallTimeout
      BY <3>1, <3>2, TickerAssumption DEF Apart
    <3> QED BY <1>1, <2>4, <3>1, <3>2, <3>3, SlotsAreTimes
  <2>14. CallsRight'
    <3>1. ASSUME NEW d \in calls', d.stepped = FALSE
          PROVE  /\ d.slot <= wall /\ wall - d.slot < FireWindow + (CallTimeout - d.left)
                 /\ d.slot <= item.cursor /\ (c.stepped = FALSE => c.slot <= d.slot)
      BY <1>1, <2>12, <2>13, <3>1
    <3>2. ASSUME NEW d \in calls' PROVE CallRight(d)'
      BY <1>1, <1>3, <2>7, <3>1 DEF CallRight
    <3>3. RunRight'
      BY <1>1, <1>3, <2>7, <2>12 DEF RunRight
    <3> QED BY <3>2, <3>3 DEF CallsRight
  <2>15. NotOlderAnswer
    <3> SUFFICES ASSUME c.slot < item.lastRun, strayed = FALSE, c.stepped = FALSE PROVE FALSE
      BY <1>1, <1>3, <2>4, <2>7 DEF NotOlderAnswer
    <3>1. item.lastRun <= c.slot /\ item.lastRun \in Nat
      BY <2>4, <2>12 DEF ItemShape
    <3> QED BY <2>4, <3>1
  <2> QED BY <1>1, <1>3, <2>4, <2>8, <2>9, <2>10, <2>11, <2>14, <2>15 DEF TickerInv
<1> QED BY <1>2, <1>3 DEF Answered, Recorded

LEMMA TimeKeeps ==
    ASSUME TickerInv, TimePasses
    PROVE  TickerInv' /\ NotOlderAnswer
<1>1. /\ wall' = wall + 1 /\ wall \in Nat /\ UNCHANGED <<line, pinReady, item, gone, paused, strayed>>
      /\ \A c \in calls : CallShape(c) /\ CallRight(c) /\ c.left # 0
      /\ Unknown' = Unknown /\ RunRight
  BY DEF TimePasses, TickerInv, CallsRight, Overdue, Unknown, NewItem
<1>2. ASSUME NEW d \in calls'
      PROVE  \E c \in calls : /\ d.slot = c.slot /\ d.left = c.left - 1 /\ d.stepped = c.stepped
                              /\ CallShape(c) /\ CallShape(d)
  <2>1. PICK c \in calls : d = [c EXCEPT !.left = Max({0, c.left - 1})]
    BY DEF TimePasses
  <2>2. CallShape(c) /\ c.left \in 1 .. CallTimeout
    BY <1>1, SlotsAreTimes DEF CallShape
  <2>3. \A n \in Nat : Max({0, n}) = n
    BY DEF Max
  <2>4. c.left - 1 \in Nat
    BY <2>2, SlotsAreTimes
  <2>5. d = [c EXCEPT !.left = c.left - 1]
    BY <2>1, <2>3, <2>4
  <2>6. d.slot = c.slot /\ d.left = c.left - 1 /\ d.stepped = c.stepped
    BY <2>2, <2>5 DEF CallShape
  <2>7. CallShape(d)
    BY <2>2, <2>5, <2>6, SlotsAreTimes DEF CallShape
  <2> QED BY <2>2, <2>6, <2>7
<1>3. ASSUME NEW d \in calls' PROVE CallRight(d)'
  <2>1. PICK c \in calls : /\ d.slot = c.slot /\ d.left = c.left - 1 /\ d.stepped = c.stepped
                           /\ CallShape(c)
    BY <1>2
  <2>2. c.slot \in Nat /\ c.left \in Nat
    BY <2>1, SlotsAreTimes DEF CallShape
  <2>3. CallRight(c)
    BY <1>1
  <2>4. c.stepped = FALSE => d.slot <= wall' /\ wall' - d.slot < FireWindow + (CallTimeout - d.left)
    BY <1>1, <2>1, <2>2, <2>3, SlotsAreTimes DEF CallRight
  <2>5. c.stepped = FALSE /\ item' # Unknown' =>
          d.slot <= item'.cursor /\ (strayed' = FALSE => item'.lastRun <= d.slot)
    BY <1>1, <2>1, <2>3 DEF CallRight
  <2> QED BY <2>1, <2>4, <2>5 DEF CallRight
<1>4. RunRight'
  <2>1. item # Unknown => item.lastRun \in Nat
    BY DEF TickerInv, ItemShape
  <2> QED BY <1>1, <2>1 DEF RunRight
<1>5. NotOlderAnswer
  BY <1>1, SameItemNotOlder
<1>6. item # Unknown => ItemShape(item)' /\ SlotsRight(item, gone)' /\ PauseRight(item, paused)'
  BY <1>1 DEF TickerInv
<1> QED BY <1>1, <1>2, <1>3, <1>4, <1>5, <1>6 DEF TickerInv, CallsRight

LEMMA ClockKeeps ==
    ASSUME TickerInv, ClockIsSet
    PROVE  TickerInv' /\ NotOlderAnswer
<1>1. /\ UNCHANGED <<item, gone, paused>> /\ Unknown' = Unknown /\ wall' \in Nat /\ strayed' = TRUE
      /\ \A c \in calls : CallShape(c)
  BY DEF ClockIsSet, Unknown, NewItem, TickerInv
<1>2. ASSUME NEW d \in calls' PROVE CallShape(d) /\ d.stepped = TRUE
  <2>1. PICK c \in calls : d = [c EXCEPT !.stepped = TRUE]
    BY DEF ClockIsSet
  <2>2. c = [slot |-> c.slot, left |-> c.left, stepped |-> c.stepped] /\ c.slot \in Slots
        /\ c.left \in 0 .. CallTimeout
    BY <1>1 DEF CallShape
  <2>3. \A b \in BOOLEAN : LET e == [slot |-> c.slot, left |-> c.left, stepped |-> b] IN
          CallShape(e) /\ e.stepped = b
    BY <2>2 DEF CallShape
  <2>4. d = [slot |-> c.slot, left |-> c.left, stepped |-> TRUE]
    BY <2>1, <2>2
  <2> QED BY <2>3, <2>4, Zenon
<1>3. item # Unknown => ItemShape(item)' /\ SlotsRight(item, gone)' /\ PauseRight(item, paused)'
  BY <1>1 DEF TickerInv
<1>4. CallsRight'
  BY <1>1, <1>2 DEF CallsRight, RunRight, CallRight
<1>5. NotOlderAnswer
  BY <1>1, SameItemNotOlder
<1> QED BY <1>1, <1>2, <1>3, <1>4, <1>5 DEF TickerInv

LEMMA FilesKeep ==
    ASSUME TickerInv, LineChanges \/ PinChanges \/ UNCHANGED tickVars
    PROVE  TickerInv' /\ NotOlderAnswer
<1>1. UNCHANGED <<wall, item, calls, gone, paused, strayed>> /\ Unknown' = Unknown
  BY DEF LineChanges, PinChanges, tickVars, Unknown, NewItem
<1>2. item # Unknown => ItemShape(item)' /\ SlotsRight(item, gone)' /\ PauseRight(item, paused)'
  BY <1>1 DEF TickerInv
<1>3. CallsRight'
  BY <1>1 DEF TickerInv, CallsRight, RunRight, CallRight
<1>4. NotOlderAnswer
  BY <1>1, SameItemNotOlder
<1> QED BY <1>1, <1>2, <1>3, <1>4 DEF TickerInv

LEMMA TickerStepKeeps == TickerInv /\ [TickerNext]_tickVars => TickerInv' /\ NotOlderAnswer
  BY TickKeeps, AnsweredKeeps, TimeKeeps, ClockKeeps, FilesKeep DEF TickerNext

(* The inductive invariant: what became of the slots that the cursor or the last     *)
(* fired slot has passed, the pause that the core called for, and, of calls that saw  *)
(* no setting of the clock, that they are no older than their deadline.              *)
THEOREM TickerInvariant == TickerSpec => []TickerInv
  BY TickerInvInit, TickerStepKeeps, PTL DEF TickerSpec

(* For every set of slots that are far enough apart, every bound of the scan and     *)
(* every clock, set ahead or back at any moment: no slot fires twice and none that    *)
(* was passed is forgotten; while the cursor only went forward each was fired, missed, *)
(* passed by or left out, one of the four; and the core's pause lasts until the core   *)
(* ends it.                                                                         *)
THEOREM TickerKeepsFaith == TickerSpec => []TickerKeeps
<1>1. TickerInv => TickerKeeps
  <2> SUFFICES ASSUME TickerInv, item # Unknown
               PROVE  EverySlotOnce /\ (item.pause <=> paused # "no")
    BY DEF TickerKeeps, PauseLasts, EverySlotOnce
  <2>1. ItemShape(item) /\ SlotsRight(item, gone) /\ PauseRight(item, paused)
    BY DEF TickerInv
  <2>2. item.pause <=> paused # "no"
    BY <2>1 DEF PauseRight, ItemShape
  <2>3. EverySlotOnce
    <3> DEFINE all == gone.fired \cup gone.missed \cup gone.passed \cup gone.skipped
               due == {s \in Slots : gone.since < s /\ s <= item.cursor}
    <3>1. gone.again = {} /\ due \subseteq all /\ gone.back \in BOOLEAN
      BY <2>1 DEF SlotsRight, GoneShape, AllOf
    <3>2. ASSUME gone.back = FALSE
          PROVE  /\ due = all \ Gaps /\ item.missed = Cardinality(gone.missed)
                 /\ gone.fired \cap (gone.missed \cup gone.passed \cup gone.skipped) = {}
                 /\ gone.missed \cap (gone.passed \cup gone.skipped) = {} /\ gone.passed \cap gone.skipped = {}
                 /\ \A s \in gone.skipped : Cardinality({t \in due \ gone.fired : t < s}) >= MaxScan
      <4>1. OnceRight(item, gone) /\ GoneShape(gone)
        BY <2>1, <3>2 DEF SlotsRight
      <4>2. \A s \in all : (s \in Slots \/ s \in Gaps) /\ gone.since < s /\ s <= item.cursor
        BY <4>1 DEF OnceRight, GoneShape, AllOf
      <4>3. due = all \ Gaps
        BY <3>1, <4>2, SlotsAreTimes
      <4>4. ASSUME NEW s \in gone.skipped
            PROVE  {t \in due \ gone.fired : t < s} = Unfired(gone, s)
        <5>1. s \in Nat /\ s <= item.cursor /\ item.cursor \in Nat
          BY <2>1, <4>1, <4>2, SlotsAreTimes DEF GoneShape, ItemShape
        <5>2. \A t \in Slots : t < s => t <= item.cursor
          BY <5>1, SlotsAreTimes
        <5> QED BY <5>2 DEF Unfired
      <4> QED BY <4>1, <4>3, <4>4 DEF OnceRight
    <3> HIDE DEF all, due
    <3>3. gone.again = {} /\ due \subseteq all /\
            (~gone.back =>
                 /\ due = all \ Gaps /\ item.missed = Cardinality(gone.missed)
                 /\ gone.fired \cap (gone.missed \cup gone.passed \cup gone.skipped) = {}
                 /\ gone.missed \cap (gone.passed \cup gone.skipped) = {} /\ gone.passed \cap gone.skipped = {}
                 /\ \A s \in gone.skipped : Cardinality({t \in due \ gone.fired : t < s}) >= MaxScan)
      BY <3>1, <3>2
    <3> QED BY <3>3 DEF EverySlotOnce, all, due
  <2> QED BY <2>2, <2>3
<1> QED BY TickerInvariant, <1>1, PTL

(* The answer of an earlier slot replaces that of a later one only if the clock was  *)
(* set since one of their two calls was made.                                       *)
THEOREM LatestCounts == TickerSpec => LatestAnswerCounts
<1>1. TickerInv /\ [TickerNext]_tickVars
        => [item # Unknown /\ item' # Unknown /\ item'.lastRun < item.lastRun => strayed \/ strayed']_tickVars
  BY TickerStepKeeps DEF NotOlderAnswer
<1> QED BY TickerInvariant, <1>1, PTL DEF TickerSpec, LatestAnswerCounts

-----------------------------------------------------------------------------
(* Courier: what a run leaves behind and what is brought in keep the limit *)
(* of its inbox.                                                           *)

(* What the round has charged so far, and what is left of the budget, are      *)
(* within the limit; what it has not charged yet is still to come.              *)
Charged(dir, done) == [f \in PkgFiles |-> IF f \in done THEN dir[f] ELSE 0]
InboxSum(dir) == SumFunctionOnSet(dir, PkgFiles)
Rounds == [at : {"idle", "count", "fetch"}, list : Seq(PkgFiles), todo : Seq(PkgFiles),
           budget : Nat, existing : SUBSET PkgFiles]
Ahead(f) == \E i \in 1..Len(round.todo) : round.todo[i] = f
CourierInv ==
    /\ pkgDir \in [PkgFiles -> Nat] /\ round \in Rounds
    /\ InboxSum(pkgDir) <= TotalLimit
    /\ round.at # "idle" => InboxSum(Charged(pkgDir, round.existing)) + round.budget <= TotalLimit
    /\ round.at = "count" => \A f \in PkgFiles : pkgDir[f] > 0 => f \in round.existing \/ Ahead(f)
    /\ round.at = "fetch" => \A f \in PkgFiles : pkgDir[f] > 0 => f \in round.existing

LEMMA InboxIsNatural ==
    ASSUME NEW dir \in [PkgFiles -> Nat]
    PROVE  InboxSum(dir) \in Nat
BY CourierAssumption, SumIsNatural DEF InboxSum

LEMMA ChargedType ==
    ASSUME NEW dir \in [PkgFiles -> Nat], NEW done
    PROVE  Charged(dir, done) \in [PkgFiles -> Nat]
BY DEF Charged

(* Removals only make room.                                                     *)
LEMMA LessIsLess ==
    ASSUME NEW dir \in [PkgFiles -> Nat], NEW small \in [PkgFiles -> Nat],
           \A f \in PkgFiles : small[f] <= dir[f]
    PROVE  InboxSum(small) <= InboxSum(dir)
BY CourierAssumption, SumGrows DEF InboxSum

LEMMA ChargedLess ==
    ASSUME NEW dir \in [PkgFiles -> Nat], NEW small \in [PkgFiles -> Nat],
           \A f \in PkgFiles : small[f] <= dir[f], NEW done
    PROVE  InboxSum(Charged(small, done)) <= InboxSum(Charged(dir, done))
<1> DEFINE a == Charged(small, done)
           b == Charged(dir, done)
<1>1. a \in [PkgFiles -> Nat] /\ b \in [PkgFiles -> Nat]
  BY ChargedType
<1>2. \A f \in PkgFiles : a[f] <= b[f]
  BY DEF Charged
<1> HIDE DEF a, b
<1>3. InboxSum(a) <= InboxSum(b)
  BY <1>1, <1>2, LessIsLess
<1> QED BY <1>3 DEF a, b

LEMMA Exchanged ==
    ASSUME NEW dir \in [PkgFiles -> Nat], NEW then \in [PkgFiles -> Nat], NEW f \in PkgFiles,
           \A g \in PkgFiles \ {f} : then[g] = dir[g]
    PROVE  InboxSum(then) + dir[f] = InboxSum(dir) + then[f]
BY CourierAssumption, SumExchanged, SMTT(30) DEF InboxSum

(* A file that is charged adds its size, in the directory or on arrival.         *)
LEMMA OneMore ==
    ASSUME NEW dir \in [PkgFiles -> Nat], NEW done, NEW f \in PkgFiles, f \notin done, NEW n \in Nat,
           NEW then \in [PkgFiles -> Nat], then[f] = n, \A g \in PkgFiles \ {f} : then[g] = dir[g]
    PROVE  InboxSum(Charged(then, done \cup {f})) = InboxSum(Charged(dir, done)) + n
<1> DEFINE a == Charged(dir, done)
           b == Charged(then, done \cup {f})
<1>1. a \in [PkgFiles -> Nat] /\ b = [a EXCEPT ![f] = n] /\ a[f] = 0
  BY ChargedType DEF Charged
<1> HIDE DEF a, b
<1>2. InboxSum(b) + 0 = InboxSum(a) + n
  <2>1. /\ a \in [PkgFiles -> Nat] /\ b \in [PkgFiles -> Nat] /\ b[f] = n
        /\ \A x \in PkgFiles \ {f} : b[x] = a[x]
    BY <1>1
  <2>2. InboxSum(b) + a[f] = InboxSum(a) + b[f]
    BY <2>1, Exchanged, SMTT(30)
  <2> QED BY <1>1, <2>1, <2>2
<1>3. InboxSum(b) \in Nat /\ InboxSum(a) \in Nat
  <2>1. b \in [PkgFiles -> Nat]
    BY <1>1
  <2> QED BY <1>1, <2>1, InboxIsNatural
<1>4. \A x, y \in Nat : x + 0 = y + n => x = y + n
  OBVIOUS
<1>5. InboxSum(b) = InboxSum(a) + n
  BY <1>2, <1>3, <1>4
<1> QED BY <1>5 DEF a, b

LEMMA AllCharged ==
    ASSUME NEW dir \in [PkgFiles -> Nat], NEW done, \A f \in PkgFiles : dir[f] > 0 => f \in done
    PROVE  Charged(dir, done) = dir
BY DEF Charged

LEMMA TakeFirst ==
    ASSUME NEW s \in Seq(PkgFiles), s # <<>>
    PROVE  /\ Head(s) \in PkgFiles /\ Tail(s) \in Seq(PkgFiles)
           /\ \A f : (\E i \in 1..Len(s) : s[i] = f)
                       => f = Head(s) \/ \E i \in 1..Len(Tail(s)) : Tail(s)[i] = f
<1>1. Head(s) \in PkgFiles /\ Tail(s) \in Seq(PkgFiles) /\ Len(Tail(s)) = Len(s) - 1 /\ s[1] = Head(s)
  OBVIOUS
<1>2. \A i \in 1..(Len(s) - 1) : Tail(s)[i] = s[i + 1]
  OBVIOUS
<1>3. ASSUME NEW f, NEW i \in 1..Len(s), s[i] = f
      PROVE  f = Head(s) \/ \E j \in 1..Len(Tail(s)) : Tail(s)[j] = f
  <2>1. CASE i = 1
    BY <1>1, <1>3, <2>1
  <2>2. CASE i # 1
    <3>1. i - 1 \in 1..(Len(s) - 1) /\ (i - 1) + 1 = i
      BY <2>2
    <3>2. Tail(s)[i - 1] = f
      BY <1>2, <1>3, <3>1
    <3> QED BY <1>1, <3>1, <3>2
  <2> QED BY <2>1, <2>2
<1> QED BY <1>1, <1>3

LEMMA LessFits ==
    ASSUME CourierInv, NEW dir \in [PkgFiles -> Nat], \A f \in PkgFiles : dir[f] <= pkgDir[f]
    PROVE  /\ InboxSum(dir) <= TotalLimit
           /\ round.at # "idle" => InboxSum(Charged(dir, round.existing)) + round.budget <= TotalLimit
<1>1. /\ InboxSum(dir) <= InboxSum(pkgDir)
      /\ InboxSum(Charged(dir, round.existing)) <= InboxSum(Charged(pkgDir, round.existing))
  BY LessIsLess, ChargedLess DEF CourierInv
<1>2. /\ InboxSum(dir) \in Nat /\ InboxSum(pkgDir) \in Nat
      /\ InboxSum(Charged(dir, round.existing)) \in Nat /\ InboxSum(Charged(pkgDir, round.existing)) \in Nat
  BY InboxIsNatural, ChargedType DEF CourierInv
<1>3. \A x, y, b \in Nat : x <= y /\ y + b <= TotalLimit => x + b <= TotalLimit
  BY CourierAssumption
<1>4. \A x, y \in Nat : x <= y /\ y <= TotalLimit => x <= TotalLimit
  BY CourierAssumption
<1>5. round.budget \in Nat
  BY DEF CourierInv, Rounds
<1> QED BY <1>1, <1>2, <1>3, <1>4, <1>5 DEF CourierInv

(* The directory lost files, and nothing else happened to the round.            *)
LEMMA RemovalKeeps ==
    ASSUME CourierInv, pkgDir' \in [PkgFiles -> Nat], \A f \in PkgFiles : pkgDir'[f] <= pkgDir[f],
           round' = round
    PROVE  CourierInv'
<1>1. /\ InboxSum(pkgDir') <= TotalLimit
      /\ round.at # "idle" => InboxSum(Charged(pkgDir', round.existing)) + round.budget <= TotalLimit
  BY LessFits
<1>2. \A f \in PkgFiles : pkgDir'[f] > 0 => pkgDir[f] > 0
  BY DEF CourierInv
<1> QED BY <1>1, <1>2 DEF CourierInv, Ahead

LEMMA NothingThere == InboxSum([f \in PkgFiles |-> 0]) = 0
<1> DEFINE z == [f \in PkgFiles |-> 0]
<1>1. z \in [PkgFiles -> Nat] /\ \A f \in PkgFiles : z[f] = 0
  OBVIOUS
<1> HIDE DEF z
<1>2. InboxSum(z) = 0
  <2> DEFINE Bad == {s \in SUBSET PkgFiles : SumFunctionOnSet(z, s) # 0}
  <2>1. ASSUME Bad # {} PROVE FALSE
    <3>1. PICK s \in Bad : \A t \in Bad : t \subseteq s => t = s
      <4>1. Bad \subseteq SUBSET PkgFiles
        OBVIOUS
      <4> HIDE DEF Bad
      <4> QED BY <2>1, <4>1, SmallestSubset, CourierAssumption
    <3>2. s \in SUBSET PkgFiles /\ IsFiniteSet(s) /\ s # {}
      BY <3>1, CourierAssumption, FS_Subset, SumOfNone
    <3>3. PICK y \in s : TRUE
      BY <3>2
    <3>4. SumFunctionOnSet(z, s \ {y}) = 0
      BY <3>1, <3>2, <3>3
    <3>5. SumFunctionOnSet(z, s) = z[y] + SumFunctionOnSet(z, s \ {y})
      BY <1>1, <3>2, <3>3, SumWithout
    <3>6. z[y] = 0
      BY <1>1, <3>2, <3>3
    <3> QED BY <3>1, <3>4, <3>5, <3>6
  <2>2. SumFunctionOnSet(z, PkgFiles) = 0
    BY <2>1
  <2> QED BY <2>2 DEF InboxSum
<1> QED BY <1>2 DEF z

LEMMA CourierInvInit == CourierInit => CourierInv
<1> SUFFICES ASSUME CourierInit PROVE CourierInv
  OBVIOUS
<1> DEFINE z == [f \in PkgFiles |-> 0]
<1>1. pkgDir = z /\ z \in [PkgFiles -> Nat] /\ \A f \in PkgFiles : z[f] = 0
  BY DEF CourierInit
<1> HIDE DEF z
<1>2. InboxSum(z) <= TotalLimit
  BY NothingThere, CourierAssumption DEF z
<1>3. round \in Rounds /\ round.at = "idle"
  BY DEF CourierInit, RoundIdle, Rounds
<1> QED BY <1>1, <1>2, <1>3 DEF CourierInv

LEMMA CountKeeps ==
    ASSUME CourierInv, CountExisting
    PROVE  CourierInv'
<1> DEFINE f == Head(round.todo)
           t == Tail(round.todo)
<1>1. round.at = "count" /\ round \in Rounds /\ round.todo \in Seq(PkgFiles) /\ round.todo # <<>>
  BY DEF CourierInv, CountExisting, Rounds
<1>2. /\ f \in PkgFiles /\ t \in Seq(PkgFiles)
      /\ \A g : Ahead(g) => g = f \/ \E i \in 1..Len(t) : t[i] = g
  BY <1>1, TakeFirst DEF Ahead
<1>3. pkgDir \in [PkgFiles -> Nat] /\ round.existing \subseteq PkgFiles /\ round.budget \in Nat
  BY <1>1 DEF CourierInv, Rounds
<1>4. CASE /\ f \in round.existing \/ pkgDir[f] = 0
           /\ round' = [round EXCEPT !.todo = t] /\ pkgDir' = pkgDir
  <2> HIDE DEF f, t
  <2>1. /\ round' \in Rounds /\ round'.at = "count" /\ round'.existing = round.existing
        /\ round'.budget = round.budget /\ round'.todo = t
    BY <1>1, <1>2, <1>4 DEF Rounds
  <2>2. \A g \in PkgFiles : pkgDir[g] > 0 => g \in round.existing \/ \E i \in 1..Len(t) : t[i] = g
    BY <1>1, <1>2, <1>3, <1>4 DEF CourierInv
  <2> QED BY <1>1, <1>4, <2>1, <2>2 DEF CourierInv, Ahead
<1>5. CASE f \notin round.existing /\ round' = [round EXCEPT !.todo = t] /\ pkgDir' = [pkgDir EXCEPT ![f] = 0]
  <2> HIDE DEF f, t
  <2>1. /\ round' \in Rounds /\ round'.at = "count" /\ round'.existing = round.existing
        /\ round'.budget = round.budget /\ round'.todo = t
    BY <1>1, <1>2, <1>5 DEF Rounds
  <2>2. pkgDir' \in [PkgFiles -> Nat] /\ pkgDir'[f] = 0 /\ \A g \in PkgFiles : g # f => pkgDir'[g] = pkgDir[g]
    BY <1>2, <1>3, <1>5
  <2>3. \A g \in PkgFiles : pkgDir'[g] > 0 => g \in round.existing \/ \E i \in 1..Len(t) : t[i] = g
    <3>1. \A g \in PkgFiles : pkgDir'[g] > 0 => g # f /\ pkgDir[g] > 0
      BY <1>3, <2>2
    <3>2. \A g \in PkgFiles : pkgDir[g] > 0 => g \in round.existing \/ Ahead(g)
      BY <1>1 DEF CourierInv
    <3> QED BY <1>2, <3>1, <3>2
  <2>4. \A g \in PkgFiles : pkgDir'[g] <= pkgDir[g]
    BY <1>2, <1>3, <2>2
  <2>5. /\ InboxSum(pkgDir') <= TotalLimit
        /\ InboxSum(Charged(pkgDir', round.existing)) + round.budget <= TotalLimit
    BY <1>1, <1>3, <2>2, <2>4, LessFits
  <2> QED BY <1>1, <2>1, <2>2, <2>3, <2>5 DEF CourierInv, Ahead
<1>6. CASE /\ f \notin round.existing /\ pkgDir[f] \in 1..round.budget
           /\ round' = [round EXCEPT !.todo = t, !.budget = round.budget - pkgDir[f],
                                     !.existing = round.existing \cup {f}]
           /\ pkgDir' = pkgDir
  <2> DEFINE b == round.budget - pkgDir[f]
             e == round.existing \cup {f}
  <2>0. b \in Nat /\ e \in SUBSET PkgFiles
    BY <1>2, <1>3, <1>6
  <2>n. pkgDir[f] \in Nat
    BY <1>2, <1>3
  <2>c. InboxSum(Charged(pkgDir, e)) = InboxSum(Charged(pkgDir, round.existing)) + pkgDir[f]
    BY <1>2, <1>3, <1>6, <2>n, OneMore
  <2>1. round' = [round EXCEPT !.todo = t, !.budget = b, !.existing = e]
    BY <1>6
  <2>2. InboxSum(Charged(pkgDir, e)) + b <= TotalLimit
    <3>1. InboxSum(Charged(pkgDir, round.existing)) \in Nat
      BY <1>3, InboxIsNatural, ChargedType
    <3>2. InboxSum(Charged(pkgDir, round.existing)) + round.budget <= TotalLimit
      BY <1>1 DEF CourierInv
    <3>3. \A x, y, z \in Nat : x + y <= TotalLimit => (x + z) + (y - z) <= TotalLimit
      BY CourierAssumption
    <3> QED BY <1>3, <2>n, <2>c, <3>1, <3>2, <3>3
  <2> HIDE DEF f, t, b, e
  <2>3. /\ round' \in Rounds /\ round'.at = "count" /\ round'.existing = e
        /\ round'.budget = b /\ round'.todo = t
    BY <1>1, <1>2, <2>0, <2>1 DEF Rounds
  <2>4. \A g \in PkgFiles : pkgDir[g] > 0 => g \in e \/ \E i \in 1..Len(t) : t[i] = g
    BY <1>1, <1>2, <1>3 DEF CourierInv, e
  <2> QED BY <1>1, <1>6, <2>2, <2>3, <2>4 DEF CourierInv, Ahead
<1> QED BY <1>1, <1>4, <1>5, <1>6 DEF CountExisting

LEMMA CountedKeeps ==
    ASSUME CourierInv, AllCounted
    PROVE  CourierInv'
<1>1. /\ round.at = "count" /\ round.todo = <<>> /\ round \in Rounds /\ pkgDir' = pkgDir
      /\ round' = [round EXCEPT !.at = "fetch", !.todo = round.list]
  BY DEF AllCounted, CourierInv
<1>2. /\ round' \in Rounds /\ round'.at = "fetch" /\ round'.existing = round.existing
      /\ round'.budget = round.budget
  BY <1>1 DEF Rounds
<1>3. \A f \in PkgFiles : pkgDir[f] > 0 => f \in round.existing
  BY <1>1 DEF CourierInv, Ahead
<1> QED BY <1>1, <1>2, <1>3 DEF CourierInv

LEMMA FetchKeepsLimit ==
    ASSUME CourierInv, FetchPackage
    PROVE  CourierInv'
<1> DEFINE f == Head(round.todo)
           t == Tail(round.todo)
           limit == IF PackageLimit < round.budget THEN PackageLimit ELSE round.budget
<1>1. round.at = "fetch" /\ round \in Rounds /\ round.todo \in Seq(PkgFiles) /\ round.todo # <<>>
  BY DEF CourierInv, FetchPackage, Rounds
<1>2. f \in PkgFiles /\ t \in Seq(PkgFiles)
  BY <1>1, TakeFirst
<1>3. pkgDir \in [PkgFiles -> Nat] /\ round.existing \subseteq PkgFiles /\ round.budget \in Nat
  BY <1>1 DEF CourierInv, Rounds
<1>4. limit \in Nat /\ limit <= round.budget
  BY <1>3, CourierAssumption
<1>5. \A g \in PkgFiles : pkgDir[g] > 0 => g \in round.existing
  BY <1>1 DEF CourierInv
<1>a. /\ \/ round' = [round EXCEPT !.todo = t] /\ pkgDir' = pkgDir
         \/ round' = RoundIdle /\ pkgDir' = pkgDir
         \/ /\ f \notin round.existing
            /\ \/ \E n \in 1..limit :
                    /\ pkgDir' = [pkgDir EXCEPT ![f] = n]
                    /\ round' = [round EXCEPT !.todo = t, !.budget = round.budget - n,
                                              !.existing = round.existing \cup {f}]
               \/ round' = [round EXCEPT !.todo = t, !.budget = round.budget - limit] /\ pkgDir' = pkgDir
  BY <1>1 DEF FetchPackage, Rounds
<1> HIDE DEF f, t, limit
<1>6. CASE round' = [round EXCEPT !.todo = t] /\ pkgDir' = pkgDir
  <2>1. /\ round' \in Rounds /\ round'.at = "fetch" /\ round'.existing = round.existing
        /\ round'.budget = round.budget
    BY <1>1, <1>2, <1>6 DEF Rounds
  <2> QED BY <1>1, <1>6, <2>1 DEF CourierInv
<1>7. CASE round' = RoundIdle /\ pkgDir' = pkgDir
  <2>1. round' \in Rounds /\ round'.at = "idle"
    BY <1>7 DEF RoundIdle, Rounds
  <2> QED BY <1>7, <2>1 DEF CourierInv
<1>8. ASSUME f \notin round.existing, NEW n \in 1..limit, pkgDir' = [pkgDir EXCEPT ![f] = n],
             round' = [round EXCEPT !.todo = t, !.budget = round.budget - n,
                                    !.existing = round.existing \cup {f}]
      PROVE  CourierInv'
  <2> DEFINE b == round.budget - n
             e == round.existing \cup {f}
  <2>0. n \in Nat /\ b \in Nat /\ e \in SUBSET PkgFiles
    BY <1>2, <1>3, <1>4
  <2>1. /\ pkgDir' \in [PkgFiles -> Nat] /\ pkgDir'[f] = n
        /\ \A g \in PkgFiles \ {f} : pkgDir'[g] = pkgDir[g]
    BY <1>2, <1>3, <1>8, <2>0
  <2>2. \A g \in PkgFiles : pkgDir'[g] > 0 => g \in e
    BY <1>2, <1>3, <1>5, <2>1
  <2>c. InboxSum(Charged(pkgDir', e)) = InboxSum(Charged(pkgDir, round.existing)) + n
    <3> DEFINE d == pkgDir'
               x == round.existing
               p == pkgDir
    <3>1. d \in [PkgFiles -> Nat] /\ d[f] = n /\ \A g \in PkgFiles \ {f} : d[g] = p[g]
      BY <2>1
    <3>2. f \notin x /\ f \in PkgFiles /\ n \in Nat /\ p \in [PkgFiles -> Nat]
      BY <1>2, <1>3, <1>8, <2>0
    <3> HIDE DEF d, x, p
    <3>3. InboxSum(Charged(d, x \cup {f})) = InboxSum(Charged(p, x)) + n
      BY <3>1, <3>2, OneMore, SMTT(30)
    <3> QED BY <3>3 DEF d, x, p
  <2>3. Charged(pkgDir', e) = pkgDir'
    BY <2>1, <2>2, AllCharged
  <2>4. round' = [round EXCEPT !.todo = t, !.budget = b, !.existing = e]
    BY <1>8
  <2>5. InboxSum(Charged(pkgDir', e)) + b <= TotalLimit /\ InboxSum(pkgDir') <= TotalLimit
    <3>1. InboxSum(Charged(pkgDir, round.existing)) \in Nat
      BY <1>3, InboxIsNatural, ChargedType
    <3>2. InboxSum(Charged(pkgDir, round.existing)) + round.budget <= TotalLimit
      BY <1>1 DEF CourierInv
    <3>3. \A x, y, z \in Nat : x + y <= TotalLimit /\ z <= y
                                 => (x + z) + (y - z) <= TotalLimit /\ x + z <= TotalLimit
      BY CourierAssumption
    <3>4. n <= round.budget
      BY <1>3, <1>4, <2>0
    <3> QED BY <1>3, <2>0, <2>c, <2>3, <3>1, <3>2, <3>3, <3>4
  <2> HIDE DEF b, e
  <2>6. round' \in Rounds /\ round'.at = "fetch" /\ round'.existing = e /\ round'.budget = b
    BY <1>1, <1>2, <2>0, <2>4 DEF Rounds
  <2> QED BY <2>1, <2>2, <2>5, <2>6 DEF CourierInv
<1>9. CASE round' = [round EXCEPT !.todo = t, !.budget = round.budget - limit] /\ pkgDir' = pkgDir
  <2> DEFINE b == round.budget - limit
  <2>0. b \in Nat /\ b <= round.budget /\ round' = [round EXCEPT !.todo = t, !.budget = b]
    BY <1>3, <1>4, <1>9
  <2> HIDE DEF b
  <2>1. round' \in Rounds /\ round'.at = "fetch" /\ round'.existing = round.existing /\ round'.budget = b
    BY <1>1, <1>2, <2>0 DEF Rounds
  <2>2. InboxSum(Charged(pkgDir, round.existing)) + b <= TotalLimit
    <3>1. InboxSum(Charged(pkgDir, round.existing)) \in Nat
      BY <1>3, InboxIsNatural, ChargedType
    <3>2. InboxSum(Charged(pkgDir, round.existing)) + round.budget <= TotalLimit
      BY <1>1 DEF CourierInv
    <3>3. \A x, y, z \in Nat : x + y <= TotalLimit /\ z <= y => x + z <= TotalLimit
      BY CourierAssumption
    <3> QED BY <1>3, <2>0, <3>1, <3>2, <3>3
  <2> QED BY <1>1, <1>9, <2>1, <2>2 DEF CourierInv
<1> QED BY <1>a, <1>6, <1>7, <1>8, <1>9

LEMMA ListKeeps ==
    ASSUME CourierInv, GetList
    PROVE  CourierInv'
<1>1. PICK l \in CourierLists :
         /\ pkgDir' = [f \in PkgFiles |-> IF f \in Range(l) THEN pkgDir[f] ELSE 0]
         /\ round' = [RoundIdle EXCEPT !.at = "count", !.list = l, !.todo = l, !.budget = TotalLimit]
  BY DEF GetList
<1>2. l \in Seq(PkgFiles) /\ TotalLimit \in Nat
  BY CourierAssumption
<1>3. /\ pkgDir' \in [PkgFiles -> Nat] /\ \A f \in PkgFiles : pkgDir'[f] <= pkgDir[f]
      /\ \A f \in PkgFiles : pkgDir'[f] > 0 => f \in Range(l)
  BY <1>1 DEF CourierInv
<1>4. \A f \in Range(l) : \E i \in 1..Len(l) : l[i] = f
  BY <1>2 DEF Range
<1>5. /\ round' \in Rounds /\ round'.at = "count" /\ round'.todo = l /\ round'.budget = TotalLimit
      /\ round'.existing = {}
  <2>1. RoundIdle \in Rounds /\ RoundIdle.existing = {}
    BY DEF RoundIdle, Rounds
  <2> QED BY <1>1, <1>2, <2>1 DEF Rounds
<1>6. InboxSum(Charged(pkgDir', {})) + TotalLimit <= TotalLimit
  <2> DEFINE z == Charged(pkgDir', {})
  <2>1. z = [f \in PkgFiles |-> 0]
    BY DEF Charged
  <2> HIDE DEF z
  <2>2. InboxSum(z) = 0
    BY <2>1, NothingThere
  <2> QED BY <1>2, <2>2 DEF z
<1> QED BY <1>3, <1>4, <1>5, <1>6, LessFits DEF CourierInv, Ahead

LEMMA CourierKeeps == CourierInv /\ [CourierNext]_courierVars => CourierInv'
<1> SUFFICES ASSUME CourierInv, [CourierNext]_courierVars PROVE CourierInv'
  OBVIOUS
<1>1. CASE RoundEnds
  <2>1. round' \in Rounds /\ round'.at = "idle" /\ pkgDir' = pkgDir
    BY <1>1 DEF RoundEnds, RoundIdle, Rounds
  <2> QED BY <2>1 DEF CourierInv
<1>2. CASE UNCHANGED <<pkgDir, round>>
  BY <1>2 DEF CourierInv, Ahead
<1>3. CASE PrunePackages
  <2>1. /\ round' = round /\ pkgDir' \in [PkgFiles -> Nat]
        /\ \A f \in PkgFiles : pkgDir'[f] <= pkgDir[f]
    BY <1>3 DEF PrunePackages, CourierInv
  <2> QED BY <2>1, RemovalKeeps
<1>4. CASE \E f \in PkgFiles : CoolsDown(f)
  BY <1>2, <1>4 DEF CoolsDown
<1> QED BY <1>1, <1>2, <1>3, <1>4, ListKeeps, CountKeeps, CountedKeeps, FetchKeepsLimit
        DEF CourierNext, courierVars

(* What is charged and what is left of the budget never exceed the limit, and   *)
(* what is not charged yet is still on the list of the round.                    *)
THEOREM CourierInvariant == CourierSpec => []CourierInv
BY CourierInvInit, CourierKeeps, PTL DEF CourierSpec

(* The packages in the inbox are within the total limit at any time, for any    *)
(* files, lists and limits, whatever fails and whatever the poll loop removes.   *)
THEOREM InboxIsLimited == CourierSpec => []InboxKeepsLimit
<1>1. CourierInv => InboxKeepsLimit
  BY DEF CourierInv, InboxKeepsLimit, InboxSum
<1> QED BY CourierInvariant, <1>1, PTL

-----------------------------------------------------------------------------
(* Wheels: what is sealed is sound, for any locks, wheels, headers and     *)
(* limits.                                                                 *)

Words == Seq(STRING)
(* The paths: what is above what.                                              *)
LEMMA UptoType ==
    ASSUME NEW p \in Words, NEW n \in 1..Len(p)
    PROVE  /\ Upto(p, n) \in Words /\ Len(Upto(p, n)) = n /\ Upto(p, n) # <<>>
           /\ \A i \in 1..n : Upto(p, n)[i] = p[i]
BY DEF Upto, Words

LEMMA UptoAll ==
    ASSUME NEW p \in Words, p # <<>>
    PROVE  Upto(p, Len(p)) = p
BY DEF Upto, Words

LEMMA UptoUpto ==
    ASSUME NEW p \in Words, NEW n \in 1..Len(p), NEW m \in 1..n
    PROVE  Upto(Upto(p, n), m) = Upto(p, m)
<1> DEFINE q == Upto(p, n)
<1>1. q \in Words /\ Len(q) = n /\ \A i \in 1..n : q[i] = p[i]
  BY UptoType
<1>2. Len(p) \in Nat /\ m \in 1..Len(p) /\ m \in 1..Len(q)
  BY <1>1 DEF Words
<1> HIDE DEF q
<1>3. /\ Upto(q, m) \in Words /\ Len(Upto(q, m)) = m /\ \A i \in 1..m : Upto(q, m)[i] = q[i]
      /\ Upto(p, m) \in Words /\ Len(Upto(p, m)) = m /\ \A i \in 1..m : Upto(p, m)[i] = p[i]
  BY <1>1, <1>2, UptoType
<1>4. \A i \in 1..m : Upto(q, m)[i] = Upto(p, m)[i]
  BY <1>1, <1>3
<1>5. Upto(q, m) = Upto(p, m)
  BY <1>3, <1>4 DEF Words
<1> QED BY <1>5 DEF q

LEMMA ParentsType ==
    ASSUME NEW p \in Words
    PROVE  /\ \A q \in Parents(p) : q \in Words /\ q # <<>> /\ Parents(q) \subseteq Parents(p)
           /\ \A q \in Parents(p) : Upto(q, 1) = Upto(p, 1) /\ (Proper(p) => Proper(q))
           /\ p \notin Parents(p)
<1>1. ASSUME NEW q \in Parents(p)
      PROVE  /\ q \in Words /\ q # <<>> /\ Parents(q) \subseteq Parents(p) /\ Upto(q, 1) = Upto(p, 1)
             /\ Proper(p) => Proper(q)
             /\ q # p
  <2>1. PICK n \in 1..(Len(p) - 1) : q = Upto(p, n)
    BY DEF Parents
  <2>2. n \in 1..Len(p) /\ Len(p) \in Nat /\ n < Len(p) /\ 1 \in 1..n
    BY DEF Words
  <2>3. q \in Words /\ Len(q) = n /\ q # <<>> /\ \A i \in 1..n : q[i] = p[i]
    BY <2>1, <2>2, UptoType
  <2>4. Parents(q) \subseteq Parents(p)
    <3> SUFFICES ASSUME NEW m \in 1..(n - 1) PROVE Upto(q, m) \in Parents(p)
      BY <2>3 DEF Parents
    <3>1. m \in 1..n /\ m \in 1..(Len(p) - 1)
      BY <2>2
    <3>2. Upto(q, m) = Upto(p, m)
      BY <2>1, <2>2, <3>1, UptoUpto
    <3> QED BY <3>1, <3>2 DEF Parents
  <2>5. Upto(q, 1) = Upto(p, 1)
    BY <2>1, <2>2, UptoUpto
  <2>6. Proper(p) => Proper(q)
    <3>1. DOMAIN q = 1..n /\ DOMAIN p = 1..Len(p) /\ 1..n \subseteq 1..Len(p)
      BY <2>2, <2>3 DEF Words
    <3> QED BY <2>3, <3>1 DEF Proper
  <2> QED BY <2>2, <2>3, <2>4, <2>5, <2>6
<1> QED BY <1>1

LEMMA ReservedName ==
    ASSUME NEW p \in Words, Fold(p) = <<"manifest">>
    PROVE  Fold(Upto(p, 1)) = <<"manifest">>
<1>1. DOMAIN Fold(p) = 1..Len(p) /\ Len(p) \in Nat
  <2>1. DOMAIN p = 1..Len(p) /\ Len(p) \in Nat
    BY DEF Words
  <2>2. DOMAIN Fold(p) = DOMAIN p
    BY Zenon DEF Fold
  <2> QED BY <2>1, <2>2
<1>2. DOMAIN <<"manifest">> = 1..1
  OBVIOUS
<1>3. Len(p) = 1
  BY <1>1, <1>2
<1>4. p # <<>>
  BY <1>3
<1> QED BY <1>3, <1>4, UptoAll

(* Both kinds of names an entry brings are registered as what they are.         *)
LEMMA NamesType ==
    ASSUME NEW p \in Words, NEW dir \in BOOLEAN
    PROVE  /\ DOMAIN Names(p, dir) = Parents(p) \cup {p}
           /\ \A q \in Parents(p) : Names(p, dir)[q] = TRUE
           /\ Names(p, dir)[p] = dir
<1>1. p \notin Parents(p)
  BY ParentsType
<1> QED BY <1>1 DEF Names

LEMMA FoldKeepsApart ==
    ASSUME NEW p \in Words, NEW x \in Parents(p) \cup {p}, NEW y \in Parents(p) \cup {p}, Fold(x) = Fold(y)
    PROVE  x = y
<1>1. \A z \in Words : DOMAIN Fold(z) = 1..Len(z) /\ Len(z) \in Nat
  <2>1. \A z \in Words : DOMAIN z = 1..Len(z) /\ Len(z) \in Nat
    BY DEF Words
  <2>2. \A z \in Words : DOMAIN Fold(z) = DOMAIN z
    BY Zenon DEF Fold
  <2> QED BY <2>1, <2>2
<1>2. \A z \in Parents(p) : z \in Words /\ Len(z) < Len(p) /\ z = Upto(p, Len(z))
  <2> SUFFICES ASSUME NEW z \in Parents(p) PROVE z \in Words /\ Len(z) < Len(p) /\ z = Upto(p, Len(z))
    OBVIOUS
  <2>1. PICK n \in 1..(Len(p) - 1) : z = Upto(p, n)
    BY DEF Parents
  <2>2. n \in 1..Len(p) /\ n < Len(p)
    BY DEF Words
  <2> QED BY <2>1, <2>2, UptoType
<1>3. x \in Words /\ y \in Words
  BY <1>2
<1>4. Len(x) = Len(y)
  <2>1. 1..Len(x) = 1..Len(y) /\ Len(x) \in Nat /\ Len(y) \in Nat
    BY <1>1, <1>3
  <2> QED BY <2>1
<1>5. CASE x = p
  BY <1>1, <1>2, <1>3, <1>4, <1>5
<1>6. CASE y = p
  BY <1>1, <1>2, <1>3, <1>4, <1>6
<1>7. CASE x \in Parents(p) /\ y \in Parents(p)
  BY <1>2, <1>4, <1>7
<1> QED BY <1>5, <1>6, <1>7

-----------------------------------------------------------------------------
FilesOf(s) == {p \in DOMAIN s : s[p] = FALSE}

(* What the extractor has registered: proper names with all their parents, no   *)
(* two that fold to the same, none reserved, and not too many files.            *)
SeenRight(s) ==
    /\ \A p \in DOMAIN s :
          /\ p \in Words /\ Proper(p) /\ s[p] \in BOOLEAN
          /\ Parents(p) \subseteq DOMAIN s /\ \A q \in Parents(p) : s[q] = TRUE
          /\ Fold(Upto(p, 1)) # <<"manifest">>
    /\ \A p, q \in DOMAIN s : Fold(p) = Fold(q) => p = q
SeenInv ==
    /\ SeenRight(seen) /\ IsFiniteSet(FilesOf(seen))
    /\ files = Cardinality(FilesOf(seen)) /\ files <= MaxLockFiles

(* Entries of the wheel that are still to be written: registered, each file once, *)
(* and only the first may have been begun.                                        *)
TodoInv ==
    /\ todo \in Seq(Headers)
    /\ \A i \in 1..Len(todo) : /\ todo[i].path \in DOMAIN seen
                               /\ todo[i].dir = TRUE => seen[todo[i].path] = TRUE
                               /\ todo[i].dir = FALSE => seen[todo[i].path] = FALSE
    /\ \A i, j \in 1..Len(todo) : i # j /\ todo[i].dir = FALSE => todo[i].path # todo[j].path
    /\ \A i \in 1..Len(todo) : todo[i].dir = FALSE /\ (i > 1 \/ wheelAt = "headers")
                                 => todo[i].path \notin DOMAIN tree

(* The tree has what was registered, as what it was registered; the manifest      *)
(* differs from it in the file that is being written.                             *)
BeingWritten(p) == /\ todo # <<>> /\ wheelAt # "headers"
                   /\ p = todo[1].path /\ todo[1].dir = FALSE
TreeInv ==
    /\ DOMAIN manifest = DOMAIN tree /\ DOMAIN tree \subseteq DOMAIN seen
    /\ tree = [p \in DOMAIN tree |-> tree[p]] /\ manifest = [p \in DOMAIN tree |-> manifest[p]]
    /\ \A p \in DOMAIN tree :
          /\ seen[p] = TRUE => tree[p] = Dir
          /\ seen[p] = FALSE => tree[p] \in Nat
          /\ Parents(p) \subseteq DOMAIN tree
          /\ manifest[p] = tree[p] \/ BeingWritten(p)
PlanInv ==
    /\ \A e, f \in lockRead.entries : e.name = f.name => e = f
    /\ wheelAt = "lock" => doneLines = {} /\ todo = <<>>
    /\ wheelAt \in {"headers", "files", "sealed"} =>
          Matched(lockRead.entries, plan) /\ doneLines \subseteq plan
    /\ wheelAt = "sealed" => doneLines = plan
WheelsInv == /\ SeenInv /\ TodoInv /\ TreeInv /\ PlanInv
             /\ lockSum \in Nat /\ lockSum <= MaxLockBytes

LEMMA HeaderType ==
    ASSUME NEW h \in Headers
    PROVE  h.path \in Words /\ h.dir \in BOOLEAN
BY WheelsAssumption DEF Words

LEMMA Registered ==
    ASSUME SeenRight(seen), NEW p \in Words, NEW dir \in BOOLEAN, Registerable(p, dir)
    PROVE  /\ Fold(Upto(p, 1)) # <<"manifest">>
           /\ \A x \in Parents(p) \cup {p}, q \in DOMAIN seen : Fold(x) = Fold(q) => x = q
           /\ \A x \in Parents(p) : x \in DOMAIN seen => seen[x] = TRUE
           /\ p \in DOMAIN seen => seen[p] = TRUE /\ dir = TRUE
<1>1. /\ DOMAIN Names(p, dir) = Parents(p) \cup {p} /\ Names(p, dir)[p] = dir
  BY NamesType
<1>2. /\ Fold(Upto(p, 1)) # <<"manifest">>
      /\ \A x \in Parents(p) \cup {p}, q \in DOMAIN seen :
            Fold(x) = Fold(q) => x = q /\ seen[q] /\ Names(p, dir)[x]
  BY <1>1, Zenon DEF Registerable
<1>3. \A q \in DOMAIN seen : seen[q] \in BOOLEAN
  BY DEF SeenRight
<1>4. \A x \in Parents(p) \cup {p} : x \in DOMAIN seen => seen[x] /\ Names(p, dir)[x]
  BY <1>2, Zenon
<1>5. \A x \in Parents(p) \cup {p} : x \in DOMAIN seen => seen[x] = TRUE
  BY <1>3, <1>4, Zenon
<1>6. p \in DOMAIN seen => dir = TRUE
  BY <1>1, <1>4, Zenon
<1> QED BY <1>2, <1>5, <1>6, Zenon

(* Registering an entry keeps the names right.                                    *)
LEMMA RegisteringKeeps ==
    ASSUME SeenRight(seen), NEW p \in Words, NEW dir \in BOOLEAN, Registerable(p, dir), Proper(p),
           seen' = [x \in DOMAIN seen \cup DOMAIN Names(p, dir) |->
                      IF x \in DOMAIN seen THEN seen[x] ELSE Names(p, dir)[x]]
    PROVE  /\ SeenRight(seen') /\ DOMAIN seen' = DOMAIN seen \cup Parents(p) \cup {p}
           /\ \A x \in DOMAIN seen : seen'[x] = seen[x]
           /\ \A x \in Parents(p) : seen'[x] = TRUE
           /\ seen'[p] = dir
<1>1. /\ DOMAIN Names(p, dir) = Parents(p) \cup {p} /\ Names(p, dir)[p] = dir
      /\ \A q \in Parents(p) : Names(p, dir)[q] = TRUE
  BY NamesType
<1>2. /\ Fold(Upto(p, 1)) # <<"manifest">>
      /\ \A x \in Parents(p) \cup {p}, q \in DOMAIN seen : Fold(x) = Fold(q) => x = q
      /\ \A x \in Parents(p) : x \in DOMAIN seen => seen[x] = TRUE
      /\ p \in DOMAIN seen => seen[p] = TRUE /\ dir = TRUE
  BY Registered
<1> DEFINE new == Names(p, dir)
<1>3. DOMAIN seen' = DOMAIN seen \cup Parents(p) \cup {p}
  BY <1>1
<1> HIDE DEF new
<1>4. \A x \in DOMAIN seen : seen'[x] = seen[x]
  BY Zenon
<1>5. \A x \in Parents(p) : seen'[x] = TRUE
  BY <1>1, <1>2, Zenon
<1>6. seen'[p] = dir
  BY <1>1, <1>2, Zenon
<1>7. \A x \in Parents(p) : /\ x \in Words /\ Proper(x) /\ Parents(x) \subseteq Parents(p)
                            /\ Upto(x, 1) = Upto(p, 1)
  BY ParentsType
<1>8. ASSUME NEW x \in DOMAIN seen'
      PROVE  /\ x \in Words /\ Proper(x) /\ seen'[x] \in BOOLEAN
             /\ Parents(x) \subseteq DOMAIN seen' /\ \A q \in Parents(x) : seen'[q] = TRUE
             /\ Fold(Upto(x, 1)) # <<"manifest">>
  <2>1. CASE x \in DOMAIN seen
    <3>1. /\ x \in Words /\ Proper(x) /\ seen[x] \in BOOLEAN /\ Parents(x) \subseteq DOMAIN seen
          /\ \A q \in Parents(x) : seen[q] = TRUE
          /\ Fold(Upto(x, 1)) # <<"manifest">>
      BY <2>1 DEF SeenRight
    <3>2. seen'[x] = seen[x] /\ \A q \in Parents(x) : seen'[q] = seen[q]
      BY <1>4, <2>1, <3>1
    <3> QED BY <1>3, <3>1, <3>2
  <2>2. CASE x \in Parents(p)
    BY <1>2, <1>3, <1>5, <1>7, <2>2
  <2>3. CASE x = p
    BY <1>2, <1>3, <1>5, <1>6, <2>3
  <2> QED BY <1>3, <2>1, <2>2, <2>3
<1>9. ASSUME NEW x \in DOMAIN seen', NEW y \in DOMAIN seen', Fold(x) = Fold(y) PROVE x = y
  <2>1. CASE x \in DOMAIN seen /\ y \in DOMAIN seen
    BY <1>9, <2>1 DEF SeenRight
  <2>2. CASE x \in Parents(p) \cup {p} /\ y \in DOMAIN seen
    BY <1>2, <1>9, <2>2
  <2>3. CASE y \in Parents(p) \cup {p} /\ x \in DOMAIN seen
    BY <1>2, <1>9, <2>3
  <2>4. CASE x \in Parents(p) \cup {p} /\ y \in Parents(p) \cup {p}
    BY <1>9, <2>4, FoldKeepsApart
  <2> QED BY <1>3, <2>1, <2>2, <2>3, <2>4
<1>10. SeenRight(seen')
  BY <1>8, <1>9 DEF SeenRight
<1> QED BY <1>3, <1>4, <1>5, <1>6, <1>10

LEMMA VerdictOk ==
    ASSUME NEW h \in Headers, HeaderVerdict(h) = "ok"
    PROVE  Proper(h.path) /\ Registerable(h.path, h.dir) /\ (h.dir = FALSE => ~ (files >= MaxLockFiles))
<1>1. h.dir \in BOOLEAN
  BY HeaderType
<1>2. /\ ~ (~h.good \/ ~Proper(h.path) \/ (h.dir /\ h.size > 0))
      /\ ~ (~h.dir /\ (h.size > MaxFileBytes \/ files >= MaxLockFiles))
      /\ Registerable(h.path, h.dir)
  BY DEF HeaderVerdict
<1>3. ~h.dir => ~ (files >= MaxLockFiles)
  BY <1>2, Zenon
<1>4. h.dir = FALSE => ~h.dir
  BY <1>1, Zenon
<1> QED BY <1>2, <1>3, <1>4

(* A refusal leaves everything as it was found.                                 *)
LEMMA RefusedKeeps ==
    ASSUME WheelsInv, wheelAt' \in Refusals, UNCHANGED <<todo, seen, files, lockRead, doneLines, lockSum, tree, manifest>>
    PROVE  WheelsInv'
<1>1. wheelAt' \notin {"lock", "headers", "files", "sealed"}
  BY DEF Refusals
<1>2. SeenInv'
  BY DEF WheelsInv, SeenInv
<1>3. TodoInv'
  BY <1>1 DEF WheelsInv, TodoInv
<1>4. TreeInv'
  BY <1>1 DEF WheelsInv, TreeInv, BeingWritten
<1>5. PlanInv'
  BY <1>1 DEF WheelsInv, PlanInv
<1> QED BY <1>2, <1>3, <1>4, <1>5 DEF WheelsInv

(* The files that are counted.                                                  *)
LEMMA CountingKeeps ==
    ASSUME SeenInv, NEW h \in Headers, HeaderVerdict(h) = "ok",
           seen' = [p \in DOMAIN seen \cup DOMAIN Names(h.path, h.dir) |->
                      IF p \in DOMAIN seen THEN seen[p] ELSE Names(h.path, h.dir)[p]],
           files' = IF h.dir THEN files ELSE files + 1
    PROVE  SeenInv'
<1> DEFINE p == h.path
           d == h.dir
<1>1. p \in Words /\ d \in BOOLEAN /\ Proper(p) /\ Registerable(p, d) /\ (d = FALSE => ~ (files >= MaxLockFiles))
  BY HeaderType, VerdictOk
<1>2. seen' = [x \in DOMAIN seen \cup DOMAIN Names(p, d) |->
                 IF x \in DOMAIN seen THEN seen[x] ELSE Names(p, d)[x]]
  OBVIOUS
<1>3. files' = IF d THEN files ELSE files + 1
  OBVIOUS
<1> HIDE DEF p, d
<1>4. /\ SeenRight(seen') /\ DOMAIN seen' = DOMAIN seen \cup Parents(p) \cup {p}
      /\ \A x \in DOMAIN seen : seen'[x] = seen[x]
      /\ \A x \in Parents(p) : seen'[x] = TRUE
      /\ seen'[p] = d
  BY <1>1, <1>2, RegisteringKeeps DEF SeenInv
<1>5. p \in DOMAIN seen => seen[p] = TRUE /\ d = TRUE
  BY <1>1, Registered DEF SeenInv
<1>6. files \in Nat
  BY FS_CardinalityType DEF SeenInv
<1>7. CASE d = TRUE
  <2>1. FilesOf(seen') = FilesOf(seen)
    BY <1>4, <1>7 DEF FilesOf
  <2>2. files' = files
    BY <1>3, <1>7
  <2> QED BY <1>4, <2>1, <2>2 DEF SeenInv
<1>8. CASE d = FALSE
  <2>1. p \notin DOMAIN seen
    BY <1>5, <1>8
  <2>2. FilesOf(seen') = FilesOf(seen) \cup {p} /\ p \notin FilesOf(seen)
    BY <1>4, <1>8, <2>1 DEF FilesOf
  <2>3. files' = files + 1
    BY <1>3, <1>8
  <2>4. IsFiniteSet(FilesOf(seen')) /\ Cardinality(FilesOf(seen')) = files + 1
    <3> DEFINE S == FilesOf(seen)
    <3>1. IsFiniteSet(S) /\ files = Cardinality(S)
      BY DEF SeenInv
    <3>2. FilesOf(seen') = S \cup {p} /\ p \notin S
      BY <2>2
    <3> HIDE DEF S
    <3>3. IsFiniteSet(S \cup {p}) /\ Cardinality(S \cup {p}) = files + 1
      BY <3>1, <3>2, FS_AddElement
    <3> QED BY <3>2, <3>3, Zenon
  <2>5. files + 1 <= MaxLockFiles
    BY <1>1, <1>6, <1>8, WheelsAssumption
  <2> QED BY <1>4, <2>3, <2>4, <2>5 DEF SeenInv
<1> QED BY <1>1, <1>7, <1>8

LEMMA HeaderKeeps ==
    ASSUME WheelsInv, ReadHeader
    PROVE  WheelsInv'
<1>1. PICK h \in Headers :
         LET v == HeaderVerdict(h) IN
         IF v = "ok" /\ Len(todo) < MaxEntries
         THEN /\ todo' = Append(todo, h)
              /\ seen' = [p \in DOMAIN seen \cup DOMAIN Names(h.path, h.dir) |->
                            IF p \in DOMAIN seen THEN seen[p] ELSE Names(h.path, h.dir)[p]]
              /\ files' = IF h.dir THEN files ELSE files + 1
              /\ UNCHANGED <<wheelAt, lockRead, plan>>
         ELSE /\ WheelFails(IF v = "ok" THEN "libs_too_large" ELSE v)
              /\ UNCHANGED <<todo, seen, files>>
  BY DEF ReadHeader
<1>2. wheelAt = "headers" /\ UNCHANGED <<doneLines, wheelSum, lockSum, tree, manifest>>
  BY DEF ReadHeader
<1>3. CASE HeaderVerdict(h) = "ok" /\ Len(todo) < MaxEntries
  <2>1. /\ todo' = Append(todo, h) /\ UNCHANGED <<wheelAt, lockRead, plan>>
        /\ files' = IF h.dir THEN files ELSE files + 1
        /\ seen' = [p \in DOMAIN seen \cup DOMAIN Names(h.path, h.dir) |->
                      IF p \in DOMAIN seen THEN seen[p] ELSE Names(h.path, h.dir)[p]]
    BY <1>1, <1>3
  <2>2. SeenInv'
    BY <1>3, <2>1, CountingKeeps DEF WheelsInv
  <2> DEFINE p == h.path
             d == h.dir
  <2>3. p \in Words /\ d \in BOOLEAN /\ Proper(p) /\ Registerable(p, d)
    BY <1>3, HeaderType, VerdictOk
  <2>4. seen' = [x \in DOMAIN seen \cup DOMAIN Names(p, d) |->
                   IF x \in DOMAIN seen THEN seen[x] ELSE Names(p, d)[x]]
    BY <2>1
  <2>a. h.path = p /\ h.dir = d
    OBVIOUS
  <2> HIDE DEF p, d
  <2>5. /\ DOMAIN seen' = DOMAIN seen \cup Parents(p) \cup {p}
        /\ \A x \in DOMAIN seen : seen'[x] = seen[x]
        /\ seen'[p] = d
    BY <2>3, <2>4, RegisteringKeeps DEF WheelsInv, SeenInv
  <2>6. p \in DOMAIN seen => seen[p] = TRUE /\ d = TRUE
    BY <2>3, Registered DEF WheelsInv, SeenInv
  <2>7. /\ todo \in Seq(Headers) /\ Len(todo) \in Nat
        /\ todo' \in Seq(Headers) /\ Len(todo') = Len(todo) + 1 /\ todo'[Len(todo) + 1] = h
        /\ \A i \in 1..Len(todo) : todo'[i] = todo[i]
    BY <2>1 DEF WheelsInv, TodoInv
  <2>8. TodoInv'
    <3> DEFINE Yes == TRUE
               No == FALSE
    <3>1. \A i \in 1..Len(todo') : i \in 1..Len(todo) \/ i = Len(todo) + 1
      BY <2>7
    <3>2. \A i \in 1..Len(todo) : /\ todo[i].path \in DOMAIN seen
                                  /\ todo[i].dir = Yes => seen[todo[i].path] = Yes
                                  /\ todo[i].dir = No => seen[todo[i].path] = No
                                  /\ todo[i].dir = No => todo[i].path \notin DOMAIN tree
      BY <1>2, Zenon DEF WheelsInv, TodoInv
    <3>3. \A i, j \in 1..Len(todo) : i # j /\ todo[i].dir = No => todo[i].path # todo[j].path
      BY DEF WheelsInv, TodoInv
    <3>a. Yes # No
      BY Zenon
    <3>b. p \in DOMAIN seen => seen[p] = Yes /\ d = Yes
      BY <2>6
    <3> HIDE DEF Yes, No
    <3>4. ASSUME NEW i \in 1..Len(todo')
          PROVE  /\ todo'[i].path \in DOMAIN seen'
                 /\ todo'[i].dir = Yes => seen'[todo'[i].path] = Yes
                 /\ todo'[i].dir = No => seen'[todo'[i].path] = No
      <4>1. CASE i \in 1..Len(todo)
        BY <2>5, <2>7, <3>2, <4>1
      <4>2. CASE i = Len(todo) + 1
        BY <2>5, <2>7, <2>a, <4>2
      <4> QED BY <3>1, <4>1, <4>2
    <3>5. ASSUME NEW i \in 1..Len(todo), todo[i].dir = No PROVE todo[i].path # p
      <4>1. seen[todo[i].path] = No
        BY <3>2, <3>5
      <4>2. todo[i].path \in DOMAIN seen
        BY <3>2, <3>5
      <4> QED BY <3>a, <3>b, <4>1, <4>2
    <3>6. ASSUME d = No, NEW i \in 1..Len(todo) PROVE todo[i].path # p
      BY <3>2, <3>6, <3>a, <3>b
    <3>7. \A i, j \in 1..Len(todo') : i # j /\ todo'[i].dir = No => todo'[i].path # todo'[j].path
      <4> SUFFICES ASSUME NEW i \in 1..Len(todo'), NEW j \in 1..Len(todo'), i # j, todo'[i].dir = No
                   PROVE  todo'[i].path # todo'[j].path
        OBVIOUS
      <4>1. CASE i \in 1..Len(todo) /\ j \in 1..Len(todo)
        BY <2>7, <3>3, <4>1
      <4>2. CASE i \in 1..Len(todo) /\ j = Len(todo) + 1
        BY <2>7, <2>a, <3>5, <4>2
      <4>3. CASE i = Len(todo) + 1 /\ j \in 1..Len(todo)
        BY <2>7, <2>a, <3>6, <4>3
      <4> QED BY <3>1, <4>1, <4>2, <4>3
    <3>8. ASSUME NEW i \in 1..Len(todo'), todo'[i].dir = No PROVE todo'[i].path \notin DOMAIN tree
      <4>1. DOMAIN tree \subseteq DOMAIN seen
        BY DEF WheelsInv, TreeInv
      <4>2. d = No => p \notin DOMAIN tree
        BY <3>a, <3>b, <4>1
      <4>3. CASE i \in 1..Len(todo)
        BY <2>7, <3>2, <3>8, <4>3
      <4>4. CASE i = Len(todo) + 1
        BY <2>7, <2>a, <3>8, <4>2, <4>4
      <4> QED BY <3>1, <4>3, <4>4
    <3> QED BY <1>2, <2>1, <2>7, <3>4, <3>7, <3>8, Zenon DEF TodoInv, Yes, No
  <2>9. TreeInv'
    <3>1. UNCHANGED <<tree, manifest, wheelAt>>
      BY <1>2, <2>1
    <3>2. \A x \in DOMAIN tree : x \in DOMAIN seen /\ seen'[x] = seen[x]
      BY <2>5 DEF WheelsInv, TreeInv
    <3>3. \A x \in DOMAIN tree : manifest[x] = tree[x]
      BY <1>2 DEF WheelsInv, TreeInv, BeingWritten
    <3> QED BY <2>5, <3>1, <3>2, <3>3 DEF WheelsInv, TreeInv
  <2>10. PlanInv'
    BY <1>2, <2>1 DEF WheelsInv, PlanInv
  <2> QED BY <1>2, <2>2, <2>8, <2>9, <2>10 DEF WheelsInv
<1>4. CASE ~ (HeaderVerdict(h) = "ok" /\ Len(todo) < MaxEntries)
  <2>1. /\ UNCHANGED <<todo, seen, files, lockRead, plan>>
        /\ wheelAt' \in Refusals
    BY <1>1, <1>4 DEF WheelFails, HeaderVerdict, Refusals
  <2> QED BY <1>2, <2>1, RefusedKeeps
<1> QED BY <1>3, <1>4

(* A line of the lock adds an entry only under a new name.                      *)
LEMMA LineKeeps ==
    ASSUME WheelsInv, ReadLine
    PROVE  WheelsInv'
<1>1. PICK l \in LockLines : lockRead' = Line(lockRead, l)
  BY DEF ReadLine
<1>2. wheelAt = "lock" /\ UNCHANGED <<wheelAt, plan, doneLines, todo, seen, files, wheelSum, lockSum, tree, manifest>>
  BY DEF ReadLine
<1>3. \E e : \/ lockRead'.entries = lockRead.entries
            \/ /\ lockRead'.entries = lockRead.entries \cup {e}
               /\ \A f \in lockRead.entries : f.name # e.name
  <2> DEFINE cur == IF l.says = <<>> THEN lockRead.cur ELSE Append(lockRead.cur, l.says)
             flush == ~l.cont /\ cur # <<>>
             e == [name |-> cur[1][2], version |-> cur[1][3]]
             fresh == \A f \in lockRead.entries : f.name # e.name
             good == EntryOk(cur) /\ fresh
             all == IF flush /\ good THEN lockRead.entries \cup {e} ELSE lockRead.entries
  <2>1. lockRead'.entries = all
    BY <1>1 DEF Line
  <2>2. good => fresh
    OBVIOUS
  <2> HIDE DEF cur, flush, good, e
  <2> QED BY <2>1, <2>2
<1>4. \A e, f \in lockRead'.entries : e.name = f.name => e = f
  <2>1. \A e, f \in lockRead.entries : e.name = f.name => e = f
    BY DEF WheelsInv, PlanInv
  <2> QED BY <1>3, <2>1
<1>5. SeenInv' /\ TodoInv'
  BY <1>2 DEF WheelsInv, SeenInv, TodoInv
<1>6. TreeInv'
  BY <1>2 DEF WheelsInv, TreeInv, BeingWritten
<1>7. PlanInv'
  BY <1>2, <1>4 DEF WheelsInv, PlanInv
<1> QED BY <1>2, <1>5, <1>6, <1>7 DEF WheelsInv

LEMMA PlanKeeps ==
    ASSUME WheelsInv, MakePlan
    PROVE  WheelsInv'
<1>1. PICK ws \in SUBSET WheelFiles :
         /\ wheelAt' = NewPlan(ParseLock(lockRead), ws)
         /\ plan' = IF NewPlan(ParseLock(lockRead), ws) = "headers" THEN ws ELSE {}
  BY DEF MakePlan
<1>2. wheelAt = "lock" /\ UNCHANGED <<lockRead, doneLines, todo, seen, files, wheelSum, lockSum, tree, manifest>>
  BY DEF MakePlan
<1>3. wheelAt' \in Refusals \cup {"headers"}
  BY <1>1 DEF NewPlan, Refusals
<1>4. CASE wheelAt' \in Refusals
  BY <1>2, <1>4, RefusedKeeps
<1>5. CASE wheelAt' = "headers"
  <2>1. ParseLock(lockRead) # {} /\ Matched(ParseLock(lockRead), ws)
    BY <1>1, <1>5 DEF NewPlan
  <2>2. Matched(lockRead.entries, plan')
    BY <1>1, <1>5, <2>1 DEF ParseLock
  <2>3. doneLines = {} /\ todo = <<>>
    BY <1>2 DEF WheelsInv, PlanInv
  <2>4. SeenInv'
    BY <1>2 DEF WheelsInv, SeenInv
  <2>5. Len(todo) = 0
    BY <2>3
  <2>6. TodoInv'
    BY <1>2, <2>5 DEF WheelsInv, TodoInv
  <2>7. TreeInv'
    BY <1>2, <2>3 DEF WheelsInv, TreeInv, BeingWritten
  <2>8. PlanInv'
    BY <1>2, <1>5, <2>2, <2>3 DEF WheelsInv, PlanInv
  <2> QED BY <1>2, <2>4, <2>6, <2>7, <2>8 DEF WheelsInv
<1> QED BY <1>3, <1>4, <1>5

LEMMA HeadersDoneKeeps ==
    ASSUME WheelsInv, HeadersDone
    PROVE  WheelsInv'
<1>1. SeenInv'
  BY DEF WheelsInv, SeenInv, HeadersDone
<1>2. TodoInv'
  BY DEF WheelsInv, TodoInv, HeadersDone
<1>3. TreeInv'
  BY DEF WheelsInv, TreeInv, BeingWritten, HeadersDone
<1>4. PlanInv'
  BY DEF WheelsInv, PlanInv, HeadersDone
<1> QED BY <1>1, <1>2, <1>3, <1>4 DEF WheelsInv, HeadersDone

LEMMA WheelDoneKeeps ==
    ASSUME WheelsInv, WheelDone
    PROVE  WheelsInv'
<1>1. /\ wheelAt = "files" /\ todo = <<>>
      /\ UNCHANGED <<lockRead, plan, todo, seen, files, wheelSum, lockSum, tree, manifest>>
  BY DEF WheelDone
<1>2. PICK w \in plan \ doneLines : doneLines' = doneLines \cup {w}
  BY DEF WheelDone
<1>3. wheelAt' = IF doneLines' # plan THEN "headers" ELSE IF VerifyDir THEN "sealed" ELSE "libs_invalid"
  BY DEF WheelDone
<1>4. SeenInv'
  BY <1>1 DEF WheelsInv, SeenInv
<1>5. Len(todo) = 0
  BY <1>1
<1>6. TodoInv'
  BY <1>1, <1>5 DEF WheelsInv, TodoInv
<1>7. TreeInv'
  BY <1>1 DEF WheelsInv, TreeInv, BeingWritten
<1>8. PlanInv'
  BY <1>1, <1>2, <1>3 DEF WheelsInv, PlanInv
<1> QED BY <1>1, <1>4, <1>6, <1>7, <1>8 DEF WheelsInv

LEMMA FreshStart ==
    ASSUME wheelAt = "lock", lockRead = NothingRead, doneLines = {}, todo = <<>>, seen = <<>>,
           files = 0, lockSum = 0, tree = <<>>, manifest = <<>>
    PROVE  WheelsInv
<1>1. DOMAIN seen = {} /\ DOMAIN tree = {} /\ Len(todo) = 0 /\ todo \in Seq(Headers)
  OBVIOUS
<1>2. FilesOf(seen) = {}
  BY <1>1 DEF FilesOf
<1>3. SeenInv
  BY <1>1, <1>2, FS_EmptySet, WheelsAssumption DEF SeenInv, SeenRight
<1>4. TodoInv
  BY <1>1 DEF TodoInv
<1>5. TreeInv
  BY <1>1 DEF TreeInv
<1>6. PlanInv
  BY DEF PlanInv, NothingRead
<1> QED BY <1>3, <1>4, <1>5, <1>6, WheelsAssumption DEF WheelsInv

(* The first entry of the wheel, as the next three lemmas need it.              *)
LEMMA FirstEntry ==
    ASSUME WheelsInv, todo # <<>>
    PROVE  /\ todo[1] \in Headers /\ Head(todo) = todo[1] /\ 1 \in 1..Len(todo) /\ Len(todo) \in Nat
           /\ todo[1].path \in Words /\ todo[1].path \in DOMAIN seen /\ todo[1].dir \in BOOLEAN
           /\ Parents(todo[1].path) \subseteq DOMAIN seen
           /\ \A q \in Parents(todo[1].path) : seen[q] = TRUE /\ Parents(q) \subseteq Parents(todo[1].path)
           /\ todo[1].path \notin Parents(todo[1].path)
           /\ todo[1].dir = TRUE => seen[todo[1].path] = TRUE
           /\ todo[1].dir = FALSE => seen[todo[1].path] = FALSE
<1>1. todo \in Seq(Headers) /\ Len(todo) \in Nat /\ 1 \in 1..Len(todo) /\ Head(todo) = todo[1] /\ todo[1] \in Headers
  BY DEF WheelsInv, TodoInv
<1>2. /\ todo[1].path \in DOMAIN seen
      /\ todo[1].dir = TRUE => seen[todo[1].path] = TRUE
      /\ todo[1].dir = FALSE => seen[todo[1].path] = FALSE
  BY <1>1, Zenon DEF WheelsInv, TodoInv
<1>3. todo[1].path \in Words /\ todo[1].dir \in BOOLEAN
  BY <1>1, HeaderType
<1>4. /\ Parents(todo[1].path) \subseteq DOMAIN seen
      /\ \A q \in Parents(todo[1].path) : seen[q] = TRUE
  BY <1>2 DEF WheelsInv, SeenInv, SeenRight
<1>5. /\ \A q \in Parents(todo[1].path) : Parents(q) \subseteq Parents(todo[1].path)
      /\ todo[1].path \notin Parents(todo[1].path)
  BY <1>3, ParentsType
<1> QED BY <1>1, <1>2, <1>3, <1>4, <1>5

(* Going on to the next entry: no later file is in the tree yet.                *)
LEMMA NextEntry ==
    ASSUME WheelsInv, todo # <<>>, todo' = Tail(todo), UNCHANGED seen,
           \A i \in 1..Len(todo) : i > 1 /\ todo[i].dir = FALSE => todo[i].path \notin DOMAIN tree'
    PROVE  TodoInv'
<1>1. todo \in Seq(Headers) /\ Len(todo) \in Nat /\ Len(todo) > 0
  BY DEF WheelsInv, TodoInv
<1>2. /\ todo' \in Seq(Headers) /\ Len(todo') = Len(todo) - 1
      /\ \A i \in 1..Len(todo') : todo'[i] = todo[i + 1]
  BY <1>1
<1>3. \A i \in 1..Len(todo') : i + 1 \in 1..Len(todo) /\ i + 1 > 1
  BY <1>1, <1>2
<1>4. \A i, j \in 1..Len(todo') : i # j => i + 1 # j + 1
  BY <1>1, <1>2
<1>5. ASSUME NEW i \in 1..Len(todo')
      PROVE  /\ todo'[i].path \in DOMAIN seen'
             /\ todo'[i].dir = TRUE => seen'[todo'[i].path] = TRUE
             /\ todo'[i].dir = FALSE => seen'[todo'[i].path] = FALSE
             /\ todo'[i].dir = FALSE => todo'[i].path \notin DOMAIN tree'
             /\ \A j \in 1..Len(todo') : i # j /\ todo'[i].dir = FALSE => todo'[i].path # todo'[j].path
  <2> DEFINE k == i + 1
  <2>1. k \in 1..Len(todo) /\ k > 1 /\ todo'[i] = todo[k]
    BY <1>2, <1>3
  <2> HIDE DEF k
  <2>2. /\ todo[k].path \in DOMAIN seen
        /\ todo[k].dir = TRUE => seen[todo[k].path] = TRUE
        /\ todo[k].dir = FALSE => seen[todo[k].path] = FALSE
    BY <2>1, Zenon DEF WheelsInv, TodoInv
  <2>3. todo[k].dir = FALSE => todo[k].path \notin DOMAIN tree'
    BY <2>1, Zenon
  <2>4. \A j \in 1..Len(todo) : k # j /\ todo[k].dir = FALSE => todo[k].path # todo[j].path
    BY <2>1, Zenon DEF WheelsInv, TodoInv
  <2>5. \A j \in 1..Len(todo') : i # j => j + 1 \in 1..Len(todo) /\ k # j + 1 /\ todo'[j] = todo[j + 1]
    BY <1>2, <1>3, <1>4 DEF k
  <2>6. \A j \in 1..Len(todo') : i # j /\ todo[k].dir = FALSE => todo[k].path # todo'[j].path
    BY <2>4, <2>5
  <2> QED BY <2>1, <2>2, <2>3, <2>6, Zenon
<1> QED BY <1>2, <1>5, Zenon DEF TodoInv

LEMMA CreateKeeps ==
    ASSUME WheelsInv, todo # <<>>, wheelAt = "files",
           todo[1].path \notin DOMAIN tree \/ todo[1].dir = TRUE,
           tree' = OnDisk(todo[1]), manifest' = Made(todo[1]),
           todo' = IF todo[1].dir THEN Tail(todo) ELSE todo,
           UNCHANGED <<wheelAt, lockRead, plan, wheelSum, lockSum, doneLines, seen, files>>
    PROVE  WheelsInv'
<1> DEFINE p == todo[1].path
           d == todo[1].dir
           new == Parents(p) \cup {p}
           val == IF d THEN Dir ELSE 0
<1>1. /\ p \in DOMAIN seen /\ d \in BOOLEAN /\ Parents(p) \subseteq DOMAIN seen /\ p \notin Parents(p)
      /\ \A q \in Parents(p) : seen[q] = TRUE /\ Parents(q) \subseteq Parents(p)
      /\ d = TRUE => seen[p] = TRUE
      /\ d = FALSE => seen[p] = FALSE
      /\ Len(todo) \in Nat /\ 1 \in 1..Len(todo)
  BY FirstEntry
<1>2. DOMAIN manifest = DOMAIN tree /\ DOMAIN tree \subseteq DOMAIN seen
  BY DEF WheelsInv, TreeInv
<1>3. /\ DOMAIN tree' = DOMAIN tree \cup new /\ DOMAIN manifest' = DOMAIN tree \cup new
      /\ tree' = [q \in DOMAIN tree' |-> tree'[q]] /\ manifest' = [q \in DOMAIN tree' |-> manifest'[q]]
      /\ \A q \in DOMAIN tree : tree'[q] = tree[q] /\ manifest'[q] = manifest[q]
      /\ \A q \in Parents(p) : q \notin DOMAIN tree => tree'[q] = Dir /\ manifest'[q] = Dir
      /\ p \notin DOMAIN tree => tree'[p] = val /\ manifest'[p] = val
  BY <1>1, <1>2 DEF OnDisk, Made
<1>4. d = TRUE \/ d = FALSE
  BY <1>1
<1>5. \A q \in DOMAIN tree : manifest[q] = tree[q]
  <2>1. ASSUME NEW q \in DOMAIN tree, BeingWritten(q) PROVE FALSE
    <3>1. q = p /\ d = FALSE
      BY <2>1, Zenon DEF BeingWritten
    <3>2. TRUE # FALSE
      BY Zenon
    <3> QED BY <2>1, <3>1, <3>2
  <2> QED BY <2>1 DEF WheelsInv, TreeInv
<1>6. val = IF d = TRUE THEN Dir ELSE 0
  BY <1>4
<1>7. TRUE # FALSE
  BY Zenon
<1>8. todo' = IF d = TRUE THEN Tail(todo) ELSE todo
  BY <1>4
<1>9. TreeInv'
  <2>1. ASSUME NEW q \in DOMAIN tree'
        PROVE  /\ seen[q] = TRUE => tree'[q] = Dir
               /\ seen[q] = FALSE => tree'[q] \in Nat
               /\ Parents(q) \subseteq DOMAIN tree'
               /\ manifest'[q] = tree'[q]
    <3>1. CASE q \in DOMAIN tree
      <4>1. /\ seen[q] = TRUE => tree[q] = Dir
            /\ seen[q] = FALSE => tree[q] \in Nat
            /\ Parents(q) \subseteq DOMAIN tree
        BY <3>1, Zenon DEF WheelsInv, TreeInv
      <4> QED BY <1>3, <1>5, <3>1, <4>1
    <3>2. CASE q \in Parents(p) /\ q \notin DOMAIN tree
      BY <1>1, <1>3, <1>7, <3>2
    <3>3. CASE q = p /\ q \notin DOMAIN tree
      BY <1>1, <1>3, <1>4, <1>6, <1>7, <3>3
    <3> QED BY <1>3, <2>1, <3>1, <3>2, <3>3
  <2>2. DOMAIN tree' \subseteq DOMAIN seen /\ DOMAIN manifest' = DOMAIN tree'
    BY <1>1, <1>2, <1>3
  <2> QED BY <1>3, <2>1, <2>2, Zenon DEF TreeInv
<1>10. ASSUME NEW i \in 1..Len(todo), i > 1, todo[i].dir = FALSE PROVE todo[i].path \notin DOMAIN tree'
  <2>1. todo[i].path \notin DOMAIN tree /\ seen[todo[i].path] = FALSE
    BY <1>10, Zenon DEF WheelsInv, TodoInv
  <2>2. i # 1
    BY <1>10
  <2>3. todo[i].path # p
    BY <1>1, <1>10, <2>2, Zenon DEF WheelsInv, TodoInv
  <2>4. todo[i].path \notin Parents(p)
    BY <1>1, <1>7, <2>1
  <2> QED BY <1>3, <2>1, <2>3, <2>4
<1>11. TodoInv'
  <2>1. CASE d = TRUE
    <3>1. todo' = Tail(todo)
      BY <1>8, <2>1
    <3> QED BY <1>10, <3>1, NextEntry
  <2>2. CASE d = FALSE
    <3>1. todo' = todo
      BY <1>7, <1>8, <2>2
    <3>2. \A i \in 1..Len(todo) : todo[i].dir = FALSE /\ (i > 1 \/ wheelAt' = "headers")
                                    => todo[i].path \notin DOMAIN tree'
      <4>1. wheelAt' # "headers"
        OBVIOUS
      <4> QED BY <1>10, <4>1, Zenon
    <3>3. seen' = seen
      OBVIOUS
    <3>4. todo \in Seq(Headers)
      BY DEF WheelsInv, TodoInv
    <3>5. \A i \in 1..Len(todo) : /\ todo[i].path \in DOMAIN seen
                                  /\ todo[i].dir = TRUE => seen[todo[i].path] = TRUE
                                  /\ todo[i].dir = FALSE => seen[todo[i].path] = FALSE
      BY Zenon DEF WheelsInv, TodoInv
    <3>6. \A i, j \in 1..Len(todo) : i # j /\ todo[i].dir = FALSE => todo[i].path # todo[j].path
      BY Zenon DEF WheelsInv, TodoInv
    <3> QED BY <3>1, <3>2, <3>3, <3>4, <3>5, <3>6 DEF TodoInv
  <2> QED BY <1>4, <2>1, <2>2
<1>12. SeenInv' /\ PlanInv'
  BY DEF WheelsInv, SeenInv, PlanInv
<1> QED BY <1>9, <1>11, <1>12 DEF WheelsInv

LEMMA ChunkKeeps ==
    ASSUME WheelsInv, todo # <<>>, wheelAt = "files", todo[1].path \in DOMAIN tree, todo[1].dir = FALSE,
           ~TooMuch(tree[todo[1].path] + 1), tree' = [tree EXCEPT ![todo[1].path] = @ + 1], lockSum' = lockSum + 1,
           UNCHANGED <<wheelAt, lockRead, plan, doneLines, seen, files, todo, manifest>>
    PROVE  WheelsInv'
<1> DEFINE p == todo[1].path
<1>1. p \in DOMAIN seen /\ seen[p] = FALSE
  BY FirstEntry, Zenon
<1>2. tree[p] \in Nat
  BY <1>1, Zenon DEF WheelsInv, TreeInv
<1>3. /\ DOMAIN tree' = DOMAIN tree /\ tree' = [q \in DOMAIN tree' |-> tree'[q]]
      /\ tree'[p] \in Nat /\ \A q \in DOMAIN tree : q # p => tree'[q] = tree[q]
  <2> DEFINE up == tree[p] + 1
  <2>1. tree' = [tree EXCEPT ![p] = up] /\ p \in DOMAIN tree
    OBVIOUS
  <2>2. up \in Nat
    BY <1>2
  <2> HIDE DEF up, p
  <2>3. DOMAIN tree' = DOMAIN tree /\ tree'[p] = up /\ \A q \in DOMAIN tree : q # p => tree'[q] = tree[q]
    BY <2>1
  <2>4. tree' = [q \in DOMAIN tree |-> IF q = p THEN up ELSE tree[q]]
    BY <2>1
  <2>5. tree' = [q \in DOMAIN tree' |-> tree'[q]]
    BY <2>3, <2>4
  <2> QED BY <2>2, <2>3, <2>5 DEF p
<1>4. BeingWritten(p)'
  BY Zenon DEF BeingWritten
<1>5. TRUE # FALSE
  BY Zenon
<1>6. ASSUME NEW q \in DOMAIN tree'
      PROVE  /\ seen[q] = TRUE => tree'[q] = Dir
             /\ seen[q] = FALSE => tree'[q] \in Nat
             /\ Parents(q) \subseteq DOMAIN tree'
             /\ manifest[q] = tree'[q] \/ BeingWritten(q)'
  <2>1. /\ seen[q] = TRUE => tree[q] = Dir
        /\ seen[q] = FALSE => tree[q] \in Nat
        /\ Parents(q) \subseteq DOMAIN tree
        /\ manifest[q] = tree[q] \/ BeingWritten(q)
    BY <1>3, Zenon DEF WheelsInv, TreeInv
  <2>2. CASE q = p
    BY <1>1, <1>3, <1>4, <1>5, <2>1, <2>2
  <2>3. CASE q # p
    <3>1. tree'[q] = tree[q]
      BY <1>3, <2>3
    <3>2. BeingWritten(q) => BeingWritten(q)'
      BY Zenon DEF BeingWritten
    <3> QED BY <1>3, <2>1, <3>1, <3>2, Zenon
  <2> QED BY <2>2, <2>3
<1>7. TreeInv'
  <2>1. DOMAIN manifest = DOMAIN tree' /\ DOMAIN tree' \subseteq DOMAIN seen /\ manifest = [q \in DOMAIN tree' |-> manifest[q]]
    BY <1>3 DEF WheelsInv, TreeInv
  <2> QED BY <1>3, <1>6, <2>1, Zenon DEF TreeInv
<1>8. TodoInv'
  <2>1. DOMAIN tree' = DOMAIN tree /\ todo' = todo /\ seen' = seen /\ wheelAt' = wheelAt
    BY <1>3
  <2> QED BY <2>1, Zenon DEF WheelsInv, TodoInv
<1>9. SeenInv' /\ PlanInv'
  BY DEF WheelsInv, SeenInv, PlanInv
<1>10. lockSum' \in Nat /\ lockSum' <= MaxLockBytes
  BY WheelsAssumption DEF WheelsInv, TooMuch
<1> QED BY <1>7, <1>8, <1>9, <1>10 DEF WheelsInv

LEMMA EndKeeps ==
    ASSUME WheelsInv, todo # <<>>, wheelAt = "files", todo[1].path \in DOMAIN tree, todo[1].dir = FALSE,
           manifest' = [manifest EXCEPT ![todo[1].path] = tree[todo[1].path]], todo' = Tail(todo),
           UNCHANGED <<wheelAt, lockRead, plan, doneLines, seen, files, tree, lockSum>>
    PROVE  WheelsInv'
<1> DEFINE p == todo[1].path
<1>1. DOMAIN manifest = DOMAIN tree /\ DOMAIN tree \subseteq DOMAIN seen
  BY DEF WheelsInv, TreeInv
<1>2. /\ DOMAIN manifest' = DOMAIN tree /\ manifest' = [q \in DOMAIN tree |-> manifest'[q]]
      /\ manifest'[p] = tree[p] /\ \A q \in DOMAIN tree : q # p => manifest'[q] = manifest[q]
  BY <1>1
<1>3. \A q \in DOMAIN tree : manifest'[q] = tree[q]
  <2>1. \A q \in DOMAIN tree : q # p => manifest[q] = tree[q]
    BY DEF WheelsInv, TreeInv, BeingWritten
  <2> QED BY <1>2, <2>1
<1>4. TreeInv'
  <2>1. tree' = tree /\ seen' = seen
    OBVIOUS
  <2>2. \A q \in DOMAIN tree : /\ seen[q] = TRUE => tree[q] = Dir
                               /\ seen[q] = FALSE => tree[q] \in Nat
                               /\ Parents(q) \subseteq DOMAIN tree
    BY Zenon DEF WheelsInv, TreeInv
  <2>3. tree = [q \in DOMAIN tree |-> tree[q]]
    BY DEF WheelsInv, TreeInv
  <2>4. /\ DOMAIN manifest' = DOMAIN tree' /\ DOMAIN tree' \subseteq DOMAIN seen'
        /\ tree' = [q \in DOMAIN tree' |-> tree'[q]] /\ manifest' = [q \in DOMAIN tree' |-> manifest'[q]]
    BY <1>1, <1>2, <2>1, <2>3
  <2>5. \A q \in DOMAIN tree' : manifest'[q] = tree'[q]
    BY <1>3, <2>1
  <2>6. \A q \in DOMAIN tree' : /\ seen'[q] = TRUE => tree'[q] = Dir
                                /\ seen'[q] = FALSE => tree'[q] \in Nat
                                /\ Parents(q) \subseteq DOMAIN tree'
    BY <2>1, <2>2
  <2>7. \A q \in DOMAIN tree' : /\ seen'[q] = TRUE => tree'[q] = Dir
                                /\ seen'[q] = FALSE => tree'[q] \in Nat
                                /\ Parents(q) \subseteq DOMAIN tree'
                                /\ manifest'[q] = tree'[q]
    BY <2>5, <2>6, Zenon
  <2> QED BY <2>4, <2>7, Zenon DEF TreeInv
<1>5. \A i \in 1..Len(todo) : i > 1 /\ todo[i].dir = FALSE => todo[i].path \notin DOMAIN tree'
  BY Zenon DEF WheelsInv, TodoInv
<1>6. TodoInv'
  BY <1>5, NextEntry
<1>7. SeenInv'
  BY DEF WheelsInv, SeenInv
<1>8. PlanInv'
  BY DEF WheelsInv, PlanInv
<1> QED BY <1>4, <1>6, <1>7, <1>8 DEF WheelsInv

LEMMA WriteKeeps ==
    ASSUME WheelsInv, WriteFile
    PROVE  WheelsInv'
<1>1. /\ todo # <<>> /\ wheelAt = "files" /\ UNCHANGED <<doneLines, seen, files>>
  BY DEF WriteFile
<1>2. Head(todo) = todo[1] /\ todo[1].dir \in BOOLEAN
  BY <1>1, FirstEntry
<1> DEFINE h == todo[1]
<1>3. \/ /\ h.path \notin DOMAIN tree \/ h.dir
         /\ tree' = OnDisk(h) /\ manifest' = Made(h)
         /\ todo' = IF h.dir THEN Tail(todo) ELSE todo
         /\ UNCHANGED <<wheelAt, lockRead, plan, wheelSum, lockSum>>
      \/ /\ h.path \in DOMAIN tree /\ ~h.dir
         /\ IF TooMuch(tree[h.path] + 1)
            THEN WheelFails("libs_too_large") /\ UNCHANGED <<tree, wheelSum, lockSum>>
            ELSE /\ tree' = [tree EXCEPT ![h.path] = @ + 1]
                 /\ wheelSum' = wheelSum + 1 /\ lockSum' = lockSum + 1
                 /\ UNCHANGED <<wheelAt, lockRead, plan>>
         /\ UNCHANGED <<todo, manifest>>
      \/ /\ h.path \in DOMAIN tree /\ ~h.dir
         /\ manifest' = [manifest EXCEPT ![h.path] = tree[h.path]]
         /\ todo' = Tail(todo)
         /\ UNCHANGED <<wheelAt, lockRead, plan, tree, wheelSum, lockSum>>
  BY <1>2, Zenon DEF WriteFile
<1>4. h.dir => h.dir = TRUE
  BY <1>2
<1>5. ~h.dir => h.dir = FALSE
  BY <1>2
<1>6. CASE /\ h.path \notin DOMAIN tree \/ h.dir
           /\ tree' = OnDisk(h) /\ manifest' = Made(h)
           /\ todo' = IF h.dir THEN Tail(todo) ELSE todo
           /\ UNCHANGED <<wheelAt, lockRead, plan, wheelSum, lockSum>>
  BY <1>1, <1>4, <1>6, CreateKeeps, Zenon
<1>7. CASE /\ h.path \in DOMAIN tree /\ ~h.dir /\ TooMuch(tree[h.path] + 1)
           /\ WheelFails("libs_too_large") /\ UNCHANGED <<tree, wheelSum, lockSum, todo, manifest>>
  <2>1. wheelAt' \in Refusals /\ UNCHANGED <<lockRead, plan, tree, wheelSum, lockSum, todo, manifest>>
    BY <1>7 DEF WheelFails, Refusals
  <2> QED BY <1>1, <2>1, RefusedKeeps
<1>8. CASE /\ h.path \in DOMAIN tree /\ ~h.dir /\ ~TooMuch(tree[h.path] + 1)
           /\ tree' = [tree EXCEPT ![h.path] = @ + 1] /\ lockSum' = lockSum + 1
           /\ UNCHANGED <<wheelAt, lockRead, plan, todo, manifest>>
  BY <1>1, <1>5, <1>8, ChunkKeeps, Zenon
<1>9. CASE /\ h.path \in DOMAIN tree /\ ~h.dir
           /\ manifest' = [manifest EXCEPT ![h.path] = tree[h.path]]
           /\ todo' = Tail(todo)
           /\ UNCHANGED <<wheelAt, lockRead, plan, tree, wheelSum, lockSum>>
  BY <1>1, <1>5, <1>9, EndKeeps, Zenon
<1> HIDE DEF h
<1> QED BY <1>3, <1>6, <1>7, <1>8, <1>9, Zenon

(* The libraries of a run: what is registered, written and matched stays as the *)
(* invariant says, through every plan and every wheel.                          *)
THEOREM WheelsInvariant == WheelsSpec => []WheelsInv
<1>1. WheelsInit => WheelsInv
  BY FreshStart DEF WheelsInit
<1>2. WheelsInv /\ [WheelsNext]_wheelVars => WheelsInv'
  <2> SUFFICES ASSUME WheelsInv, [WheelsNext]_wheelVars PROVE WheelsInv'
    OBVIOUS
  <2>1. CASE ReadLine
    BY <2>1, LineKeeps
  <2>2. CASE MakePlan
    BY <2>2, PlanKeeps
  <2>3. CASE ReadHeader
    BY <2>3, HeaderKeeps
  <2>4. CASE HeadersDone
    BY <2>4, HeadersDoneKeeps
  <2>5. CASE WriteFile
    BY <2>5, WriteKeeps
  <2>6. CASE WheelDone
    BY <2>6, WheelDoneKeeps
  <2>7. CASE Discard
    <3>1. /\ wheelAt' = "lock" /\ lockRead' = NothingRead /\ doneLines' = {} /\ todo' = <<>>
          /\ seen' = <<>> /\ files' = 0 /\ lockSum' = 0 /\ tree' = <<>> /\ manifest' = <<>>
      BY <2>7 DEF Discard
    <3>2. DOMAIN seen' = {} /\ DOMAIN tree' = {} /\ Len(todo') = 0 /\ todo' \in Seq(Headers)
      BY <3>1
    <3>3. FilesOf(seen') = {}
      BY <3>2 DEF FilesOf
    <3>4. SeenInv'
      BY <3>1, <3>2, <3>3, FS_EmptySet, WheelsAssumption DEF SeenInv, SeenRight
    <3>5. TodoInv'
      BY <3>2 DEF TodoInv
    <3>6. TreeInv'
      BY <3>1, <3>2 DEF TreeInv
    <3>7. PlanInv'
      BY <3>1 DEF PlanInv, NothingRead
    <3> QED BY <3>1, <3>4, <3>5, <3>6, <3>7, WheelsAssumption DEF WheelsInv
  <2>8. CASE UNCHANGED wheelVars
    <3>1. UNCHANGED <<wheelAt, lockRead, plan, doneLines, todo, seen, files, wheelSum, lockSum, tree, manifest>>
      BY <2>8 DEF wheelVars
    <3>2. SeenInv'
      BY <3>1 DEF WheelsInv, SeenInv
    <3>3. TodoInv'
      BY <3>1 DEF WheelsInv, TodoInv
    <3>4. TreeInv'
      BY <3>1 DEF WheelsInv, TreeInv, BeingWritten
    <3>5. PlanInv'
      BY <3>1 DEF WheelsInv, PlanInv
    <3> QED BY <3>1, <3>2, <3>3, <3>4, <3>5 DEF WheelsInv
  <2> QED BY <2>1, <2>2, <2>3, <2>4, <2>5, <2>6, <2>7, <2>8 DEF WheelsNext
<1> QED BY <1>1, <1>2, PTL DEF WheelsSpec

LEMMA SealedFollows ==
    ASSUME WheelsInv
    PROVE  SealedIsSound
<1>1. ASSUME NEW p \in DOMAIN tree
      PROVE  /\ p \in DOMAIN seen /\ p \in Words /\ Proper(p)
             /\ \A q \in Parents(p) : tree[q] = Dir
             /\ Fold(p) # <<"manifest">>
             /\ tree[p] # Dir => p \in FilesOf(seen)
  <2>1. p \in DOMAIN seen /\ Parents(p) \subseteq DOMAIN tree
    BY DEF WheelsInv, TreeInv
  <2>2. /\ p \in Words /\ Proper(p) /\ seen[p] \in BOOLEAN
        /\ \A q \in Parents(p) : seen[q] = TRUE
        /\ Fold(Upto(p, 1)) # <<"manifest">>
    BY <2>1 DEF WheelsInv, SeenInv, SeenRight
  <2>3. \A q \in Parents(p) : tree[q] = Dir
    BY <2>1, <2>2, Zenon DEF WheelsInv, TreeInv
  <2>4. Fold(p) # <<"manifest">>
    BY <2>2, ReservedName
  <2>5. tree[p] # Dir => seen[p] # TRUE
    BY Zenon DEF WheelsInv, TreeInv
  <2>6. seen[p] = TRUE \/ seen[p] = FALSE
    BY <2>2
  <2>7. tree[p] # Dir => p \in FilesOf(seen)
    BY <2>1, <2>5, <2>6, Zenon DEF FilesOf
  <2> QED BY <2>1, <2>2, <2>3, <2>4, <2>7
<1>2. \A p, q \in DOMAIN tree : ~Clash(p, q)
  BY <1>1 DEF Clash, WheelsInv, SeenInv, SeenRight
<1>3. <<"manifest">> \notin {Fold(p) : p \in DOMAIN tree}
  BY <1>1
<1>4. Cardinality({p \in DOMAIN tree : tree[p] # Dir}) <= MaxLockFiles
  <2> DEFINE S == {p \in DOMAIN tree : tree[p] # Dir}
             T == FilesOf(seen)
  <2>1. S \subseteq T
    BY <1>1
  <2>2. IsFiniteSet(T) /\ Cardinality(T) <= MaxLockFiles
    BY DEF WheelsInv, SeenInv
  <2> HIDE DEF S, T
  <2>3. /\ Cardinality(S) <= Cardinality(T)
        /\ Cardinality(S) \in Nat /\ Cardinality(T) \in Nat
    BY <2>1, <2>2, FS_Subset, FS_CardinalityType
  <2>4. Cardinality(S) <= MaxLockFiles
    BY <2>2, <2>3, WheelsAssumption
  <2> QED BY <2>4 DEF S
<1>5. wheelAt = "files" /\ todo = <<>> => tree = manifest
  BY DEF WheelsInv, TreeInv, BeingWritten
<1>6. ASSUME wheelAt = "sealed"
      PROVE  /\ \A w \in doneLines : \E e \in lockRead.entries : e.name = w.name /\ e.version = w.version
             /\ \A e \in lockRead.entries : \E w \in doneLines :
                   /\ w.name = e.name /\ w.version = e.version
                   /\ \A v \in doneLines : v.name = e.name => v = w
  <2>1. doneLines = plan /\ Matched(lockRead.entries, plan)
    BY <1>6 DEF WheelsInv, PlanInv
  <2>2. \A e, f \in lockRead.entries : e.name = f.name => e = f
    BY DEF WheelsInv, PlanInv
  <2>3. /\ \A w \in doneLines : \E e \in lockRead.entries : e.name = w.name /\ e.version = w.version
        /\ \A v, w \in doneLines : v.name = w.name => v = w
        /\ \A e \in lockRead.entries : \E w \in doneLines : w.name = e.name
    BY <2>1 DEF Matched
  <2>4. ASSUME NEW e \in lockRead.entries
        PROVE  \E w \in doneLines : /\ w.name = e.name /\ w.version = e.version
                                    /\ \A v \in doneLines : v.name = e.name => v = w
    <3>1. PICK w \in doneLines : w.name = e.name
      BY <2>3
    <3>2. PICK f \in lockRead.entries : f.name = w.name /\ f.version = w.version
      BY <2>3
    <3>3. f = e
      BY <2>2, <3>1, <3>2
    <3> QED BY <2>3, <3>1, <3>2, <3>3
  <2> QED BY <2>3, <2>4
<1> QED BY <1>1, <1>2, <1>3, <1>4, <1>5, <1>6 DEF SealedIsSound, WheelsInv

(* A sealed directory of libraries is sound: verifyDir never refuses what was   *)
(* extracted, no two names clash, nothing is below a file, every limit holds    *)
(* and the wheels are those of the lock.                                        *)
THEOREM SealedSound == WheelsSpec => []SealedIsSound
<1>1. WheelsInv => SealedIsSound
  BY SealedFollows
<1> QED BY <1>1, WheelsInvariant, PTL

=============================================================================
