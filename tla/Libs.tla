-------------------------------- MODULE Libs --------------------------------
(***************************************************************************)
(* The prepared Python libraries of the script runner (libs/manager.go and *)
(* mediator/libs.go): one directory per lock, built once and lent to runs. *)
(* A plan is a lock with the wheels of one pin; several plans may share a  *)
(* lock.  The poll loop calls Ensure, Prune and Reset, one goroutine per   *)
(* plan prepares, runs borrow and give back.                               *)
(***************************************************************************)
EXTENDS Naturals, FiniteSets

CONSTANTS Plans,         \* lock and wheels of a pin (planKey)
          LibLocks,         \* hashes of locks
          LockOf,        \* [Plans -> Locks]
          Good,          \* plans whose wheels have the checksums of their lock
          Borrowers,     \* runs that may hold libraries at a time
          MaxLibFaults   \* bound on failing calls, crashes and a full memo

NoLock == "no lock"

ASSUME LibsAssumption ==
    /\ LockOf \in [Plans -> LibLocks] /\ Good \subseteq Plans
    /\ NoLock \notin LibLocks /\ "nobody" \notin Plans /\ MaxLibFaults \in Nat

VARIABLES
    onDisk,     \* per lock: libs/<hash>
    ready,      \* m.dirs: locks that count as ready
    job,        \* m.jobs, per plan
    sums,       \* m.sums: plans whose wheels have been read
    builder,    \* who holds m.sem
    lease,      \* per run: the lock it has borrowed
    reset,      \* where Reset is; draining unless "no"
    libFaults

libsVars == <<onDisk, ready, job, sums, builder, lease, reset, libFaults>>

NoJob == [at |-> "none", have |-> FALSE, cancelled |-> FALSE]
Preparing(p) == job[p].at \in {"queued", "working", "publish", "sync"}
HasManifest(l) == onDisk[l] \in {"whole", "rest"}     \* readyOnDisk
Leased(l) == \E r \in Borrowers : lease[r] = l
ReadyOf(l) == IF HasManifest(l) THEN ready ELSE ready \ {l}   \* after dirReady
LibFault == libFaults < MaxLibFaults /\ libFaults' = libFaults + 1
Fine == UNCHANGED libFaults

\* removeAll fails half-way, with or without the manifest gone.
Residue == {"rest", "torn"}

LibsInit ==
    /\ onDisk = [l \in LibLocks |-> "none"] /\ ready = {}
    /\ job = [p \in Plans |-> NoJob] /\ sums = {} /\ builder = "nobody"
    /\ lease = [r \in Borrowers |-> NoLock]
    /\ reset = "no" /\ libFaults = 0

-----------------------------------------------------------------------------
(* The poll loop *)

\* A mismatch that is known is answered at once, a final failure stays, a
\* passing one is tried again after its delay.
Ensure(p) ==
    LET l == LockOf[p]  have == l \in ReadyOf(l) IN
    /\ reset = "no" /\ ~Preparing(p)
    /\ p \in sums => p \in Good
    /\ ready' = ReadyOf(l)
    /\ job' = IF (have /\ p \in sums) \/ job[p].at \in {"failed", "later"} THEN job
              ELSE [job EXCEPT ![p] = [NoJob EXCEPT !.at = "queued", !.have = have]]
    /\ UNCHANGED <<onDisk, sums, builder, lease, reset, libFaults>>

\* The time after which a passing failure is tried again is over.
Retry(p) ==
    /\ job[p].at = "later"
    /\ job' = [job EXCEPT ![p] = NoJob]
    /\ UNCHANGED <<onDisk, ready, sums, builder, lease, reset, libFaults>>

\* Deviation: what a run holds is not spared.
UnusedLent(keep) == {l \in ready \ keep : \A p \in Plans : Preparing(p) => LockOf[p] # l}

NotLent(keep) ==
    {l \in ready \ keep : ~Leased(l) /\ \A p \in Plans : Preparing(p) => LockOf[p] # l}

\* Locks of no pin go, with their failures; what cannot be removed stays known.
Prune(keep) ==
    /\ reset = "no"
    /\ job' = [p \in Plans |-> IF Preparing(p) \/ LockOf[p] \in keep THEN job[p] ELSE NoJob]
    /\ \/ /\ onDisk' = [l \in LibLocks |-> IF l \in NotLent(keep) THEN "none" ELSE onDisk[l]]
          /\ ready' = ready \ NotLent(keep) /\ Fine
       \/ \E bad \in NotLent(keep), left \in Residue :
          /\ onDisk' = [l \in LibLocks |-> IF l = bad THEN left ELSE IF l \in NotLent(keep) THEN "none" ELSE onDisk[l]]
          /\ ready' = (ready \ NotLent(keep)) \cup {bad} /\ LibFault
    /\ UNCHANGED <<sums, builder, lease, reset>>

\* The repository URL changed: no new lease, jobs are cancelled.
ResetBegins ==
    /\ reset = "no" /\ LibFault
    /\ reset' = "draining"
    /\ job' = [p \in Plans |-> [job[p] EXCEPT !.cancelled = Preparing(p)]]
    /\ UNCHANGED <<onDisk, ready, sums, builder, lease>>

\* Jobs and leases are over.
ResetEnds ==
    /\ reset = "draining"
    /\ \A p \in Plans : ~Preparing(p)
    /\ \A l \in LibLocks : ~Leased(l)
    /\ ready' = {} /\ sums' = {} /\ job' = [p \in Plans |-> NoJob]
    /\ \/ onDisk' = [l \in LibLocks |-> "none"] /\ Fine
       \/ \E bad \in LibLocks, left \in Residue :
             /\ onDisk[bad] # "none" /\ LibFault
             /\ onDisk' = [l \in LibLocks |-> IF l = bad THEN left ELSE "none"]
    /\ reset' = "no"
    /\ UNCHANGED <<builder, lease>>

-----------------------------------------------------------------------------
(* One goroutine per plan *)

\* finish: "none" is success, "failed" final, "later" may be tried again.
FinishJob(p, at) ==
    job' = [job EXCEPT ![p] = IF at = "none" THEN NoJob ELSE [job[p] EXCEPT !.at = at]]

Step(p, at) == job' = [job EXCEPT ![p].at = at]
Done(p, at) == FinishJob(p, at) /\ builder' = "nobody"
Work(p, at) == job[p].at = at /\ UNCHANGED <<lease, reset>>

\* The memo of checksums is emptied when it is full.
Remember(p) == \/ sums' = sums \cup {p} /\ Fine
               \/ sums' = {p} /\ LibFault

\* A cancelled job may still get the one place.
TakePlace(p) ==
    /\ Work(p, "queued")
    /\ \/ builder = "nobody" /\ builder' = p /\ Step(p, "working")
       \/ job[p].cancelled /\ FinishJob(p, "later") /\ UNCHANGED builder
    /\ UNCHANGED <<onDisk, ready, sums, libFaults>>

\* Reading failed, or the job was cancelled: nothing of it is kept.
ReadFails(p) ==
    /\ Work(p, "working")
    /\ Done(p, "later")
    /\ IF job[p].cancelled THEN Fine ELSE LibFault
    /\ UNCHANGED <<onDisk, ready, sums>>

\* fetchAndExtract and verifyWheels compare the checksums of what they read.
Mismatch(p) ==
    /\ Work(p, "working") /\ p \notin Good
    /\ Remember(p)
    /\ Done(p, "failed")
    /\ UNCHANGED <<onDisk, ready>>

\* The directory was there when the job began.
VerifyWheels(p) ==
    /\ Work(p, "working") /\ job[p].have /\ p \in Good
    /\ Remember(p)
    /\ Done(p, "none")
    /\ UNCHANGED <<onDisk, ready>>

\* In the staging directory everything is extracted, sealed and verified; a
\* wheel, the lock or all locks together may be beyond a limit.
Build(p) ==
    /\ Work(p, "working") /\ ~job[p].have /\ p \in Good
    /\ Remember(p)
    /\ \/ Step(p, "publish") /\ UNCHANGED builder
       \/ Done(p, "failed")
    /\ UNCHANGED <<onDisk, ready>>

\* The rename fails when another plan of the lock was published meanwhile.
Publish(p) ==
    LET l == LockOf[p] IN
    /\ Work(p, "publish")
    /\ IF onDisk[l] = "none"
       THEN onDisk' = [onDisk EXCEPT ![l] = "half"] /\ Step(p, "sync") /\ UNCHANGED builder
       ELSE Done(p, "later") /\ UNCHANGED onDisk
    /\ UNCHANGED <<ready, sums, libFaults>>

\* Mode and fsync, then the directory counts as ready; if they fail, what was
\* published is removed again.
Sync(p) ==
    LET l == LockOf[p] IN
    /\ Work(p, "sync")
    /\ \/ /\ onDisk' = [onDisk EXCEPT ![l] = "whole"]
          /\ ready' = ready \cup {l} /\ Done(p, "none") /\ Fine
       \/ /\ \E left \in {"none"} \cup Residue : onDisk' = [onDisk EXCEPT ![l] = left]
          /\ Done(p, "later") /\ LibFault /\ UNCHANGED ready
    /\ UNCHANGED sums

Prepare(p) == \/ TakePlace(p) \/ ReadFails(p) \/ Mismatch(p) \/ VerifyWheels(p)
              \/ Build(p) \/ Publish(p) \/ Sync(p)

-----------------------------------------------------------------------------
(* Runs, and a restart *)

\* Deviation: a lease is given while Reset waits for the others.
AcquireLibsDraining(r, l) ==
    /\ lease[r] = NoLock /\ l \in ready
    /\ ready' = ReadyOf(l)
    /\ lease' = IF l \in ready' THEN [lease EXCEPT ![r] = l] ELSE lease
    /\ UNCHANGED <<onDisk, job, sums, builder, reset, libFaults>>

AcquireLibs(r, l) ==
    /\ lease[r] = NoLock /\ reset = "no" /\ l \in ready
    /\ ready' = ReadyOf(l)
    /\ lease' = IF l \in ready' THEN [lease EXCEPT ![r] = l] ELSE lease
    /\ UNCHANGED <<onDisk, job, sums, builder, reset, libFaults>>

Release(r) ==
    /\ lease[r] # NoLock
    /\ lease' = [lease EXCEPT ![r] = NoLock]
    /\ UNCHANGED <<onDisk, ready, job, sums, builder, reset, libFaults>>

\* Open verifies every directory against its manifest and removes the others;
\* what was not yet made durable may have survived whole.
Open ==
    \E whole \in SUBSET {l \in LibLocks : onDisk[l] = "half"} :
       LET kept == whole \cup {l \in LibLocks : onDisk[l] = "whole"} IN
       /\ LibFault
       /\ \E stuck \in SUBSET {l \in LibLocks : onDisk[l] \in Residue} :
             onDisk' = [l \in LibLocks |-> IF l \in kept THEN "whole" ELSE IF l \in stuck THEN onDisk[l] ELSE "none"]
       /\ ready' = kept
       /\ job' = [p \in Plans |-> NoJob] /\ sums' = {} /\ builder' = "nobody"
       /\ lease' = [r \in Borrowers |-> NoLock] /\ reset' = "no"

LibsNext ==
    \/ \E p \in Plans : Ensure(p) \/ Retry(p) \/ Prepare(p)
    \/ \E keep \in SUBSET LibLocks : Prune(keep)
    \/ ResetBegins \/ ResetEnds \/ Open
    \/ \E r \in Borrowers : Release(r) \/ \E l \in LibLocks : AcquireLibs(r, l)

\* Preparations go on, goroutines get the place in their order, time passes,
\* runs end at their wall time, the poll loop asks for every pin and waits in
\* Reset.
LibsWork(p) == Ensure(p) \/ Retry(p) \/ Prepare(p)
LibsFairness == /\ \A p \in Plans : WF_libsVars(LibsWork(p)) /\ SF_libsVars(TakePlace(p))
                /\ \A r \in Borrowers : WF_libsVars(Release(r))
                /\ WF_libsVars(ResetEnds)

LibsSpec == LibsInit /\ [][LibsNext]_libsVars /\ LibsFairness
-----------------------------------------------------------------------------
LibsTypeOK ==
    /\ onDisk \in [LibLocks -> {"none", "half", "whole"} \cup Residue]
    /\ ready \subseteq LibLocks /\ sums \subseteq Plans
    /\ job \in [Plans -> [at : {"none", "queued", "working", "publish", "sync", "failed", "later"},
                          have : BOOLEAN, cancelled : BOOLEAN]]
    /\ builder \in Plans \cup {"nobody"}
    /\ lease \in [Borrowers -> LibLocks \cup {NoLock}]
    /\ reset \in {"no", "draining"} /\ libFaults \in 0 .. MaxLibFaults

\* What a run has borrowed is a published directory, and nobody removes,
\* replaces or rebuilds it before the run gives it back: neither Prune, nor
\* Reset, nor the second of two plans with one lock.
BorrowedStays ==
    [][\A r \in Borrowers : lease'[r] # NoLock =>
          /\ onDisk'[lease'[r]] \in {"whole", "rest"}
          /\ lease[r] = lease'[r] => onDisk'[lease'[r]] = onDisk[lease'[r]]]_libsVars

\* Acquire: a run does not start "mit einem teilweisen Baum".
BorrowedIsWhole == \A r \in Borrowers : lease[r] # NoLock => onDisk[lease[r]] = "whole"

\* Reset, in which the poll loop waits, ends: runs end, and no new one borrows.
ResetIsOver == (reset = "draining") ~> (reset = "no")

\* A plan with the right wheels is not stuck behind a passing failure, another
\* plan of its lock or a Reset: it is ready at last, unless it was refused as
\* too large or a failed removal left its directory.
WantedGetsReady ==
    \A p \in Good : (job[p].at = "queued") ~>
       \/ LockOf[p] \in ready /\ p \in sums
       \/ job[p].at = "failed"
       \/ onDisk[LockOf[p]] \in Residue

\* Both: neither the poll loop, which waits in Reset, nor a plan is held up
\* for ever by leases, failures and other plans.
LibsGoOn == ResetIsOver /\ WantedGetsReady
=============================================================================
