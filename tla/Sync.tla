-------------------------------- MODULE Sync --------------------------------
(* Engine.Sync of the Windows runner: the signed manifest, the environments of   *)
(* its pins, its apps, and the watermark of the clock by which a device without    *)
(* network decides whether a pin may still run. Each file is replaced atomically;    *)
(* the files together are not. The core, its signature and the packages are          *)
(* external: a manifest verifies or does not, a package is whole or has a defect.     *)
EXTENDS Naturals, FiniteSets

CONSTANTS Keys,          \* environments: a commit and a path
          Toolless,      \* the pins without tools, by their key
          Grace,         \* Grace[k]: hours a pin may run without the network
          AppIds,        \* apps: a name and a commit
          MaxSeq,        \* bound on sequence numbers
          MaxHour,       \* bound on the wall clock, in hours
          MaxShift,      \* by how many hours somebody sets the wall clock back
          MaxSyncUpsets, \* bound on deaths, failing writes and changed files
          LateUpset      \* do they strike between an environment's rename and its seal

ASSUME SyncAssumption ==
    /\ Toolless \subseteq Keys /\ Grace \in [Keys -> Nat \ {0}]
    /\ MaxSeq \in Nat /\ MaxShift \in Nat

VARIABLES
    wallHour,       \* the wall clock
    held,           \* the file "manifest": sequence, time of the sync, pins, apps
    clockFile,      \* the file "clock"
    clockHigh,      \* State.clockHigh, while known
    unseen,         \* the monotonic clock: hours since State.clockSeen
    envAt, appAt,   \* the directory and the seal of each environment and app
    bundle,         \* Engine.bundle
    step,           \* where the loop is, with the manifest it is taking over
    syncErr,        \* Engine.syncErr
    running,        \* the script that runs, and whether it started offline
    erased,         \* State.dead
    counted,        \* history: hours since the sync after a process's first observation
    aged, setBack,  \* history: hours since the sync; the wall clock was set back
    syncUpsets

syncDisk == <<held, clockFile, envAt, appAt>>
syncMemory == <<bundle, step, syncErr, running, clockHigh>>
syncTime == <<wallHour, counted, unseen, aged, setBack>>
syncVars == <<syncDisk, syncMemory, syncTime, erased, syncUpsets>>

NothingHeld == [seq |-> 0, last |-> 0, keys |-> {}, apps |-> {}]
Unknown == [known |-> FALSE, at |-> 0]
NoStep == [at |-> "idle", want |-> NothingHeld, left |-> {}, key |-> CHOOSE k \in Keys : TRUE,
           apps |-> {}, app |-> CHOOSE a \in AppIds : TRUE]
NoScript == [key |-> CHOOSE k \in Keys : TRUE, how |-> "no"]
Bare == [dir |-> "none", seal |-> FALSE]
UpTo(n, cap) == IF n > cap THEN cap ELSE n

SyncInit ==
    /\ wallHour = MaxShift /\ held = NothingHeld /\ clockFile = 0
    /\ clockHigh = Unknown
    /\ envAt = [k \in Keys |-> Bare] /\ appAt = [a \in AppIds |-> Bare]
    /\ bundle = NothingHeld /\ step = [NoStep EXCEPT !.at = "down"] /\ syncErr = "none"
    /\ running = NoScript /\ erased = FALSE
    /\ counted = 0 /\ unseen = 0 /\ aged = 0 /\ setBack = FALSE /\ syncUpsets = 0

Alive == step.at # "down"
StepGoes(s) == step' = s
SyncUpset == syncUpsets < MaxSyncUpsets /\ syncUpsets' = syncUpsets + 1
(* Sync returns err. The loop goes on; a revoked one ends.                          *)
SyncFails(err) ==
    /\ syncErr' = err /\ step' = NoStep
    /\ UNCHANGED <<syncDisk, syncTime, bundle, running, clockHigh, erased, syncUpsets>>

(* ObserveTime: the wall clock, at least what the process knows has gone by, at       *)
(* least the file.                                                                 *)
Floor == IF clockHigh.known /\ clockHigh.at + unseen > wallHour
         THEN clockHigh.at + unseen ELSE wallHour
(* Deviation: a wall clock that was set back counts while the process is alive.       *)
ObservedByWall == IF clockFile > wallHour THEN clockFile ELSE wallHour
Observed == IF clockFile > Floor THEN clockFile ELSE Floor
ObserveTime ==
    /\ ~erased
    /\ clockFile' = Observed
    /\ clockHigh' = [known |-> TRUE, at |-> Observed] /\ unseen' = 0

(* Engine.Run: a pass of the loop observes the time; a sync is due at the start, when    *)
(* the heartbeat saw a newer manifest, and a minute before a slot.                   *)
LoopPass ==
    /\ step.at = "idle" /\ running.how = "no"
    /\ ObserveTime
    /\ StepGoes([NoStep EXCEPT !.at = "due"])
    /\ UNCHANGED <<wallHour, held, envAt, appAt, bundle, syncErr, running, erased, counted,
                   aged, setBack, syncUpsets>>

(* A request: the answer, no network, or an answer that does not pass the checks. A      *)
(* request under a loop whose state was erased ends at once.                         *)
RequestFailed(at) ==
    /\ step.at = at
    /\ \E err \in {"offline", "protocol"} : SyncFails(err)
GetConfig ==
    /\ step.at = "due" /\ ~erased
    /\ StepGoes([step EXCEPT !.at = "config"])
    /\ UNCHANGED <<syncDisk, syncTime, bundle, syncErr, running, clockHigh, erased, syncUpsets>>

(* Deviation: any other manifest of the core is taken, an older one as well.            *)
VerifiedUnordered(m) == m.age # "same"
(* ParseManifest and VerifyManifest of what the core sends: signed, for this device, and    *)
(* newer than the one in memory. Numbers end at MaxSeq, where a newer manifest keeps it.    *)
Verified(m) == m.age = "newer"
Manifests == [age : {"older", "same", "newer"}, keys : SUBSET Keys, apps : SUBSET AppIds]
NumberOf(m) == CASE m.age = "newer" -> UpTo(bundle.seq + 1, MaxSeq)
              [] m.age = "same" -> bundle.seq
              [] m.age = "older" -> IF bundle.seq > 0 THEN bundle.seq - 1 ELSE 0
GetManifest ==
    /\ step.at = "config" /\ ~erased
    /\ \E m \in Manifests :
         IF Verified(m)
         THEN /\ StepGoes([step EXCEPT !.at = "pins", !.left = m.keys,
                           !.want = [NothingHeld EXCEPT !.seq = NumberOf(m), !.keys = m.keys,
                                                        !.apps = m.apps]])
              /\ UNCHANGED <<syncDisk, syncTime, bundle, syncErr, running, clockHigh, erased,
                             syncUpsets>>
         ELSE SyncFails("manifest")

(* VerifyEnvironment: the files of the directory against the seal.                    *)
Intact(e) == e.seal /\ e.dir = "whole"
(* A pin whose environment has a seal must match it; the others are fetched.             *)
NextPin ==
    /\ step.at = "pins" /\ step.left # {}
    /\ LET k == CHOOSE i \in step.left : TRUE
       IN  \/ /\ envAt[k].seal /\ Intact(envAt[k])
              /\ StepGoes([step EXCEPT !.left = @ \ {k}])
              /\ UNCHANGED <<syncDisk, syncTime, bundle, syncErr, running, clockHigh, erased,
                             syncUpsets>>
           \/ envAt[k].seal /\ ~Intact(envAt[k]) /\ SyncFails("hash")
           \/ /\ ~envAt[k].seal /\ ~erased
              /\ StepGoes([step EXCEPT !.at = "package", !.key = k])
              /\ UNCHANGED <<syncDisk, syncTime, bundle, syncErr, running, clockHigh, erased,
                             syncUpsets>>

(* Prepare: the package, its manifest, the interpreter and the wheels in this order;     *)
(* the first defect decides the error.                                              *)
PackageError(defects) ==
    IF "objects" \in defects THEN "hash"
    ELSE IF "manifest" \in defects THEN "manifest"
    ELSE IF "python" \in defects THEN "runtime"
    ELSE IF "wheels" \in defects THEN "hash" ELSE "none"
Defects == {{}, {"objects"}, {"manifest"}, {"python"}, {"wheels"}, {"manifest", "wheels"}}
(* Under State.Use: the stage is built and renamed; a directory that is there already    *)
(* is never replaced.                                                              *)
PrepareFrom(defects) ==
    /\ step.at = "package"
    /\ IF erased THEN SyncFails("revoked")
       ELSE IF PackageError(defects) # "none" THEN SyncFails(PackageError(defects))
       ELSE IF envAt[step.key].dir # "none" THEN SyncFails("hash")
       ELSE /\ envAt' = [envAt EXCEPT ![step.key].dir = "whole"]
            /\ StepGoes([step EXCEPT !.at = "seal"])
            /\ UNCHANGED <<held, clockFile, appAt, syncTime, bundle, syncErr, running,
                           clockHigh, erased, syncUpsets>>
PrepareEnv == \E defects \in Defects : PrepareFrom(defects)
(* The package is kept and State.Save writes the seal.                               *)
SealEnv ==
    /\ step.at = "seal"
    /\ IF erased THEN SyncFails("revoked")
       ELSE /\ envAt' = [envAt EXCEPT ![step.key].seal = TRUE]
            /\ StepGoes([step EXCEPT !.at = "pins", !.left = @ \ {step.key}])
            /\ UNCHANGED <<held, clockFile, appAt, syncTime, bundle, syncErr, running,
                           clockHigh, erased, syncUpsets>>

(* ObserveTime, then the file "manifest", then the memory.                           *)
SaveManifest ==
    /\ step.at = "pins" /\ step.left = {}
    /\ IF erased THEN SyncFails("revoked")
       ELSE /\ ObserveTime
            /\ held' = [step.want EXCEPT !.last = Observed] /\ bundle' = held'
            /\ StepGoes([step EXCEPT !.at = "apps", !.apps = step.want.apps])
            /\ counted' = 0 /\ aged' = 0 /\ syncErr' = "none"
            /\ UNCHANGED <<wallHour, envAt, appAt, running, erased, setBack, syncUpsets>>

(* ensureApps: best effort. An app that opens is left alone, one that is there and does    *)
(* not open as well; the others are fetched.                                        *)
AppDone == [step EXCEPT !.at = "apps", !.apps = @ \ {step.app}]
NextApp ==
    /\ step.at = "apps"
    /\ IF step.apps = {} THEN step' = NoStep
       ELSE LET a == CHOOSE i \in step.apps : TRUE
            IN  IF appAt[a].dir # "none" \/ erased
                THEN StepGoes([step EXCEPT !.apps = @ \ {a}])
                ELSE StepGoes([step EXCEPT !.at = "app", !.app = a])
    /\ UNCHANGED <<syncDisk, syncTime, bundle, syncErr, running, clockHigh, erased, syncUpsets>>
(* AppStore.Prepare under State.Use: the stage, the seal, the rename. Any failure leaves   *)
(* the app absent.                                                                  *)
AppFails ==
    /\ \/ step.at = "app" /\ UNCHANGED syncUpsets
       \/ step.at = "app rename" /\ SyncUpset
    /\ StepGoes(AppDone)
    /\ UNCHANGED <<syncDisk, syncTime, bundle, syncErr, running, clockHigh, erased>>
(* Deviation: the app is renamed into place first; the seal belongs to a later step.       *)
AppSealsLate ==
    /\ step.at = "app" /\ ~erased
    /\ appAt' = [appAt EXCEPT ![step.app].dir = "whole"]
    /\ StepGoes([step EXCEPT !.at = "app rename"])
    /\ UNCHANGED <<held, clockFile, envAt, syncTime, bundle, syncErr, running, clockHigh,
                   erased, syncUpsets>>
AppSeals ==
    /\ step.at = "app" /\ ~erased
    /\ appAt' = [appAt EXCEPT ![step.app].seal = TRUE]
    /\ StepGoes([step EXCEPT !.at = "app rename"])
    /\ UNCHANGED <<held, clockFile, envAt, syncTime, bundle, syncErr, running, clockHigh,
                   erased, syncUpsets>>
AppRenames ==
    /\ step.at = "app rename"
    /\ appAt' = [appAt EXCEPT ![step.app] = [dir |-> "whole", seal |-> TRUE]]
    /\ StepGoes(AppDone)
    /\ UNCHANGED <<held, clockFile, envAt, syncTime, bundle, syncErr, running, clockHigh,
                   erased, syncUpsets>>
(* Engine.scheduled and executeReserved: with the network, or with none inside the grace;   *)
(* then the environment is verified. A refusal starts nothing.                       *)
OfflineAllowed(k, now) ==
    k \in Toolless /\ bundle.last > 0 /\ now >= bundle.last /\ now - bundle.last < Grace[k]
StartOffline(k) ==
    /\ step.at = "idle" /\ running.how = "no" /\ k \in bundle.keys /\ syncErr = "offline"
    /\ ObserveTime /\ OfflineAllowed(k, Observed) /\ Intact(envAt[k])
    /\ running' = [key |-> k, how |-> "offline"]
    /\ UNCHANGED <<wallHour, held, envAt, appAt, bundle, step, syncErr, erased, counted,
                   aged, setBack, syncUpsets>>
StartOnline(k) ==
    /\ step.at = "idle" /\ running.how = "no" /\ k \in bundle.keys /\ syncErr = "none"
    /\ ~erased /\ Intact(envAt[k])
    /\ running' = [key |-> k, how |-> "online"]
    /\ UNCHANGED <<syncDisk, syncTime, bundle, step, syncErr, clockHigh, erased, syncUpsets>>
ScriptReturns ==
    /\ running.how # "no" /\ running' = NoScript
    /\ UNCHANGED <<syncDisk, syncTime, bundle, step, syncErr, clockHigh, erased, syncUpsets>>

(* 401 revoked, from any request, the heartbeat's as well: the state is erased under its    *)
(* lock, the script is killed, the loop's context ends.                               *)
Revokes ==
    /\ Alive /\ ~erased /\ step.at # "app rename"
    /\ erased' = TRUE /\ running' = NoScript
    /\ held' = NothingHeld /\ clockFile' = 0
    /\ envAt' = [k \in Keys |-> Bare] /\ appAt' = [a \in AppIds |-> Bare]
    /\ UNCHANGED <<syncTime, bundle, step, syncErr, clockHigh, syncUpsets>>

(* Surroundings: hours go by while the loop waits for something; the wall clock is set back; files  *)
(* change; the process dies and starts again.                                       *)
HourPasses ==
    /\ wallHour < MaxHour /\ wallHour' = wallHour + 1
    /\ step.at \in {"due", "config", "package", "app", "idle", "down"}
    /\ counted' = IF clockHigh.known THEN counted + 1 ELSE counted
    /\ unseen' = IF clockHigh.known THEN unseen + 1 ELSE unseen
    /\ aged' = aged + 1
    /\ UNCHANGED <<setBack, syncDisk, syncMemory, erased, syncUpsets>>
ClockSetBack ==
    /\ ~setBack /\ wallHour >= MaxShift /\ wallHour' = wallHour - MaxShift /\ setBack' = TRUE
    /\ UNCHANGED <<counted, unseen, aged, syncDisk, syncMemory, erased, syncUpsets>>
FilesChange ==
    /\ SyncUpset
    /\ \/ \E k \in Keys : envAt[k].dir = "whole" /\ envAt' = [envAt EXCEPT ![k].dir = "changed"]
                          /\ UNCHANGED appAt
       \/ \E a \in AppIds : appAt[a].dir = "whole" /\ appAt' = [appAt EXCEPT ![a].dir = "changed"]
                            /\ UNCHANGED envAt
    /\ UNCHANGED <<held, clockFile, syncMemory, syncTime, erased>>
RunnerDies ==
    /\ Alive /\ SyncUpset /\ (step.at = "seal" => LateUpset)
    /\ step' = [NoStep EXCEPT !.at = "down"] /\ bundle' = NothingHeld /\ syncErr' = "none"
    /\ running' = NoScript /\ clockHigh' = Unknown
    /\ counted' = counted - unseen /\ unseen' = 0
    /\ UNCHANGED <<syncDisk, wallHour, aged, setBack, erased>>
WriteFails ==
    /\ SyncUpset /\ step.at \in {"seal", "pins"} /\ (step.at = "seal" => LateUpset)
    /\ syncErr' = "io" /\ step' = NoStep
    /\ UNCHANGED <<syncDisk, syncTime, bundle, running, clockHigh, erased>>
(* Run reads and verifies the kept manifest, then syncs.                              *)
RunnerStarts ==
    /\ step.at = "down" /\ ~erased
    /\ step' = [NoStep EXCEPT !.at = "due"] /\ bundle' = held
    /\ UNCHANGED <<syncDisk, syncTime, syncErr, running, clockHigh, erased, syncUpsets>>

SyncSteps ==
    \/ GetConfig \/ GetManifest \/ RequestFailed("due") \/ RequestFailed("config")
    \/ RequestFailed("package") \/ NextPin \/ PrepareEnv \/ SealEnv \/ SaveManifest
    \/ NextApp \/ AppFails \/ AppSeals \/ AppRenames \/ LoopPass
SyncNext ==
    \/ SyncSteps \/ ScriptReturns \/ Revokes \/ HourPasses \/ ClockSetBack \/ FilesChange
    \/ RunnerDies \/ WriteFails \/ RunnerStarts
    \/ \E k \in Keys : StartOffline(k) \/ StartOnline(k)
(* The loop goes on, scripts end (they have a wall clock), a dead runner is started again;   *)
(* the network and the core do not fail for ever, and the core does not for ever send what   *)
(* is already there or a package with a defect.                                       *)
GoodManifest == GetManifest /\ step'.at = "pins"
GoodPackage == PrepareFrom({})
SyncFairness ==
    /\ WF_syncVars(SyncSteps)
    /\ SF_syncVars(LoopPass) /\ WF_syncVars(ScriptReturns) /\ WF_syncVars(RunnerStarts)
    /\ SF_syncVars(GetConfig) /\ SF_syncVars(GoodManifest) /\ SF_syncVars(GoodPackage)
    /\ SF_syncVars(AppSeals)
SyncSpec == SyncInit /\ [][SyncNext]_syncVars /\ SyncFairness

HeldKind == [seq : 0..MaxSeq, last : Nat, keys : SUBSET Keys, apps : SUBSET AppIds]
SyncTypeOK ==
    /\ held \in HeldKind /\ bundle \in HeldKind /\ clockFile \in Nat
    /\ clockHigh \in [known : BOOLEAN, at : Nat]
    /\ envAt \in [Keys -> [dir : {"none", "whole", "changed"}, seal : BOOLEAN]]
    /\ appAt \in [AppIds -> [dir : {"none", "whole", "changed"}, seal : BOOLEAN]]
    /\ step.at \in {"due", "config", "pins", "package", "seal", "apps", "app", "app rename",
                    "idle", "down"}
    /\ running \in [key : Keys, how : {"no", "online", "offline"}]
    /\ wallHour \in 0..MaxHour /\ unseen \in 0..counted

(* A script starts without network only while the hours the runner has seen go by since    *)
(* the last sync are inside the grace of its pin, whatever the wall clock says now; and if   *)
(* nobody sets the clock back, the hours the device was off count as well.             *)
OfflineWithinGrace ==
    [][running.how = "no" /\ running'.how = "offline" =>
         /\ counted < Grace[running'.key]
         /\ setBack \/ aged < Grace[running'.key]]_syncVars
(* The kept manifest never gets older, across restarts as well; and once a revocation has    *)
(* erased the state, no step that was under way writes anything again.                 *)
NothingComesBack ==
    [][/\ held'.seq >= held.seq \/ erased'
       /\ erased => syncDisk' = syncDisk]_syncVars
Tampered == \E k \in Keys : envAt[k].dir = "changed"
(* Whenever a sync is due, also after a crash or a failed write, one succeeds later and every *)
(* app of the manifest is there with its seal. Files somebody changed are reported, not      *)
(* repaired.                                                                        *)
DeviceCatchesUp ==
    step.at = "due" ~>
       \/ erased \/ Tampered
       \/ /\ syncErr = "none" /\ bundle.seq > 0
          /\ \A a \in bundle.apps : appAt[a].seal /\ appAt[a].dir # "none"
=============================================================================
