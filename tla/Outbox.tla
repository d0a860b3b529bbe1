------------------------------- MODULE Outbox -------------------------------
(***************************************************************************)
(* The path of a run's result in the desktop runner: slot reservation and  *)
(* run marker, the process, the durable journal, the delivery to the box,  *)
(* process death and restart, failing writes and revocation.               *)
(*                                                                         *)
(* Two goroutines write the journal: "loop", the serial loop of Engine.Run *)
(* (schedules, claimed jobs and delivery), and "panel", the one setup run  *)
(* started from the control panel.  Every call of State holds State.mu, so *)
(* it is one step; a request to the box is made without the lock, so the   *)
(* request, the box's work and the treatment of the answer are steps of    *)
(* their own between which the other goroutine runs.                       *)
(***************************************************************************)
EXTENDS Journal

CONSTANTS RejectLimit,   \* resultRejectLimit, 10 in the source
          Doubtful,      \* runs whose result an older box answers with 400
          MaxCrashes,    \* bound on deaths of the runner process
          MaxFaults,     \* bound on failing local operations
          MaxOutages,    \* bound on requests that end without an answer
          MayBeRevoked   \* whether the box may revoke the device

ASSUME RejectAssumption == RejectLimit \in Nat \ {0}
ASSUME DoubtfulAssumption == Doubtful \subseteq Keys
ASSUME ReplyAssumption == None \notin {"204", "400", "409", "401", "timeout"}
ASSUME LimitAssumption == /\ MaxCrashes \in Nat
                          /\ MaxFaults \in Nat
                          /\ MaxOutages \in Nat
                          /\ MayBeRevoked \in BOOLEAN

Workers == {"loop", "panel"}

VARIABLES
    phase,      \* the runner process: "off", "boot" (before Recover), "on"
    mem,        \* State.journal
    disk,       \* the journal file
    dead,       \* State.dead
    worker,     \* what each goroutine is doing, and for which run
    sending,    \* the result DeliverOne holds outside the lock, or None
    reject,     \* State.reject: result and number of 400 answers in a row
    net,        \* result requests on their way to the box
    reply,      \* the answer to the pending request, or None
    core,       \* the box: the first valid result of each run, or None
    refusals,   \* the box: how often, up to RejectLimit, it has answered 400
    revoked,    \* the box: the device is revoked
    handed,     \* the box: jobs and setups it has given out
    credential, \* the credential file is there; without it nothing runs
    spawned,    \* how many processes were started for each run
    reported,   \* runs for which Append has returned without an error
    crashes, faults, outages

journalVars == <<mem, disk, dead, faults>>
boxVars     == <<net, reply, core, refusals, revoked>>
historyVars == <<spawned, reported>>
vars == <<phase, mem, disk, dead, worker, sending, reject, net, reply, core,
          refusals, revoked, handed, credential, spawned, reported, crashes,
          faults, outages>>

Idle == [pc |-> "idle", key |-> None, end |-> None]
Busy == [pc : {"claimed", "prepared", "running"}, key : Keys, end : {None}]
          \cup [pc : {"ended"}, key : Keys, end : Ends]
NoReject == [res |-> None, n |-> 0]

Init == /\ phase = "off"
        /\ mem = Empty
        /\ disk = Empty
        /\ dead = FALSE
        /\ worker = [w \in Workers |-> Idle]
        /\ sending = None
        /\ reject = NoReject
        /\ net = {}
        /\ reply = None
        /\ core = [k \in Keys |-> None]
        /\ refusals = [k \in Keys |-> 0]
        /\ revoked = FALSE
        /\ handed = {}
        /\ credential = TRUE
        /\ spawned = [k \in Keys |-> 0]
        /\ reported = {}
        /\ crashes = 0
        /\ faults = 0
        /\ outages = 0

(***************************************************************************)
(* saveJournal.  The file is replaced atomically before the memory copy is *)
(* assigned.  A failing write leaves the memory as it was; the file is     *)
(* either untouched or, when only the directory sync after the rename      *)
(* failed, already the new one.                                            *)
(***************************************************************************)

Saves(j) == /\ mem' = Stored(j)
            /\ disk' = Stored(j)
            /\ UNCHANGED <<dead, faults>>

SaveFails(j) == /\ faults < MaxFaults
                /\ faults' = faults + 1
                /\ disk' \in {disk, Stored(j)}
                /\ UNCHANGED <<mem, dead>>

Now(w, pc, k, end) == worker' = [worker EXCEPT ![w] = [pc |-> pc, key |-> k, end |-> end]]
Rests(w) == worker' = [worker EXCEPT ![w] = Idle]

LoopFree  == worker["loop"].pc = "idle" /\ sending = None
PanelFree == worker["panel"].pc = "idle"

-----------------------------------------------------------------------------
(* Admission of a run.                                                     *)

(* scheduled: the loop takes the admission lock and reserves slot and      *)
(* marker.  The minute is whatever the wall clock says: it may jump.       *)
ReserveRun(s, t) ==
    /\ phase = "on" /\ ~ dead
    /\ LoopFree /\ PanelFree
    /\ MayReserve(mem, s, t)
    /\ LET j == Reserved(mem, s, t) IN
       \/ Saves(j) /\ Now("loop", "claimed", Key("slot", s, t), None)
       \/ SaveFails(j) /\ UNCHANGED worker
    /\ UNCHANGED <<phase, sending, reject, boxVars, handed, credential, historyVars,
                   crashes, outages>>

(* claim and adhoc: the box gives a job out once.  It is marked at once;   *)
(* a panel run in between, a foreign marker or a failing write loses it.   *)
ClaimJob(k) ==
    /\ phase = "on" /\ ~ dead /\ ~ revoked
    /\ LoopFree
    /\ k \in JobKeys \ handed
    /\ handed' = handed \cup {k}
    /\ LET j == Marked(mem, k, "claimed") IN
       \/ /\ PanelFree /\ MayMark(mem, k)
          /\ \/ Saves(j) /\ Now("loop", "claimed", k, None)
             \/ SaveFails(j) /\ UNCHANGED worker
       \/ /\ ~ PanelFree \/ ~ MayMark(mem, k)
          /\ UNCHANGED <<journalVars, worker>>
    /\ UNCHANGED <<phase, sending, reject, boxVars, credential, historyVars,
                   crashes, outages>>

(* startPanelSetup: admission and run lock are taken, the box answers with *)
(* the run key.  Nothing is durable before the marker of executeReserved.  *)
StartPanelSetup(k) ==
    /\ phase = "on" /\ ~ dead /\ ~ revoked
    /\ worker["loop"].pc = "idle" /\ PanelFree
    /\ k \in SetupKeys \ handed
    /\ handed' = handed \cup {k}
    /\ Now("panel", "claimed", k, None)
    /\ UNCHANGED <<phase, journalVars, sending, reject, boxVars, credential,
                   historyVars, crashes, outages>>

-----------------------------------------------------------------------------
(* Execution of an admitted run.                                           *)

(* A run that ends before its process: refused by session, account, hash,  *)
(* manifest or offline rule, or cancelled or internal for every other      *)
(* reason; after the marker "started" only the latter.                     *)
EndEarly(w, end) ==
    /\ phase = "on"
    /\ \/ worker[w].pc = "claimed" /\ end \in {"refused", "finished"}
       \/ worker[w].pc = "prepared" /\ end = "finished"
    /\ Now(w, "ended", worker[w].key, end)
    /\ UNCHANGED <<phase, journalVars, sending, reject, boxVars, handed, credential,
                   historyVars, crashes, outages>>

(* scheduled and adhoc return without a result when the clock file, the    *)
(* test order or the renewed marker cannot be written: the marker stays.   *)
Abandon ==
    /\ phase = "on"
    /\ worker["loop"].pc = "claimed"
    /\ faults < MaxFaults /\ faults' = faults + 1
    /\ Rests("loop")
    /\ UNCHANGED <<phase, mem, disk, dead, sending, reject, boxVars, handed,
                   credential, historyVars, crashes, outages>>

(* executeReserved, State.Mark(r, "started"): any failure ends the run as  *)
(* "internal" without a process.                                           *)
MarkStarted(w) ==
    /\ phase = "on"
    /\ worker[w].pc = "claimed"
    /\ LET k == worker[w].key
           j == Marked(mem, k, "started") IN
       \/ ~ dead /\ MayMark(mem, k) /\ Saves(j) /\ Now(w, "prepared", k, None)
       \/ ~ dead /\ MayMark(mem, k) /\ SaveFails(j) /\ Now(w, "ended", k, "finished")
       \/ /\ dead \/ ~ MayMark(mem, k)
          /\ Now(w, "ended", k, "finished")
          /\ UNCHANGED journalVars
    /\ UNCHANGED <<phase, sending, reject, boxVars, handed, credential, historyVars,
                   crashes, outages>>

Spawn(w) ==
    /\ phase = "on"
    /\ worker[w].pc = "prepared"
    /\ Now(w, "running", worker[w].key, None)
    /\ spawned' = [spawned EXCEPT ![worker[w].key] = @ + 1]
    /\ UNCHANGED <<phase, journalVars, sending, reject, boxVars, handed, credential,
                   reported, crashes, outages>>

(* The process is gone and waited for, whatever ended it.                  *)
ProcessEnds(w) ==
    /\ phase = "on"
    /\ worker[w].pc = "running"
    /\ Now(w, "ended", worker[w].key, "finished")
    /\ UNCHANGED <<phase, journalVars, sending, reject, boxVars, handed, credential,
                   historyVars, crashes, outages>>

(* Deviation: Append without the check of dead.                            *)
ReportAlways(w) ==
    /\ phase = "on"
    /\ worker[w].pc = "ended"
    /\ Rests(w)
    /\ Saves(Appended(mem, Result(worker[w].key, worker[w].end)))
    /\ reported' = reported \cup {worker[w].key}
    /\ UNCHANGED <<phase, sending, reject, boxVars, handed, credential, spawned,
                   crashes, outages>>

(* report: State.Append.  Its error is returned to the loop and forgotten. *)
Report(w) ==
    /\ phase = "on"
    /\ worker[w].pc = "ended"
    /\ Rests(w)
    /\ LET k == worker[w].key
           j == Appended(mem, Result(k, worker[w].end)) IN
       \/ ~ dead /\ Saves(j) /\ reported' = reported \cup {k}
       \/ ~ dead /\ SaveFails(j) /\ UNCHANGED reported
       \/ dead /\ UNCHANGED <<journalVars, reported>>
    /\ UNCHANGED <<phase, sending, reject, boxVars, handed, credential, spawned,
                   crashes, outages>>

-----------------------------------------------------------------------------
(* Delivery: State.DeliverOne around API.Report.                           *)

(* The oldest result is copied under the lock and sent without it.         *)
DeliverOne ==
    /\ phase = "on"
    /\ LoopFree
    /\ mem.results # <<>>
    /\ sending' = Head(mem.results)
    /\ net' = net \cup {Head(mem.results)}
    /\ reply' = None
    /\ UNCHANGED <<phase, journalVars, worker, reject, core, refusals, revoked,
                   handed, credential, historyVars, crashes, outages>>

(* The box, once per request: the first valid result of a run wins, the    *)
(* same again is confirmed, another one is 409.  An older box answers 400. *)
CoreAnswer(r) ==
    /\ r \in net
    /\ net' = net \ {r}
    /\ \E answer \in {"204", "400", "409", "401"} :
         /\ answer = "401" <=> revoked
         /\ answer = "400" => r.key \in Doubtful /\ core[r.key] = None
         /\ answer = "409" <=> core[r.key] \notin {None, r} /\ ~ revoked
         /\ core' = IF answer = "204" THEN [core EXCEPT ![r.key] = r] ELSE core
         /\ refusals' = IF answer = "400" /\ refusals[r.key] < RejectLimit
                          THEN [refusals EXCEPT ![r.key] = @ + 1] ELSE refusals
         /\ reply' = IF sending = r /\ reply = None THEN answer ELSE reply
    /\ UNCHANGED <<phase, journalVars, worker, sending, reject, revoked, handed,
                   credential, historyVars, crashes, outages>>

(* The report deadline passes: the request is lost, still on its way, or   *)
(* its answer is.                                                          *)
Timeout ==
    /\ sending # None
    /\ outages < MaxOutages
    /\ outages' = outages + 1
    /\ net' \in {net, net \ {sending}}
    /\ reply' = "timeout"
    /\ reply # "timeout"
    /\ UNCHANGED <<phase, journalVars, worker, sending, reject, core, refusals,
                   revoked, handed, credential, historyVars, crashes>>

Sent == sending' = None /\ reply' = None

(* 204: the entry goes, if it is still the oldest.                         *)
Confirmed ==
    /\ phase = "on" /\ reply = "204"
    /\ Sent
    /\ reject' = IF dead THEN reject ELSE NoReject
    /\ \/ ~ dead /\ Saves(HeadRemoved(mem, sending))
       \/ ~ dead /\ SaveFails(HeadRemoved(mem, sending))
       \/ dead /\ UNCHANGED journalVars
    /\ UNCHANGED <<phase, worker, net, core, refusals, revoked, handed, credential,
                   historyVars, crashes, outages>>

(* Deviation: the count never goes on.                                     *)
CountedAnew(r) == [res |-> r, n |-> 1]

(* rejectedTooOften: the count belongs to one result.                      *)
Counted(r) == IF reject.res = r THEN [reject EXCEPT !.n = @ + 1]
                                ELSE [res |-> r, n |-> 1]

(* 400: after RejectLimit answers in a row dropOldest gives the entry up.  *)
Rejected ==
    /\ phase = "on" /\ reply = "400"
    /\ Sent
    /\ \/ dead /\ UNCHANGED <<journalVars, reject>>
       \/ /\ ~ dead
          /\ \/ Counted(sending).n < RejectLimit \/ ~ IsHead(mem, sending)
          /\ reject' = Counted(sending)
          /\ UNCHANGED journalVars
       \/ /\ ~ dead
          /\ Counted(sending).n >= RejectLimit /\ IsHead(mem, sending)
          /\ \/ Saves(HeadDropped(mem)) /\ reject' = NoReject
             \/ SaveFails(HeadDropped(mem)) /\ reject' = Counted(sending)
    /\ UNCHANGED <<phase, worker, net, core, refusals, revoked, handed, credential,
                   historyVars, crashes, outages>>

(* Any other outcome keeps the entry and starts the count anew.            *)
NotDelivered ==
    /\ phase = "on"
    /\ \/ reply \in {"409", "timeout"}
       \/ reply = "401" /\ dead
    /\ Sent
    /\ reject' = IF dead THEN reject ELSE NoReject
    /\ UNCHANGED <<phase, journalVars, worker, net, core, refusals, revoked,
                   handed, credential, historyVars, crashes, outages>>

-----------------------------------------------------------------------------
(* Revocation, death and restart.                                          *)

CoreRevokes ==
    /\ MayBeRevoked /\ ~ revoked
    /\ revoked' = TRUE
    /\ UNCHANGED <<phase, journalVars, worker, sending, reject, net, reply,
                   core, refusals, handed, credential, historyVars, crashes, outages>>

(* Any request of the runner that is answered with 401 revoked: the        *)
(* running process is killed and waited for, then State.Revoke empties the *)
(* journal and removes the directory; each locked file of it may remain.   *)
Killed(x) == IF x.pc = "running" THEN [x EXCEPT !.pc = "ended", !.end = "finished"] ELSE x

Revoke ==
    /\ phase = "on" /\ revoked /\ ~ dead
    /\ dead' = TRUE
    /\ mem' = Empty
    /\ worker' = [w \in Workers |-> Killed(worker[w])]
    /\ disk' \in {disk, Empty}
    /\ credential' \in BOOLEAN
    /\ UNCHANGED <<phase, sending, reject, boxVars, handed, historyVars,
                   crashes, faults, outages>>

Gone == /\ phase' = "off"
        /\ worker' = [w \in Workers |-> Idle]
        /\ sending' = None
        /\ reply' = None
        /\ reject' = NoReject
        /\ mem' = Empty
        /\ UNCHANGED <<disk, dead, net, core, refusals, revoked, handed, credential,
                       historyVars, outages>>

(* Power loss or a killed runner at any point between two steps.  The job  *)
(* object ends its processes with it.                                      *)
Crash == /\ phase # "off"
         /\ crashes < MaxCrashes
         /\ crashes' = crashes + 1
         /\ Gone
         /\ UNCHANGED faults

(* Run returns ErrRevoked and the process ends.                            *)
Quit == /\ phase = "on" /\ dead
        /\ \A w \in Workers : worker[w].pc = "idle"
        /\ Gone
        /\ UNCHANGED <<crashes, faults>>

(* OpenState: the journal file is read; without a credential nothing runs. *)
OpenState ==
    /\ phase = "off" /\ credential
    /\ phase' = "boot"
    /\ mem' = disk
    /\ dead' = FALSE
    /\ UNCHANGED <<disk, worker, sending, reject, boxVars, handed, credential,
                   historyVars, crashes, faults, outages>>

(* Deviation: an open marker is left alone at the start.                   *)
RecoverNothing ==
    /\ phase = "boot" /\ phase' = "on"
    /\ UNCHANGED <<journalVars, worker, sending, reject, boxVars, handed,
                   credential, historyVars, crashes, outages>>

(* Recover: an open marker becomes the result "interrupted" before the     *)
(* loop starts; if that cannot be written Run returns and the process ends.*)
Recover ==
    /\ phase = "boot"
    /\ \/ /\ mem.marker = None
          /\ phase' = "on"
          /\ UNCHANGED <<journalVars, reported>>
       \/ /\ mem.marker # None
          /\ LET k == mem.marker.key
                 j == Appended(mem, Result(k, "interrupted")) IN
             \/ Saves(j) /\ phase' = "on" /\ reported' = reported \cup {k}
             \/ /\ faults < MaxFaults /\ faults' = faults + 1
                /\ disk' \in {disk, Stored(j)}
                /\ mem' = Empty /\ phase' = "off"
                /\ UNCHANGED <<dead, reported>>
    /\ UNCHANGED <<worker, sending, reject, boxVars, handed, credential, spawned,
                   crashes, outages>>

-----------------------------------------------------------------------------
Next == \/ \E s \in Schedules, t \in 1..MaxTime : ReserveRun(s, t)
        \/ \E k \in JobKeys : ClaimJob(k)
        \/ \E k \in SetupKeys : StartPanelSetup(k)
        \/ (* Before its process a run ends with a result, or with none. *)
           phase = "on" /\ (Abandon \/ \E w \in Workers, end \in Ends : EndEarly(w, end))
        \/ \E w \in Workers : MarkStarted(w)
        \/ \E w \in Workers : Spawn(w)
        \/ \E w \in Workers : ProcessEnds(w)
        \/ \E w \in Workers : Report(w)
        \/ DeliverOne
        \/ \E r \in Results : CoreAnswer(r)
        \/ Timeout
        \/ Confirmed
        \/ Rejected
        \/ NotDelivered
        \/ CoreRevokes
        \/ Revoke
        \/ Crash
        \/ Quit
        \/ OpenState
        \/ Recover

Spec == Init /\ [][Next]_vars

(***************************************************************************)
(* Fairness: the runner is started again after a death, an admitted run    *)
(* goes on (its process ends at the latest at the wall limit), the loop    *)
(* comes back to DeliverOne, the box works on requests that reach it, and a*)
(* revoked device asks it again.  No fairness for new runs, crashes,       *)
(* faults, outages and for the box's decision to revoke.                   *)
(***************************************************************************)
Fairness ==
    /\ WF_vars(OpenState) /\ WF_vars(Recover) /\ WF_vars(Revoke)
    /\ \A w \in Workers : /\ WF_vars(MarkStarted(w))
                          /\ WF_vars(Spawn(w))
                          /\ WF_vars(ProcessEnds(w))
                          /\ WF_vars(Report(w))
    /\ SF_vars(DeliverOne)
    /\ \A r \in Results : WF_vars(CoreAnswer(r))
    /\ WF_vars(Confirmed) /\ WF_vars(Rejected) /\ WF_vars(NotDelivered)

FairSpec == Spec /\ Fairness

-----------------------------------------------------------------------------
(***************************************************************************)
(* Properties.  What rests on the journal is stated for a device that is   *)
(* not revoked: a removal that fails half-way may take the slots and leave *)
(* the credential.                                                         *)
(***************************************************************************)

(* Every variable has the shape the code gives it.                         *)
TypeOK ==
    /\ phase \in {"off", "boot", "on"}
    /\ mem \in Journals
    /\ disk \in Journals
    /\ dead \in BOOLEAN
    /\ worker \in [Workers -> Busy \cup {Idle}]
    /\ sending \in Results \cup {None}
    /\ reject \in [res : Results \cup {None}, n : Nat]
    /\ net \subseteq Results
    /\ reply \in {"204", "400", "409", "401", "timeout", None}
    /\ core \in [Keys -> Results \cup {None}]
    /\ refusals \in [Keys -> Nat]
    /\ revoked \in BOOLEAN
    /\ handed \subseteq Keys
    /\ credential \in BOOLEAN
    /\ spawned \in [Keys -> Nat]
    /\ reported \subseteq Keys
    /\ crashes \in Nat /\ faults \in Nat /\ outages \in Nat

(* What a restart or the next call would go by.                            *)
Truth == IF phase = "off" THEN disk ELSE mem

Everywhere == ResultsIn(mem) \cup ResultsIn(disk) \cup net
                \cup ({core[k] : k \in Keys} \ {None})
                \cup ({sending} \ {None})

(* A run has one result, wherever copies of it are: in memory, on disk, on *)
(* the wire or at the box; so the box never has to answer 409 ended.       *)
OneResultPerRun ==
    ~ revoked => \A r1, r2 \in Everywhere : r1.key = r2.key => r1 = r2

(* The process of a slot, job or setup is started at most once, whatever   *)
(* crashes, failing writes and clock jumps come between (contract: "nie    *)
(* erneut gestartet").                                                     *)
StartedAtMostOnce == ~ revoked => \A k \in Keys : spawned[k] <= 1

(* A result "refused" promises that no process was started for the run.    *)
RefusedMeansNotStarted ==
    ~ revoked => \A r \in Everywhere : r.end = "refused" => spawned[r.key] = 0

(* While a process runs, the file on disk holds its marker, so that a      *)
(* death of the runner is reported as "interrupted".                       *)
MarkerBeforeProcess ==
    \A w \in Workers :
        worker[w].pc = "running" /\ ~ dead =>
            disk.marker = [key |-> worker[w].key, phase |-> "started"]

(* Nothing that was durably reported vanishes uncounted: what is neither   *)
(* in the journal nor at the box is covered by the loss counter.           *)
NoSilentLoss ==
    ~ revoked =>
      Cardinality({k \in reported : core[k] = None /\ k \notin KeysOf(Truth.results)})
        <= Truth.dropped

(* A marker that belongs to no goroutine, which blocks every further run   *)
(* with ErrBusy until the next start, is left only by a local failure.     *)
NoOrphanMarker ==
    phase = "on" /\ mem.marker # None /\ faults = 0 =>
        \E w \in Workers : worker[w].pc # "idle" /\ worker[w].key = mem.marker.key

(* What a result says is so: there is one per run, "refused" is said of no  *)
(* run that was started, and only a local failure leaves a run without one. *)
ResultsSound == OneResultPerRun /\ RefusedMeansNotStarted /\ NoOrphanMarker

(* A run is started at most once, and what is said of it afterwards is so. *)
RunsSound == StartedAtMostOnce /\ ResultsSound

(* From a revocation on the journal file is not written again, whatever is *)
(* still running at that moment (Use: "no writer can resurrect data").     *)
NothingAfterRevocation ==
    [][ dead \/ ~ credential => disk' = disk ]_vars

(* A result leaves the journal for the box, or counted, or because the box  *)
(* has refused this very result RejectLimit times, not different ones in    *)
(* turn; nothing else makes it vanish.                                      *)
NothingLost ==
    [][ /\ NoSilentLoss'
        /\ \A k \in KeysOf(mem.results) \ KeysOf(mem'.results) :
              reply = "400" /\ reply' = None /\ phase' = "on"
                => refusals[k] >= RejectLimit ]_vars

(* The slot watermark of a schedule never falls back.                      *)
SlotsNeverGoBack ==
    [][ \A s \in Schedules : Truth'.slots[s] >= Truth.slots[s] \/ dead' ]_vars

(* Every run the disk knows as open is reported, be it as "interrupted",   *)
(* or the device is revoked.                                               *)
EveryOpenRunReported ==
    \A k \in Keys :
        disk.marker # None /\ disk.marker.key = k ~> k \in reported \/ dead

(* Every started run is finally settled: the box has its result, or the    *)
(* loss counter covers it.  One result the box cannot take does not hold   *)
(* up the ones behind it for ever.                                         *)
EveryStartedRunSettled ==
    \A k \in Keys : spawned[k] > 0 ~>
        \/ core[k] # None
        \/ k \in reported /\ k \notin KeysOf(Truth.results)
        \/ dead
=============================================================================
