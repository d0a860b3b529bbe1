----------------------------- MODULE Admission -----------------------------
(***************************************************************************)
(* Who may start a script on the device, and who stops it                  *)
(* (client/engine.go, halt.go, pipe.go; the Windows runner).  The serial   *)
(* loop runs scheduled slots and claimed jobs; a goroutine runs a setup    *)
(* chosen in the panel; the panel session commands halts and asks for the  *)
(* status; the heartbeat brings cancellations; any HTTP answer may bring   *)
(* the revocation.  Code between two critical sections of Engine.mu is one *)
(* step.  The files of a halt and its report are in Halt, the marker, the  *)
(* journal and restarts in Outbox.                                         *)
(***************************************************************************)
EXTENDS Naturals

CONSTANTS None,        \* no owner, no run, no cancellation on its way
          Watched,     \* a panel is connected and asks for the status
          Revocable,   \* the box may revoke the device
          MaxMinute,   \* bound on the clock
          MaxRuns,     \* bound on runs
          MaxVersion,  \* bound on halt transitions
          MaxSetups,   \* bound on setups admitted
          MaxManifest  \* bound on manifests

ASSUME AdmissionAssumption ==
    /\ Watched \in BOOLEAN /\ Revocable \in BOOLEAN
    /\ MaxMinute \in Nat /\ MaxRuns \in Nat /\ MaxVersion \in Nat
    /\ MaxSetups \in Nat /\ MaxManifest \in Nat
    /\ None \notin {"loop", "panel", "probe"} /\ None \notin Nat
    /\ None \notin [run : Nat, cancelled : BOOLEAN]

VARIABLES
    minute,      \* the clock
    halt,        \* Engine.halt.State
    fault,       \* Engine.haltFault
    through,     \* Engine.haltThrough
    version,     \* Engine.haltVersion
    manifest,    \* which manifest Engine.bundle holds
    admission,   \* owner of Engine.admission
    runMu,       \* owner of Engine.runMu
    pending,     \* Engine.panelPending
    generation,  \* Engine.panelGeneration
    active,      \* whose run Engine.active, activeKey and activeCancel are
    phase,       \* where each thread is
    run,         \* its locals: see Locals
    alive,       \* its process is there
    slots,       \* State.Journal.Slots: the minutes reserved
    runs,        \* runs so far
    target,      \* the run a heartbeat answer cancels, or None
    session,     \* where panelStatus is with its two locks
    revoke,      \* how far Engine.Revoke and the shutdown have got
    haltedMinutes  \* history: minutes that saw a halt or its end

haltVars  == <<halt, fault, through, version>>
lockVars  == <<admission, runMu>>
panelVars == <<pending, generation>>
runVars   == <<active, phase, run, alive, slots, runs>>
calm == <<minute, haltVars, manifest, target, session, revoke, haltedMinutes>>
vars == <<calm, lockVars, panelVars, runVars>>

Threads == {"loop", "panel"}
States  == {"arbeitet", "pausiert", "angehalten"}
Phases  == {"idle", "poll", "got", "due", "admitted", "reserved", "held", "http",
            "answered", "prepared", "marked", "live", "over", "report", "unpend", "unlock",
            "release", "gone"}
Ends    == {"none", "ok", "timeout", "internal", "busy", "cancelled", "refused"}
Moments == [version : Nat, generation : Nat, manifest : Nat]

(* key: the run, None before it has one; slot: 0 for a job or a setup;     *)
(* seen: the snapshot its permission was given under; cancelled: its       *)
(* context.  History: a halt, setup or manifest crossed its permission;    *)
(* there is cause to cancel it, or its wall time was up; a halt or the      *)
(* heartbeat killed its process.                                           *)
Locals == [key : Nat \cup {None}, slot : Nat, seen : Moments, end : Ends,
           cancelled : BOOLEAN, crossed : BOOLEAN, cause : BOOLEAN, killed : BOOLEAN]

Nothing == [key |-> None, slot |-> 0,
            seen |-> [version |-> 0, generation |-> 0, manifest |-> 0], end |-> "none",
            cancelled |-> FALSE, crossed |-> FALSE, cause |-> FALSE, killed |-> FALSE]

Now == [version |-> version, generation |-> generation, manifest |-> manifest]

Init ==
    /\ minute = 1
    /\ halt = "arbeitet" /\ fault = FALSE /\ through = 0 /\ version = 0
    /\ manifest = 0
    /\ admission = None /\ runMu = None
    /\ pending = FALSE /\ generation = 0
    /\ active = None
    /\ phase = [t \in Threads |-> "idle"]
    /\ run = [t \in Threads |-> Nothing]
    /\ alive = [t \in Threads |-> FALSE]
    /\ slots = {} /\ runs = 0
    /\ target = None /\ session = "idle" /\ revoke = "no"
    /\ haltedMinutes = {}

Go(t, p) == phase' = [phase EXCEPT ![t] = p]

(* A thread that goes back to where it waits forgets its locals.           *)
Leave(t) == Go(t, "idle") /\ run' = [run EXCEPT ![t] = Nothing]

Finished(t, e, p) == Go(t, p) /\ run' = [run EXCEPT ![t].end = e]

Tick == /\ minute < MaxMinute
        /\ minute' = minute + 1
        /\ haltedMinutes' = IF halt = "arbeitet" THEN haltedMinutes
                            ELSE haltedMinutes \cup {minute + 1}
        /\ UNCHANGED <<haltVars, manifest, target, session, revoke, lockVars, panelVars,
                       runVars>>

-----------------------------------------------------------------------------
(* Halt, Pause, resume and the end of a pause.                             *)

Accepted(h) == /\ ~ (h = "pausiert" /\ halt = "angehalten")
               /\ h # halt \/ fault \/ h = "pausiert"

(* Deviation: the stop reaches only the runs of the loop.                  *)
StruckLoop(t, h) == h = "angehalten" /\ active = t /\ t = "loop"

(* stopForHaltLocked.  The context is cancelled before the process is      *)
(* killed, both under Engine.mu; the run's own goroutine, the only one     *)
(* that looks without it, sees no difference to both at once.              *)
Struck(t, h) == h = "angehalten" /\ active = t

(* A run that a transition or a new manifest keeps from its process.       *)
Unstarted(t) == phase[t] \in {"reserved", "held", "http", "answered", "prepared",
                           "marked"}

Marked(t, h) ==
    [run[t] EXCEPT !.cancelled = @ \/ Struck(t, h),
                   !.killed    = @ \/ (Struck(t, h) /\ alive[t]),
                   !.crossed   = @ \/ phase[t] = "poll" \/ (t = "panel" /\ phase[t] # "idle"),
                   !.cause     = @ \/ Unstarted(t) \/ (phase[t] = "live" /\ h = "angehalten")]

(* setHaltLocked; a failing write ends in the fault, a stop.               *)
Command(h) ==
    /\ Accepted(h)
    /\ version < MaxVersion
    /\ version' = version + 1
    /\ through' = minute
    /\ \/ halt' = h /\ fault' = FALSE
       \/ halt' = "angehalten" /\ fault' = TRUE
    /\ run' = [t \in Threads |-> Marked(t, halt')]
    /\ alive' = [t \in Threads |-> alive[t] /\ ~ Struck(t, halt')]
    /\ haltedMinutes' = haltedMinutes \cup {minute}
    /\ UNCHANGED <<minute, manifest, target, session, revoke, lockVars, panelVars, active,
                   phase, slots, runs>>

-----------------------------------------------------------------------------
(* The serial loop of Engine.Run: synchronise, scheduled runs, claims.     *)

LoopGoesOn == phase["loop"] = "idle" /\ revoke = "no"

(* Sync stores a newer signed manifest.  A scheduled run whose start the   *)
(* box answers with 409 manifest synchronises too, and binds itself to the *)
(* new one; a setup it does not bind, it crosses.                          *)
Sync == /\ LoopGoesOn \/ (phase["loop"] = "reserved" /\ run["loop"].slot # 0 /\ revoke = "no")
        /\ manifest < MaxManifest
        /\ manifest' = manifest + 1
        /\ run' = [run EXCEPT !["panel"].crossed = @ \/ phase["panel"] # "idle",
                              !["panel"].cause = @ \/ Unstarted("panel")]
        /\ UNCHANGED <<minute, haltVars, target, session, revoke, haltedMinutes, lockVars,
                       panelVars, active, phase, alive, slots, runs>>

(* A slot of the minute in which the loop went round is due.  The clock    *)
(* may go on before scheduled has done anything about it.                  *)
Due == /\ LoopGoesOn
       /\ Go("loop", "due")
       /\ run' = [run EXCEPT !["loop"].slot = minute]
       /\ UNCHANGED <<calm, lockVars, panelVars, active, alive, slots, runs>>

ScheduleHalted == halt # "arbeitet" \/ run["loop"].slot <= through

(* scheduled: TryLock, and the early look at the halt state.               *)
Schedule ==
    /\ phase["loop"] = "due"
    /\ IF admission = None /\ ~ ScheduleHalted
       THEN Go("loop", "admitted") /\ admission' = "loop" /\ UNCHANGED run
       ELSE Leave("loop") /\ UNCHANGED admission
    /\ UNCHANGED <<calm, runMu, panelVars, active, alive, slots, runs>>

(* The thread's run has its key.                                           *)
NewRun(t) == /\ runs < MaxRuns
             /\ runs' = runs + 1
             /\ run' = [run EXCEPT ![t].key = runs + 1, ![t].cause = @ \/ revoke # "no"]

(* reserveScheduled: the look that counts and the slot are one step.  A    *)
(* slot that is taken, or halted by now, is left without a result.         *)
Reserve ==
    /\ phase["loop"] = "admitted"
    /\ IF ScheduleHalted \/ run["loop"].slot \in slots \/ revoke = "dead"
       THEN Go("loop", "release") /\ UNCHANGED <<run, runs, slots>>
       ELSE /\ Go("loop", "reserved") /\ NewRun("loop")
            /\ slots' = slots \cup {run["loop"].slot}
    /\ UNCHANGED <<calm, lockVars, panelVars, active, alive>>

(* claim: nothing is polled while the device is halted or a setup has the  *)
(* slot.                                                                   *)
Poll ==
    /\ LoopGoesOn
    /\ halt = "arbeitet" /\ ~ pending
    /\ Go("loop", "poll")
    /\ run' = [run EXCEPT !["loop"].seen = Now]
    /\ UNCHANGED <<calm, lockVars, panelVars, active, alive, slots, runs>>

Crossed == \/ halt # "arbeitet"
           \/ run["loop"].seen.version # version
           \/ run["loop"].seen.generation # generation

(* The answer, or the end of the poll: claimCancel only hastens it.  A job *)
(* that a halt or a setup crossed on its way is dropped; the box lets its  *)
(* lease run out.                                                          *)
PollEnds ==
    /\ phase["loop"] = "poll"
    /\ \/ Leave("loop")
       \/ ~ Crossed /\ Go("loop", "got") /\ UNCHANGED run
    /\ UNCHANGED <<calm, lockVars, panelVars, active, alive, slots, runs>>

(* adhoc.  If the admission is not to be had, or the device was halted     *)
(* since, the job is dropped.                                              *)
Adhoc ==
    /\ phase["loop"] = "got"
    /\ IF admission # None \/ halt # "arbeitet" \/ revoke = "dead"
       THEN Leave("loop") /\ UNCHANGED <<admission, runs>>
       ELSE Go("loop", "reserved") /\ admission' = "loop" /\ NewRun("loop")
    /\ UNCHANGED <<calm, runMu, panelVars, active, alive, slots>>

(* What both check before Execute: start-by, pin, environment, offline     *)
(* grace, the box's answer to the start.                                   *)
TurnedDown ==
    /\ phase["loop"] = "reserved"
    /\ \E e \in {"refused", "internal"} : Finished("loop", e, "release")
    /\ UNCHANGED <<calm, lockVars, panelVars, active, alive, slots, runs>>

(* Execute.  "busy" is "internal" in the source: the run lock was taken.   *)
Execute ==
    /\ phase["loop"] = "reserved"
    /\ IF halt # "arbeitet" THEN Finished("loop", "cancelled", "release") /\ UNCHANGED runMu
       ELSE IF runMu # None THEN Finished("loop", "busy", "release") /\ UNCHANGED runMu
       ELSE runMu' = "loop" /\ Go("loop", "prepared") /\ UNCHANGED run
    /\ UNCHANGED <<calm, admission, panelVars, active, alive, slots, runs>>

-----------------------------------------------------------------------------
(* The setup of the panel: startPanelSetup and its goroutine.              *)

(* Both locks, the first look at halt and connection, and the snapshots;   *)
(* without them the command is turned down and nothing changes.            *)
SetupBegins ==
    /\ phase["panel"] = "idle" /\ session = "idle"
    /\ admission = None /\ runMu = None
    /\ halt = "arbeitet"
    /\ admission' = "panel" /\ runMu' = "panel"
    /\ Go("panel", "held")
    /\ run' = [run EXCEPT !["panel"].seen = Now]
    /\ UNCHANGED <<calm, panelVars, active, alive, slots, runs>>

(* Manifest, setup, environment, account; or the halt that came meanwhile. *)
SetupRefused ==
    /\ phase["panel"] = "held"
    /\ admission' = None /\ runMu' = None
    /\ Leave("panel")
    /\ UNCHANGED <<calm, panelVars, active, alive, slots, runs>>

Admitted ==
    /\ phase["panel"] = "held"
    /\ halt = "arbeitet" /\ version = run["panel"].seen.version
    /\ generation < MaxSetups
    /\ generation' = generation + 1
    /\ pending' = TRUE
    /\ Go("panel", "http")
    /\ run' = [run EXCEPT !["loop"].crossed = @ \/ phase["loop"] = "poll"]
    /\ UNCHANGED <<calm, active, alive, slots, runs>>

(* The last local look before the request.  A poll of the loop is ended,   *)
(* and what it brings all the same is not taken.                           *)
SetupAdmitted == Admitted /\ UNCHANGED lockVars

(* The answer to runs/start, or none: an offline setup is never queued.    *)
SetupAnswered ==
    /\ phase["panel"] = "http"
    /\ \/ Go("panel", "report") /\ UNCHANGED <<run, runs>>
       \/ /\ revoke # "closed"
          /\ NewRun("panel")
          /\ Go("panel", "answered")
    /\ UNCHANGED <<calm, lockVars, panelVars, active, alive, slots>>

(* A halt or a manifest that crossed the request, or an answer that is too *)
(* late, leaves a result without a run.                                    *)
SetupChecked ==
    /\ phase["panel"] = "answered"
    /\ IF \/ halt # "arbeitet" \/ version # run["panel"].seen.version
          \/ manifest # run["panel"].seen.manifest
       THEN Finished("panel", "cancelled", "report")
       ELSE \/ Finished("panel", "internal", "report")
            \/ Go("panel", "prepared") /\ UNCHANGED run
    /\ UNCHANGED <<calm, lockVars, panelVars, active, alive, slots, runs>>

-----------------------------------------------------------------------------
(* executeReserved, for both threads.                                      *)

(* Account, package, environment, input, run directory: refused or         *)
(* internal; then the marker, unless the state is deleted.                 *)
Prepare(t) ==
    /\ phase[t] = "prepared"
    /\ \/ \E e \in {"refused", "internal"} : Finished(t, e, "report")
       \/ revoke \notin {"dead", "closed"} /\ Go(t, "marked") /\ UNCHANGED run
    /\ UNCHANGED <<calm, lockVars, panelVars, active, alive, slots, runs>>

(* Deviation: the permission of a setup is not looked at again.            *)
PermitUnchecked(t) == TRUE

(* panelPermitValidLocked.                                                 *)
PermitValid(t) == t = "panel" => /\ version = run[t].seen.version
                                 /\ manifest = run[t].seen.manifest

(* Deviation: nothing but its wall time ends a setup.                      *)
ContextDoneLoop(t) == t = "loop" /\ revoke # "no"

(* The context a run is started under: the loop's ends with the            *)
(* revocation, a setup's only when the panel is closed after the loop.     *)
ContextDone(t) == IF t = "loop" THEN revoke # "no" ELSE revoke = "closed"

WorkAllowed == halt = "arbeitet"

(* The look at the halt state and Spawn are one step.                      *)
Spawn(t) ==
    /\ phase[t] = "marked"
    /\ \/ /\ ~ (WorkAllowed /\ PermitValid(t))
          /\ Finished(t, "cancelled", "report")
          /\ UNCHANGED <<active, alive>>
       \/ /\ WorkAllowed /\ PermitValid(t)
          /\ Finished(t, "internal", "report")
          /\ UNCHANGED <<active, alive>>
       \/ /\ WorkAllowed /\ PermitValid(t) /\ ~ ContextDone(t)
          /\ Go(t, "live") /\ UNCHANGED run
          /\ active' = t
          /\ alive' = [alive EXCEPT ![t] = TRUE]
    /\ UNCHANGED <<calm, lockVars, panelVars, slots, runs>>

(* The frame for the script, then the select: the script is done or broke   *)
(* the protocol, or its context is cancelled, which decides.               *)
Outcomes(t) == IF run[t].cancelled \/ ContextDone(t) THEN {"cancelled"}
               ELSE {"ok", "internal"}
(* Its wall time was up first.  A frame that could not be written by then   *)
(* ends "cancelled" too, with nobody who cancelled.                        *)
Overdue(t, e) == Go(t, "over") /\ run' = [run EXCEPT ![t].end = e, ![t].cause = TRUE]

Finish(t) ==
    /\ phase[t] = "live"
    /\ \/ \E e \in Outcomes(t) : Finished(t, e, "over")
       \/ \E e \in {"timeout", "cancelled"} : Overdue(t, e)
    /\ alive' = [alive EXCEPT ![t] = FALSE]
    /\ UNCHANGED <<calm, lockVars, panelVars, active, slots, runs>>

(* The deferred end: reader, question, last picture, then active = nil.    *)
Close(t) ==
    /\ phase[t] = "over"
    /\ Go(t, "report")
    /\ active' = None
    /\ UNCHANGED <<calm, lockVars, panelVars, run, alive, slots, runs>>

-----------------------------------------------------------------------------
(* The way out.  The loop gives back the run lock with Execute and the     *)
(* admission after the report; the setup reports first, then clears        *)
(* panelPending, the run lock and the admission, each in a step.           *)

LoopUnlocks ==
    /\ phase["loop"] = "report"
    /\ Go("loop", "release")
    /\ runMu' = None
    /\ UNCHANGED <<calm, admission, panelVars, active, run, alive, slots, runs>>

PanelReports ==
    /\ phase["panel"] = "report"
    /\ Go("panel", "unpend")
    /\ UNCHANGED <<calm, lockVars, panelVars, active, run, alive, slots, runs>>

(* Deviation: the reservation is left set.                                 *)
PanelKeepsPending ==
    /\ phase["panel"] = "unpend"
    /\ Go("panel", "unlock")
    /\ UNCHANGED <<calm, lockVars, panelVars, active, run, alive, slots, runs>>

PanelUnpends ==
    /\ phase["panel"] = "unpend"
    /\ Go("panel", "unlock")
    /\ pending' = FALSE
    /\ UNCHANGED <<calm, lockVars, generation, active, run, alive, slots, runs>>

PanelUnlocks ==
    /\ phase["panel"] = "unlock"
    /\ Go("panel", "release")
    /\ runMu' = None
    /\ UNCHANGED <<calm, admission, panelVars, active, run, alive, slots, runs>>

Release(t) ==
    /\ phase[t] = "release"
    /\ Leave(t)
    /\ admission' = None
    /\ UNCHANGED <<calm, runMu, panelVars, active, alive, slots, runs>>

-----------------------------------------------------------------------------
(* panelStatus tries both locks, the run lock first, to see whether the    *)
(* device is busy: after each command, and every second.                   *)
Probe ==
    /\ Watched /\ phase["panel"] # "held"
    /\ \/ session = "idle" /\ runMu = None
          /\ runMu' = "probe" /\ session' = "runMu" /\ UNCHANGED admission
       \/ session = "runMu"
          /\ runMu' = None /\ session' = "between" /\ UNCHANGED admission
       \/ /\ session = "between" \/ (session = "idle" /\ runMu # None)
          /\ admission = None
          /\ admission' = "probe" /\ session' = "admission" /\ UNCHANGED runMu
       \/ session = "between" /\ admission # None
          /\ session' = "idle" /\ UNCHANGED lockVars
       \/ session = "admission"
          /\ admission' = None /\ session' = "idle" /\ UNCHANGED runMu
    /\ UNCHANGED <<minute, haltVars, manifest, target, revoke, haltedMinutes, panelVars,
                   runVars>>

-----------------------------------------------------------------------------
(* applyCancellations: the answer names a run; what it stops is looked up  *)
(* under the lock and cancelled and killed without it.                     *)

HeartbeatNames ==
    /\ target = None /\ active # None
    /\ target' = [run |-> run[active].key, cancelled |-> FALSE]
    /\ run' = [run EXCEPT ![active].cause = TRUE]
    /\ UNCHANGED <<minute, haltVars, manifest, session, revoke, haltedMinutes, lockVars,
                   panelVars, active, phase, alive, slots, runs>>

IsTarget(t) == phase[t] = "live" /\ run[t].key = target.run

HeartbeatCancels ==
    /\ target # None /\ ~ target.cancelled
    /\ target' = [target EXCEPT !.cancelled = TRUE]
    /\ run' = [t \in Threads |-> [run[t] EXCEPT !.cancelled = @ \/ IsTarget(t)]]
    /\ UNCHANGED <<minute, haltVars, manifest, session, revoke, haltedMinutes, lockVars,
                   panelVars, active, phase, alive, slots, runs>>

HeartbeatKills ==
    /\ target # None /\ target.cancelled
    /\ target' = None
    /\ alive' = [t \in Threads |-> alive[t] /\ ~ IsTarget(t)]
    /\ run' = [t \in Threads |-> [run[t] EXCEPT !.killed = @ \/ (alive[t] /\ IsTarget(t))]]
    /\ UNCHANGED <<minute, haltVars, manifest, session, revoke, haltedMinutes, lockVars,
                   panelVars, active, phase, slots, runs>>

-----------------------------------------------------------------------------
(* Engine.Revoke, called by whichever request is answered 401, and the end *)
(* of the process after it.                                                *)

(* The loop's context ends; what runs is killed.                           *)
Revoked ==
    /\ Revocable /\ revoke = "no"
    /\ revoke' = "told"
    /\ run' = [t \in Threads |-> [run[t] EXCEPT !.cause = TRUE]]
    /\ alive' = [t \in Threads |-> alive[t] /\ t # active]
    /\ UNCHANGED <<minute, haltVars, manifest, target, session, haltedMinutes, lockVars,
                   panelVars, active, phase, slots, runs>>

(* State.Revoke: no reservation, marker or result after this.              *)
StateDeleted ==
    /\ revoke = "told"
    /\ revoke' = "dead"
    /\ UNCHANGED <<minute, haltVars, manifest, target, session, haltedMinutes, lockVars,
                   panelVars, runVars>>

(* Engine.Run returns when the loop is through.                            *)
RunReturns ==
    /\ revoke \in {"told", "dead"}
    /\ phase["loop"] = "idle"
    /\ Go("loop", "gone")
    /\ UNCHANGED <<calm, lockVars, panelVars, active, run, alive, slots, runs>>

(* closePanel, deferred behind Run: the context of the setups ends, and    *)
(* the process waits for them.                                             *)
ClosePanel ==
    /\ revoke = "dead" /\ phase["loop"] = "gone"
    /\ revoke' = "closed"
    /\ UNCHANGED <<minute, haltVars, manifest, target, session, haltedMinutes, lockVars,
                   panelVars, runVars>>

-----------------------------------------------------------------------------
Outside == \/ Tick
           \/ \E h \in States : Command(h)
           \/ Probe
           \/ HeartbeatNames \/ HeartbeatCancels \/ HeartbeatKills
           \/ Revoked \/ StateDeleted \/ RunReturns \/ ClosePanel

Loop == \/ Sync \/ Due \/ Schedule \/ Reserve
        \/ Poll \/ PollEnds \/ Adhoc
        \/ TurnedDown \/ Execute
        \/ LoopUnlocks

Setup == \/ SetupBegins \/ SetupRefused \/ SetupAdmitted \/ SetupAnswered \/ SetupChecked
         \/ PanelReports \/ PanelUnpends \/ PanelUnlocks

Script(t) == Prepare(t) \/ Spawn(t) \/ Finish(t) \/ Close(t) \/ Release(t)

Next == \/ Outside
        \/ Loop
        \/ Setup
        \/ \E t \in Threads : Script(t)

Spec == Init /\ [][Next]_vars

(* A run whose context is done or whose process is gone comes to its end.  *)
Stopping(t) == Finish(t) /\ (run[t].cancelled \/ ContextDone(t) \/ ~ alive[t])

(* The goroutines go on, requests are answered or time out.  Nothing makes *)
(* a script end that nobody stops, nor a panel that is connected go away.  *)
FairSpec ==
    /\ Spec
    /\ WF_vars(Schedule \/ Reserve) /\ WF_vars(PollEnds \/ Adhoc)
    /\ WF_vars(TurnedDown \/ Execute) /\ WF_vars(LoopUnlocks)
    /\ WF_vars(SetupRefused) /\ WF_vars(SetupAnswered \/ SetupChecked)
    /\ WF_vars(PanelReports \/ PanelUnpends \/ PanelUnlocks)
    /\ \A t \in Threads : /\ WF_vars(Prepare(t) \/ Spawn(t))
                          /\ WF_vars(Stopping(t)) /\ WF_vars(Close(t) \/ Release(t))
    /\ WF_vars(HeartbeatCancels \/ HeartbeatKills)
    /\ WF_vars(StateDeleted) /\ WF_vars(RunReturns) /\ WF_vars(ClosePanel)

-----------------------------------------------------------------------------
TypeOK ==
    /\ minute \in Nat /\ through \in Nat /\ version \in Nat
    /\ manifest \in Nat /\ generation \in Nat /\ runs \in Nat
    /\ halt \in States
    /\ fault \in BOOLEAN /\ pending \in BOOLEAN
    /\ admission \in Threads \cup {"probe", None}
    /\ runMu \in Threads \cup {"probe", None}
    /\ active \in Threads \cup {None}
    /\ phase \in [Threads -> Phases]
    /\ run \in [Threads -> Locals]
    /\ alive \in [Threads -> BOOLEAN]
    /\ slots \subseteq Nat
    /\ target \in [run : Nat, cancelled : BOOLEAN] \cup {None}
    /\ session \in {"idle", "runMu", "between", "admission"}
    /\ revoke \in {"no", "told", "dead", "closed"}
    /\ haltedMinutes \subseteq Nat

(* Two scripts never run at the same time, whatever way they came: slot,   *)
(* job or setup ("schliesst Zeitplan, Ad-hoc und direktes Execute aus").   *)
OneProcess == \A t, u \in Threads : alive[t] /\ alive[u] => t = u

(* While the device is halted no script runs, and none is started: not by  *)
(* a job fetched before, not by a setup whose request was under way        *)
(* ("Anhalten ... beendet den laufenden Job-Baum sofort").                 *)
NoneWhileStopped == halt = "angehalten" => \A t \in Threads : ~ alive[t]

(* A slot of a minute in which the device was halted or paused is never    *)
(* reserved, not after the resume in the same minute either ("kein         *)
(* Nachholen").                                                            *)
NoCatchUp == [][ (slots' \ slots) \cap haltedMinutes = {} ]_vars

(* No script starts on a permission that something crossed: a job polled   *)
(* across a halt (even one resumed at once) or across the admission of a   *)
(* setup, a setup whose request or preparation a halt or a new manifest    *)
(* crossed.                                                                *)
NothingCrossedStarts ==
    [][ \A t \in Threads : /\ ~ alive[t] /\ alive'[t]
                           /\ t = "panel" \/ run[t].slot = 0
                           => ~ run[t].crossed ]_vars

(* Whatever starts is of now: no slot of a halted minute, no permission    *)
(* that is over.                                                           *)
StartsAreFresh == NoCatchUp /\ NothingCrossedStarts

(* A run ends "cancelled" only for a reason of its own: the heartbeat      *)
(* named it, the device was stopped while it ran, halted or paused before  *)
(* it ran, its setup was withdrawn, the device was revoked, or its wall    *)
(* time was up before its frame was written.  So a pause lets the running   *)
(* script end, and an answer meant for one run never hits its successor.    *)
CancelledForCause == \A t \in Threads : run[t].end = "cancelled" => run[t].cause

(* A script that the halt or a heartbeat killed is reported cancelled (or  *)
(* timed out), never as a fault of the runner or as done.                  *)
StopEndsCancelled ==
    \A t \in Threads : run[t].killed /\ phase[t] # "live" => run[t].end \in {"cancelled", "timeout"}

(* The locks stand for runs: a run that holds the admission is not turned  *)
(* away by the run lock.                                                   *)
NotTurnedAway == \A t \in Threads : run[t].end # "busy"

(* Once the state is deleted no script is left running.                    *)
RevokedIsQuiet == revoke \in {"dead", "closed"} => \A t \in Threads : ~ alive[t]

(* A revocation ends every script for good, also one that it crossed on    *)
(* its way to its process.                                                 *)
RevokedEndsRuns == revoke = "told" ~> [](\A t \in Threads : ~ alive[t])

(* A setup gives back all it took, so that the loop polls again, unless    *)
(* its script goes on.                                                     *)
SetupGivesBack ==
    pending ~> \/ alive["panel"]
               \/ ~ pending /\ admission # "panel" /\ runMu # "panel"

(* The runner as a person at the device sees it.                           *)
Gate == INSTANCE RunGate WITH Runs <- 1..MaxRuns, gate <- halt,
                              live <- {run[t].key : t \in {u \in Threads : alive[u]}}
ImplementsGate == Gate!GateSpec
=============================================================================
