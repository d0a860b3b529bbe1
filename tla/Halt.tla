-------------------------------- MODULE Halt --------------------------------
(***************************************************************************)
(* Halt, pause and resume of the desktop runner (client/halt.go): the      *)
(* state in memory and in the sealed file "halt", the local fault, the     *)
(* expiry of a pause, and the report to the box with its throttle.  What   *)
(* a halt does to runs and claims is in Admission.                        *)
(***************************************************************************)
EXTENDS Integers

CONSTANTS None,         \* absence of a report, of a promise
          Throttle,     \* ticks between two reports, 10 s in the source
          MaxBack,      \* how far the wall clock may be set back, in ticks
          FirstUse,     \* whether no halt was ever stored on this device
          MaxCommands,  \* bound on halt commands and expiries
          MaxFaults,    \* bound on failing writes and damaged files
          MaxRestarts,  \* bound on deaths of the runner
          MaxLost       \* bound on reports that end without an answer

ASSUME HaltAssumption == /\ Throttle \in Nat \ {0} /\ MaxBack \in Nat
                         /\ FirstUse \in BOOLEAN
                         /\ MaxCommands \in Nat /\ MaxFaults \in Nat
                         /\ MaxRestarts \in Nat /\ MaxLost \in Nat

VARIABLES
    up,         \* the runner process is there and has loaded the halt state
    halt,       \* Engine.halt; timed: a pause with an end
    over,       \* the end of the pause has passed
    fault,      \* Engine.haltFault
    version,    \* Engine.haltVersion
    pending,    \* Engine.haltPending
    stored,     \* the file "halt": a halt, Missing or Damaged
    sending,    \* the halt and version an unanswered report carries, or None
    box,        \* the state the box was last told
    age,        \* ticks since Engine.haltAttempt, at most Throttle
    wallAge,    \* the same by wall clock and by the file "halt-attempt"
    since,      \* ticks since a report was really sent
    told,       \* the last command that returned nil, None after a failed one
    commands, faults, restarts, lost

controlVars == <<halt, fault, version, pending, stored>>
reportVars  == <<sending, box, age, wallAge, since, lost>>
haltVars == <<up, controlVars, over, reportVars, told, commands, faults, restarts>>

Missing == [state |-> "missing", timed |-> FALSE]
Damaged == [state |-> "damaged", timed |-> FALSE]
Working == [state |-> "arbeitet", timed |-> FALSE]
Stopped == [state |-> "angehalten", timed |-> FALSE]
Halts == {Working, Stopped} \cup [state : {"pausiert"}, timed : BOOLEAN]

ASSUME NoneAssumption ==
    None \notin Halts /\ None \notin [h : Halts, version : Nat]

HaltInit ==
    /\ up = TRUE
    /\ halt = Working
    /\ over = FALSE
    /\ fault = FALSE
    /\ version = 0
    /\ pending = FALSE
    /\ stored = IF FirstUse THEN Missing ELSE Working
    /\ sending = None
    /\ box = "arbeitet"
    /\ age = Throttle /\ wallAge = Throttle /\ since = Throttle
    /\ told = Working
    /\ commands = 0 /\ faults = 0 /\ restarts = 0 /\ lost = 0

-----------------------------------------------------------------------------

(* setHaltLocked: the memory first; a failing write ends in the fault,     *)
(* which is "angehalten" whatever was asked for.                           *)
SetHalt(h) ==
    /\ version' = version + 1
    /\ pending' = TRUE
    /\ \/ /\ halt' = h /\ stored' = h /\ fault' = FALSE /\ told' = h
          /\ UNCHANGED faults
       \/ /\ faults < MaxFaults /\ faults' = faults + 1
          /\ halt' = Stopped /\ fault' = TRUE /\ told' = None
          /\ UNCHANGED stored

(* Halt and Pause.  A pause cannot weaken a stop; a repeated command is a  *)
(* no-op unless it is needed to leave the fault.                           *)
Accepted(h) == /\ ~ (h.state = "pausiert" /\ halt.state = "angehalten")
               /\ h # halt \/ fault \/ h.timed

Command(h) ==
    /\ up /\ commands < MaxCommands
    /\ commands' = commands + 1
    /\ Accepted(h)
    /\ SetHalt(h)
    /\ over' = FALSE
    /\ UNCHANGED <<up, reportVars, restarts>>

(* The wall clock passes the end of the pause; nothing happens yet.        *)
PauseRunsOut ==
    /\ halt.timed \/ stored.timed
    /\ ~ over /\ over' = TRUE
    /\ UNCHANGED <<up, controlVars, reportVars, told, commands, faults, restarts>>

(* haltedLocked, whichever of its callers comes first: the tick of runHalt *)
(* comes every second.                                                     *)
Expire ==
    /\ up /\ halt.timed /\ over
    /\ SetHalt(Working)
    /\ over' = FALSE
    /\ UNCHANGED <<up, reportVars, commands, restarts>>

-----------------------------------------------------------------------------
(* deliverHalt.                                                            *)

(* The attempt is stored before the request; if it cannot be, no request.  *)
BeginReport ==
    /\ up /\ pending /\ sending = None
    /\ age = Throttle /\ wallAge = Throttle
    /\ \/ /\ sending' = [h |-> halt, version |-> version]
          /\ age' = 0 /\ wallAge' = 0 /\ since' = 0
          /\ UNCHANGED faults
       \/ /\ faults < MaxFaults /\ faults' = faults + 1
          /\ UNCHANGED <<sending, age, wallAge, since>>
    /\ UNCHANGED <<up, controlVars, over, box, lost, told, commands, restarts>>

(* Deviation: an answer clears whatever is pending.                        *)
ReportAckedAny ==
    /\ up /\ sending # None
    /\ box' = sending.h.state
    /\ pending' = FALSE
    /\ sending' = None
    /\ UNCHANGED <<up, halt, fault, version, stored, over, age, wallAge, since,
                   lost, told, commands, faults, restarts>>

(* 204.  The answer clears only the state it belongs to.                   *)
ReportAcked ==
    /\ up /\ sending # None
    /\ box' = sending.h.state
    /\ pending' = (pending /\ version # sending.version)
    /\ sending' = None
    /\ UNCHANGED <<up, halt, fault, version, stored, over, age, wallAge, since,
                   lost, told, commands, faults, restarts>>

(* Five seconds without an answer; the box may have taken it all the same. *)
ReportLost ==
    /\ up /\ sending # None /\ lost < MaxLost
    /\ lost' = lost + 1
    /\ box' \in {box, sending.h.state}
    /\ sending' = None
    /\ UNCHANGED <<up, controlVars, over, age, wallAge, since, told, commands,
                   faults, restarts>>

-----------------------------------------------------------------------------
(* Time.                                                                   *)

Older(n) == IF n < Throttle THEN n + 1 ELSE n

Tick == /\ age < Throttle \/ wallAge < Throttle \/ since < Throttle
        /\ sending = None
        /\ age' = Older(age) /\ wallAge' = Older(wallAge) /\ since' = Older(since)
        /\ UNCHANGED <<up, controlVars, over, sending, box, lost, told, commands,
                       faults, restarts>>

(* The wall clock is set back; the monotonic one of the process is not.    *)
ClockBack == /\ faults < MaxFaults /\ faults' = faults + 1
             /\ wallAge > 0 - MaxBack
             /\ wallAge' \in (0 - MaxBack)..(wallAge - 1)
             /\ UNCHANGED <<up, controlVars, over, sending, box, age, since, lost,
                            told, commands, restarts>>

-----------------------------------------------------------------------------
(* Restart.                                                                *)

(* The process ends; a report on its way may or may not reach the box.     *)
Dies == /\ up /\ restarts < MaxRestarts
        /\ up' = FALSE
        /\ restarts' = restarts + 1
        /\ IF sending = None THEN UNCHANGED box ELSE box' \in {box, sending.h.state}
        /\ sending' = None
        /\ age' = Throttle
        /\ UNCHANGED <<controlVars, over, wallAge, since, lost, told, commands, faults>>

(* The file is damaged while nobody looks.                                 *)
Damage == /\ ~ up /\ faults < MaxFaults /\ stored # Missing
          /\ faults' = faults + 1
          /\ stored' = Damaged
          /\ UNCHANGED <<up, halt, fault, version, pending, over, reportVars, told,
                         commands, restarts>>

(* Deviation: a file that cannot be read means normal operation.           *)
LoadTrusting ==
    /\ ~ up /\ up' = TRUE
    /\ halt' = IF stored \in {Missing, Damaged} THEN Working ELSE stored
    /\ fault' = FALSE
    /\ version' = version + 1 /\ pending' = TRUE
    /\ UNCHANGED <<stored, over, reportVars, told, commands, faults, restarts>>

(* loadHaltLocked, before the first tick.  Only a missing file means       *)
(* normal operation, and only then nothing is reported.                    *)
Load ==
    /\ ~ up /\ up' = TRUE
    /\ \/ /\ stored = Missing
          /\ halt' = Working /\ fault' = FALSE
          /\ version' = 0 /\ pending' = FALSE
       \/ /\ stored = Damaged
          /\ halt' = Stopped /\ fault' = TRUE
          /\ version' = 1 /\ pending' = TRUE
       \/ /\ stored \in Halts
          /\ halt' = stored /\ fault' = FALSE
          /\ version' = 1 /\ pending' = TRUE
    /\ UNCHANGED <<stored, over, reportVars, told, commands, faults, restarts>>

-----------------------------------------------------------------------------
HaltNext == \/ \E h \in Halts : Command(h)
            \/ PauseRunsOut
            \/ Expire
            \/ BeginReport
            \/ ReportAcked
            \/ ReportLost
            \/ Tick
            \/ ClockBack
            \/ Dies
            \/ Damage
            \/ Load

Spec == HaltInit /\ [][HaltNext]_haltVars

(* The runner is started again, its one-second tick goes on, time passes,  *)
(* and a request is answered or given up.                                  *)
FairSpec == /\ Spec
            /\ WF_haltVars(Load) /\ WF_haltVars(Tick)
            /\ WF_haltVars(Expire) /\ WF_haltVars(BeginReport)
            /\ WF_haltVars(ReportAcked \/ ReportLost)

-----------------------------------------------------------------------------
TypeOK ==
    /\ up \in BOOLEAN
    /\ halt \in Halts
    /\ over \in BOOLEAN
    /\ fault \in BOOLEAN
    /\ version \in Nat
    /\ pending \in BOOLEAN
    /\ stored \in Halts \cup {Missing, Damaged}
    /\ sending \in [h : Halts, version : Nat] \cup {None}
    /\ box \in {"arbeitet", "pausiert", "angehalten"}
    /\ age \in 0..Throttle /\ since \in 0..Throttle
    /\ wallAge \in (0 - MaxBack)..Throttle
    /\ told \in Halts \cup {None}
    /\ commands \in Nat /\ faults \in Nat /\ restarts \in Nat /\ lost \in Nat

(* A stop that Halt has confirmed lasts until a command lifts it: over     *)
(* restarts, a damaged file, failing writes and the clock.  A confirmed    *)
(* pause lasts as long, or until its end.                                  *)
ConfirmedHaltLasts ==
    up => /\ told = Stopped => halt = Stopped
          /\ told # None /\ told.state = "pausiert" => halt.state # "arbeitet"

(* With no report owed, the box was told what holds on the device          *)
(* ("Wechsel werden ... nachgeliefert").                                   *)
NothingOwed == up /\ ~ pending => box = halt.state

(* A confirmed halt lasts, and the box knows it once nothing is owed.      *)
HaltKeeps == ConfirmedHaltLasts /\ NothingOwed

(* Two requests to the box are at least Throttle apart in real time, even  *)
(* with a restart between them and a clock that was set back.              *)
ThrottleKept ==
    [][ sending = None /\ sending' # None => since >= Throttle ]_haltVars

(* The fault is left by a stored command only.                             *)
FaultIsSticky ==
    [][ up /\ fault /\ up' /\ ~ fault' => halt' = stored' /\ commands' > commands ]_haltVars

(* A state the box does not know is not left at that: after the last        *)
(* command the box is told what the device is in, through throttle, lost    *)
(* reports, reports of older states and restarts.                         *)
BoxLearns == up /\ pending ~> box = halt.state \/ ~ up
=============================================================================
