-------------------------- MODULE AdmissionProofs ---------------------------
(***************************************************************************)
(* Proofs about Admission, for every clock, every number of runs, halts,   *)
(* setups and manifests, watched or not, revocable or not, and about what  *)
(* the control panel shows beside it: the page of an app in its window,    *)
(* its halt button, and the windows of apps.  The four share nothing but   *)
(* this module.                                                            *)
(***************************************************************************)
EXTENDS Admission, Window, Exchange, AppWindows, SequenceTheorems, TLAPS

-----------------------------------------------------------------------------
(* The inductive invariant.  The properties of Admission speak of          *)
(* processes and results; what keeps them is who owns which lock in which  *)
(* phase, which run a key stands for, and what a snapshot is compared with.*)

AfterAdmission == {"admitted", "reserved", "held", "http", "answered", "prepared",
                   "marked", "live", "over", "report", "unpend", "unlock", "release"}
WithRunMu == AfterAdmission \ {"admitted", "reserved", "release"}
BeforeProcess == {"reserved", "held", "http", "answered", "prepared", "marked"}
WithKey == {"reserved", "answered", "prepared", "marked", "live", "over"}
SinceProcess == {"live", "over", "report", "unpend", "unlock", "release"}

(* A phase tells which locks its thread has.                               *)
LocksInv ==
    /\ \A t \in Threads : phase[t] \in AfterAdmission => admission = t
    /\ \A t \in Threads : phase[t] \in WithRunMu => runMu = t
    /\ session = "runMu" => runMu = "probe"
    /\ session = "admission" => admission = "probe"

(* Engine.active is the run that has a process, and goes on a little.      *)
ActiveInv ==
    /\ \A t \in Threads : active = t <=> phase[t] \in {"live", "over"}
    /\ \A t \in Threads : alive[t] => phase[t] = "live"
    /\ halt = "angehalten" => \A t \in Threads : ~ alive[t]

(* No two runs have the same key, and a key is given once.                 *)
KeysInv ==
    /\ runs <= MaxRuns
    /\ \A t \in Threads : phase[t] \in WithKey => run[t].key # None
    /\ \A t \in Threads : run[t].key # None => 1 <= run[t].key /\ run[t].key <= runs
    /\ \A t, u \in Threads : run[t].key # None /\ run[t].key = run[u].key => t = u

(* haltThrough is past every minute of a halt as soon as the device works. *)
MinutesInv ==
    /\ through <= minute
    /\ \A m \in haltedMinutes : m <= minute /\ (halt = "arbeitet" => m <= through)

(* What crossed a permission shows in its snapshot.                        *)
SeenInv ==
    /\ \A t \in Threads : /\ run[t].seen.version <= version
                          /\ run[t].seen.generation <= generation
                          /\ run[t].seen.manifest <= manifest
    /\ run["loop"].crossed => phase["loop"] = "poll" /\ (\/ version # run["loop"].seen.version
                                                        \/ generation # run["loop"].seen.generation)
    /\ run["panel"].crossed => phase["panel"] # "idle" /\ (\/ version # run["panel"].seen.version
                                                          \/ manifest # run["panel"].seen.manifest)

(* There is cause wherever the code is about to end a run "cancelled".     *)
CauseInv ==
    /\ \A t \in Threads : run[t].end = "cancelled" => run[t].cause
    /\ \A t \in Threads : phase[t] \in BeforeProcess /\ halt # "arbeitet" => run[t].cause
    /\ phase["panel"] \in BeforeProcess /\ (\/ version # run["panel"].seen.version
                                            \/ manifest # run["panel"].seen.manifest)
         => run["panel"].cause
    /\ \A t \in Threads : run[t].cancelled => phase[t] \in SinceProcess
    /\ \A t \in Threads : phase[t] = "live" /\ run[t].cancelled => run[t].cause
    /\ revoke # "no" => \A t \in Threads : run[t].key # None => run[t].cause

(* What a heartbeat answer means, from its look-up to its second half.     *)
TargetInv ==
    target # None =>
        /\ target.run \in 1..runs
        /\ \A t \in Threads : run[t].key = target.run =>
             /\ phase[t] \in SinceProcess
             /\ run[t].cause
             /\ target.cancelled /\ phase[t] = "live" => run[t].cancelled

(* A process that was killed had its context cancelled before.             *)
KilledInv ==
    \A t \in Threads : run[t].killed =>
        /\ phase[t] \in SinceProcess
        /\ IF phase[t] = "live" THEN run[t].cancelled
           ELSE run[t].end \in {"cancelled", "timeout"}

IInv == /\ TypeOK /\ LocksInv /\ ActiveInv /\ KeysInv
        /\ MinutesInv /\ SeenInv /\ CauseInv /\ TargetInv /\ KilledInv

-----------------------------------------------------------------------------
(* Type correctness.                                                       *)

(* The locals a thread goes back to.                                       *)
LEMMA NothingType == Nothing \in Locals
BY DEF Nothing, Locals, Moments, Ends

(* What a permission is given under.                                       *)
LEMMA NowType == TypeOK => Now \in Moments
BY DEF TypeOK, Now, Moments

(* A thread that leaves keeps the shape of the threads.                    *)
LEMMA LeaveType ==
    ASSUME TypeOK, NEW t \in Threads, Leave(t)
    PROVE  run' \in [Threads -> Locals] /\ phase' \in [Threads -> Phases]
BY NothingType DEF TypeOK, Leave, Go, Phases

(* So does one whose run has ended.                                        *)
LEMMA FinishedType ==
    ASSUME TypeOK, NEW t \in Threads, NEW e \in Ends, NEW p \in Phases, Finished(t, e, p)
    PROVE  run' \in [Threads -> Locals] /\ phase' \in [Threads -> Phases]
BY DEF TypeOK, Finished, Go, Locals
LEMMA OverdueType ==
    ASSUME TypeOK, NEW t \in Threads, NEW e \in Ends, Overdue(t, e)
    PROVE  run' \in [Threads -> Locals] /\ phase' \in [Threads -> Phases]
<1>1. run[t] \in Locals /\ run \in [Threads -> Locals]
  BY DEF TypeOK
<1>2. [run[t] EXCEPT !.end = e, !.cause = TRUE] \in Locals
  BY <1>1 DEF Locals
<1>3. run' = [run EXCEPT ![t] = [run[t] EXCEPT !.end = e, !.cause = TRUE]]
  BY <1>1 DEF Overdue
<1>4. phase' \in [Threads -> Phases]
  BY DEF TypeOK, Overdue, Go, Phases
<1> QED BY <1>1, <1>2, <1>3, <1>4

(* So does one whose run got its key.                                      *)
LEMMA NewRunType ==
    ASSUME TypeOK, NEW t \in Threads, NewRun(t)
    PROVE  run' \in [Threads -> Locals] /\ runs' \in Nat
<1>1. runs' \in Nat
  BY DEF TypeOK, NewRun
<1>2. [run[t] EXCEPT !.key = runs + 1, !.cause = @ \/ revoke # "no"] \in Locals
  BY <1>1 DEF TypeOK, NewRun, Locals
<1>3. run' = [run EXCEPT ![t] =
                [run[t] EXCEPT !.key = runs + 1, !.cause = @ \/ revoke # "no"]]
  BY DEF TypeOK, NewRun
<1> QED
  BY <1>1, <1>2, <1>3 DEF TypeOK

(* What a transition of the halt state leaves in the locals.               *)
LEMMA MarkedType ==
    ASSUME TypeOK, NEW t \in Threads, NEW h
    PROVE  Marked(t, h) \in Locals
<1>1. run[t] \in Locals
  BY DEF TypeOK
<1>2. run[t].cancelled \in BOOLEAN /\ run[t].killed \in BOOLEAN
        /\ run[t].crossed \in BOOLEAN /\ run[t].cause \in BOOLEAN
  BY <1>1 DEF Locals
<1> QED
  BY <1>1, <1>2 DEF Marked, Locals

(* A flag of the locals is set.                                            *)
LEMMA FlagType ==
    ASSUME NEW x \in Locals, NEW b \in BOOLEAN
    PROVE  /\ [x EXCEPT !.cause = b] \in Locals
           /\ [x EXCEPT !.cancelled = b] \in Locals
           /\ [x EXCEPT !.killed = b] \in Locals
BY DEF Locals

(* Every step keeps the types; that the run a heartbeat names has a key    *)
(* rests on the invariant.                                                 *)
LEMMA TypeStep == IInv /\ [Next]_vars => TypeOK'
<1> SUFFICES ASSUME IInv, TypeOK, [Next]_vars PROVE TypeOK'
  BY DEF IInv
<1> USE AdmissionAssumption
<1>1. CASE UNCHANGED vars
  BY <1>1 DEF TypeOK, vars, calm, haltVars, lockVars, panelVars, runVars
<1>2. CASE Tick
  BY <1>2 DEF TypeOK, Tick, haltVars, lockVars, panelVars, runVars
<1>3. ASSUME NEW h \in States, Command(h) PROVE TypeOK'
  <2>1. halt' \in States /\ fault' \in BOOLEAN
    BY <1>3 DEF Command, States
  <2>2. run' \in [Threads -> Locals]
    BY <1>3, MarkedType DEF Command
  <2>3. alive' \in [Threads -> BOOLEAN]
    BY <1>3 DEF Command, TypeOK
  <2> QED
    BY <1>3, <2>1, <2>2, <2>3 DEF TypeOK, Command, lockVars, panelVars
<1>4. CASE Probe
  <2>1. /\ admission' \in Threads \cup {"probe", None}
        /\ runMu' \in Threads \cup {"probe", None}
        /\ session' \in {"idle", "runMu", "between", "admission"}
    BY <1>4 DEF TypeOK, Probe, lockVars
  <2> QED
    BY <1>4, <2>1 DEF TypeOK, Probe, haltVars, panelVars, runVars
<1>5. CASE HeartbeatNames
  <2>1. run' \in [Threads -> Locals] /\ target' \in [run : Nat, cancelled : BOOLEAN]
    <3>1. active \in Threads /\ run[active].key \in Nat
      BY <1>5 DEF HeartbeatNames, IInv, TypeOK, ActiveInv, KeysInv, WithKey, Locals
    <3>2. PICK t \in Threads : t = active
      BY <3>1
    <3>3. [run[t] EXCEPT !.cause = TRUE] \in Locals
      BY FlagType DEF TypeOK
    <3> QED
      BY <1>5, <3>1, <3>2, <3>3 DEF HeartbeatNames, TypeOK
  <2> QED
    BY <1>5, <2>1 DEF HeartbeatNames, TypeOK, haltVars, lockVars, panelVars
<1>6. CASE HeartbeatCancels
  <2>1. \A t \in Threads : [run[t] EXCEPT !.cancelled = @ \/ IsTarget(t)] \in Locals
    <3> TAKE t \in Threads
    <3>1. run[t] \in Locals /\ (run[t].cancelled \/ IsTarget(t)) \in BOOLEAN
      BY DEF TypeOK, IsTarget
    <3> QED
      BY <3>1, FlagType
  <2>2. run' \in [Threads -> Locals]
    BY <1>6, <2>1 DEF HeartbeatCancels
  <2>3. target' \in [run : Nat, cancelled : BOOLEAN]
    BY <1>6 DEF HeartbeatCancels, TypeOK
  <2> QED
    BY <1>6, <2>2, <2>3 DEF TypeOK, HeartbeatCancels, haltVars, lockVars, panelVars
<1>7. CASE HeartbeatKills
  <2>1. \A t \in Threads :
          [run[t] EXCEPT !.killed = @ \/ (alive[t] /\ IsTarget(t))] \in Locals
    BY DEF TypeOK, Locals
  <2>2. run' \in [Threads -> Locals]
    BY <1>7, <2>1 DEF HeartbeatKills
  <2>3. alive' \in [Threads -> BOOLEAN]
    BY <1>7 DEF HeartbeatKills
  <2> QED
    BY <1>7, <2>2, <2>3 DEF TypeOK, HeartbeatKills, haltVars, lockVars, panelVars
<1>8. CASE Revoked
  <2>0. ASSUME NEW r \in Locals PROVE [r EXCEPT !.cause = TRUE] \in Locals
    BY DEF Locals
  <2>1. \A t \in Threads : [run[t] EXCEPT !.cause = TRUE] \in Locals
    BY <2>0 DEF TypeOK
  <2>2. run' \in [Threads -> Locals]
    BY <1>8, <2>1 DEF Revoked
  <2>3. alive' \in [Threads -> BOOLEAN]
    BY <1>8 DEF Revoked
  <2> QED
    BY <1>8, <2>2, <2>3 DEF TypeOK, Revoked, haltVars, lockVars, panelVars
<1>9. CASE StateDeleted
  BY <1>9 DEF TypeOK, StateDeleted, haltVars, lockVars, panelVars, runVars
<1>10. CASE RunReturns
  <2>1. phase' \in [Threads -> Phases]
    BY <1>10 DEF TypeOK, RunReturns, Go, Phases
  <2> QED
    BY <1>10, <2>1 DEF TypeOK, RunReturns, calm, haltVars, lockVars, panelVars
<1>11. CASE ClosePanel
  BY <1>11 DEF TypeOK, ClosePanel, haltVars, lockVars, panelVars, runVars
<1>12. CASE Sync
  <2>1. [run["panel"] EXCEPT !.crossed = @ \/ phase["panel"] # "idle",
                             !.cause = @ \/ Unstarted("panel")] \in Locals
    BY DEF TypeOK, Locals, Threads
  <2>2. run' \in [Threads -> Locals]
    BY <1>12, <2>1 DEF Sync, TypeOK
  <2> QED
    BY <1>12, <2>2 DEF TypeOK, Sync, haltVars, lockVars, panelVars
<1>13. CASE Due
  <2>1. [run["loop"] EXCEPT !.slot = minute] \in Locals
    BY DEF TypeOK, Locals, Threads
  <2>2. run' \in [Threads -> Locals]
    BY <1>13, <2>1 DEF Due, TypeOK
  <2> QED
    BY <1>13, <2>2 DEF TypeOK, Due, Go, Phases, calm, haltVars, lockVars, panelVars
<1>14. CASE Schedule
  BY <1>14, LeaveType DEF TypeOK, Schedule, Go, Phases, Threads, calm, haltVars,
     panelVars
<1>15. CASE Reserve
  <2>1. run["loop"].slot \in Nat
    BY DEF TypeOK, Locals, Threads
  <2>2. run' \in [Threads -> Locals] /\ runs' \in Nat
    BY <1>15, NewRunType DEF Reserve, TypeOK, Threads
  <2>3. slots' \subseteq Nat
    BY <1>15, <2>1 DEF Reserve, TypeOK
  <2>4. phase' \in [Threads -> Phases]
    BY <1>15 DEF Reserve, TypeOK, Go, Phases
  <2> QED
    BY <1>15, <2>2, <2>3, <2>4 DEF TypeOK, Reserve, calm, haltVars, lockVars, panelVars
<1>16. CASE Poll
  BY <1>16, NowType DEF TypeOK, Poll, Go, Phases, Threads, calm, haltVars, lockVars,
     panelVars, Locals
<1>17. CASE PollEnds
  BY <1>17, LeaveType DEF TypeOK, PollEnds, Go, Phases, Threads, calm, haltVars,
     lockVars, panelVars
<1>18. CASE Adhoc
  BY <1>18, NewRunType, LeaveType DEF TypeOK, Adhoc, Go, Phases, Threads, calm,
     haltVars, panelVars
<1>19. CASE TurnedDown
  BY <1>19, FinishedType DEF TypeOK, TurnedDown, Ends, Phases, Threads, calm, haltVars,
     lockVars, panelVars
<1>20. CASE Execute
  BY <1>20, FinishedType DEF TypeOK, Execute, Go, Ends, Phases, Threads, calm, haltVars,
     panelVars
<1>21. CASE LoopUnlocks
  BY <1>21 DEF TypeOK, LoopUnlocks, Go, Phases, Threads, calm, haltVars, panelVars
<1>22. CASE SetupBegins
  BY <1>22, NowType DEF TypeOK, SetupBegins, Go, Phases, Threads, calm, haltVars,
     panelVars, Locals
<1>23. CASE SetupRefused
  BY <1>23, LeaveType DEF TypeOK, SetupRefused, Threads, calm, haltVars, panelVars
<1>24. CASE SetupAdmitted
  <2>1. [run["loop"] EXCEPT !.crossed = @ \/ phase["loop"] = "poll"] \in Locals
    BY DEF TypeOK, Locals, Threads
  <2>2. run' \in [Threads -> Locals]
    BY <1>24, <2>1 DEF SetupAdmitted, Admitted, TypeOK
  <2> QED
    BY <1>24, <2>2 DEF TypeOK, SetupAdmitted, Admitted, Go, Phases, Threads, calm,
       haltVars, lockVars
<1>25. CASE SetupAnswered
  BY <1>25, NewRunType DEF TypeOK, SetupAnswered, Go, Phases, Threads, calm, haltVars,
     lockVars, panelVars
<1>26. CASE SetupChecked
  BY <1>26, FinishedType DEF TypeOK, SetupChecked, Go, Ends, Phases, Threads, calm,
     haltVars, lockVars, panelVars
<1>27. CASE PanelReports
  BY <1>27 DEF TypeOK, PanelReports, Go, Phases, calm, haltVars, lockVars, panelVars,
     Threads
<1>28. CASE PanelUnpends
  <2>1. phase' \in [Threads -> Phases]
    BY <1>28 DEF TypeOK, PanelUnpends, Go, Phases
  <2> QED
    BY <1>28, <2>1 DEF TypeOK, PanelUnpends, calm, haltVars, lockVars
<1>29. CASE PanelUnlocks
  BY <1>29 DEF TypeOK, PanelUnlocks, Go, Phases, calm, haltVars, panelVars
<1>30. ASSUME NEW t \in Threads, Prepare(t) PROVE TypeOK'
  BY <1>30, FinishedType DEF TypeOK, Prepare, Go, Ends, Phases, calm, haltVars,
     lockVars, panelVars
<1>31. ASSUME NEW t \in Threads, Spawn(t) PROVE TypeOK'
  <2>1. run' \in [Threads -> Locals] /\ phase' \in [Threads -> Phases]
    <3>1. CASE Go(t, "live") /\ UNCHANGED run
      BY <3>1 DEF TypeOK, Go, Phases
    <3>2. "report" \in Phases /\ {"cancelled", "internal"} \subseteq Ends
      BY DEF Phases, Ends
    <3> QED
      BY <1>31, <3>1, <3>2, FinishedType DEF Spawn
  <2>2. active' \in Threads \cup {None} /\ alive' \in [Threads -> BOOLEAN]
    BY <1>31 DEF TypeOK, Spawn
  <2> QED
    BY <1>31, <2>1, <2>2 DEF TypeOK, Spawn, calm, haltVars, lockVars, panelVars
<1>32. ASSUME NEW t \in Threads, Finish(t) PROVE TypeOK'
  BY <1>32, FinishedType, OverdueType DEF TypeOK, Finish, Outcomes, Ends, Phases, calm, haltVars,
     lockVars, panelVars
<1>33. ASSUME NEW t \in Threads, Close(t) PROVE TypeOK'
  BY <1>33 DEF TypeOK, Close, Go, Phases, calm, haltVars, lockVars, panelVars
<1>34. ASSUME NEW t \in Threads, Release(t) PROVE TypeOK'
  BY <1>34, LeaveType DEF TypeOK, Release, calm, haltVars, panelVars
<1> QED
  BY <1>1, <1>2, <1>3, <1>4, <1>5, <1>6, <1>7, <1>8, <1>9, <1>10, <1>11, <1>12, <1>13,
     <1>14, <1>15, <1>16, <1>17, <1>18, <1>19, <1>20, <1>21, <1>22, <1>23, <1>24, <1>25,
     <1>26, <1>27, <1>28, <1>29, <1>30, <1>31, <1>32, <1>33, <1>34
  DEF Next, Outside, Loop, Setup, Script
-----------------------------------------------------------------------------
(* The locks.                                                              *)

(* Every step keeps the locks with their phases.                           *)
LEMMA LocksStep == IInv /\ [Next]_vars => LocksInv'
<1> SUFFICES ASSUME IInv, [Next]_vars PROVE LocksInv'
  OBVIOUS
<1> USE AdmissionAssumption
<1> USE DEF LocksInv, AfterAdmission, WithRunMu, Threads, Go, Leave, Finished, calm,
     haltVars, lockVars, panelVars, runVars
<1>0. LocksInv /\ phase \in [Threads -> Phases]
  BY DEF IInv, TypeOK
<1>1. CASE UNCHANGED vars
  BY <1>0, <1>1 DEF vars
<1>2. CASE \/ Tick
          \/ (\E h \in States : Command(h))
          \/ HeartbeatNames
          \/ HeartbeatCancels
          \/ HeartbeatKills
          \/ Revoked
          \/ StateDeleted
          \/ ClosePanel
          \/ Sync
  BY <1>0, <1>2 DEF Tick, Command, Struck, HeartbeatNames, HeartbeatCancels,
     HeartbeatKills, Revoked, StateDeleted, ClosePanel, Sync
<1>3. CASE Probe
  BY <1>0, <1>3 DEF Probe
<1>4. CASE RunReturns
  BY <1>0, <1>4 DEF RunReturns
<1>5. CASE Due
  BY <1>0, <1>5 DEF Due, LoopGoesOn
<1>6. CASE Schedule
  BY <1>0, <1>6 DEF Schedule
<1>7. CASE Reserve
  BY <1>0, <1>7 DEF Reserve
<1>8. CASE Poll
  BY <1>0, <1>8 DEF Poll, LoopGoesOn
<1>9. CASE PollEnds
  BY <1>0, <1>9 DEF PollEnds
<1>10. CASE Adhoc
  BY <1>0, <1>10 DEF Adhoc
<1>11. CASE TurnedDown
  BY <1>0, <1>11 DEF TurnedDown
<1>12. CASE Execute
  BY <1>0, <1>12 DEF Execute
<1>13. CASE LoopUnlocks
  BY <1>0, <1>13 DEF LoopUnlocks
<1>14. CASE SetupBegins
  BY <1>0, <1>14 DEF SetupBegins
<1>15. CASE SetupRefused
  BY <1>0, <1>15 DEF SetupRefused
<1>16. CASE SetupAdmitted
  BY <1>0, <1>16 DEF SetupAdmitted, Admitted
<1>17. CASE SetupAnswered
  BY <1>0, <1>17 DEF SetupAnswered
<1>18. CASE SetupChecked
  BY <1>0, <1>18 DEF SetupChecked
<1>19. CASE PanelReports
  BY <1>0, <1>19 DEF PanelReports
<1>20. CASE PanelUnpends
  BY <1>0, <1>20 DEF PanelUnpends
<1>21. CASE PanelUnlocks
  BY <1>0, <1>21 DEF PanelUnlocks
<1>22. ASSUME NEW t \in Threads, Prepare(t) PROVE LocksInv'
  BY <1>0, <1>22 DEF Prepare
<1>23. ASSUME NEW t \in Threads, Spawn(t) PROVE LocksInv'
  BY <1>0, <1>23 DEF Spawn, WorkAllowed
<1>24. ASSUME NEW t \in Threads, Finish(t) PROVE LocksInv'
  BY <1>0, <1>24 DEF Finish, Overdue
<1>25. ASSUME NEW t \in Threads, Close(t) PROVE LocksInv'
  BY <1>0, <1>25 DEF Close
<1>26. ASSUME NEW t \in Threads, Release(t) PROVE LocksInv'
  BY <1>0, <1>26 DEF Release
<1> HIDE DEF LocksInv, AfterAdmission, WithRunMu, Threads
<1> QED
  BY <1>1, <1>2, <1>3, <1>4, <1>5, <1>6, <1>7, <1>8, <1>9, <1>10, <1>11, <1>12, <1>13,
     <1>14, <1>15, <1>16, <1>17, <1>18, <1>19, <1>20, <1>21, <1>22, <1>23, <1>24, <1>25,
     <1>26
  DEF Next, Outside, Loop, Setup, Script
-----------------------------------------------------------------------------
(* Engine.active and the processes.                                        *)

(* Every step keeps Engine.active with the process, and the halt state     *)
(* without one.                                                            *)
LEMMA ActiveStep == IInv /\ [Next]_vars => ActiveInv'
<1> SUFFICES ASSUME IInv, [Next]_vars PROVE ActiveInv'
  OBVIOUS
<1> USE AdmissionAssumption
<1> USE DEF ActiveInv, LocksInv, AfterAdmission, WithRunMu, Threads, Go, Leave,
     Finished, calm, haltVars, lockVars, panelVars, runVars
<1>0. /\ ActiveInv /\ LocksInv /\ halt \in States
      /\ phase \in [Threads -> Phases] /\ alive \in [Threads -> BOOLEAN]
  BY DEF IInv, TypeOK
<1>1. CASE UNCHANGED vars
  BY <1>0, <1>1 DEF vars
<1>2. CASE \/ Tick
          \/ Probe
          \/ HeartbeatNames
          \/ HeartbeatCancels
          \/ StateDeleted
          \/ ClosePanel
          \/ Sync
  BY <1>0, <1>2 DEF Tick, Probe, HeartbeatNames, HeartbeatCancels, StateDeleted,
     ClosePanel, Sync
<1>3. ASSUME NEW h \in States, Command(h) PROVE ActiveInv'
  BY <1>0, <1>3 DEF Command, Struck
<1>4. CASE HeartbeatKills
  BY <1>0, <1>4 DEF HeartbeatKills
<1>5. CASE Revoked
  BY <1>0, <1>5 DEF Revoked
<1>6. CASE RunReturns
  BY <1>0, <1>6 DEF RunReturns
<1>7. CASE Due
  BY <1>0, <1>7 DEF Due, LoopGoesOn
<1>8. CASE Schedule
  BY <1>0, <1>8 DEF Schedule
<1>9. CASE Reserve
  BY <1>0, <1>9 DEF Reserve
<1>10. CASE Poll
  BY <1>0, <1>10 DEF Poll, LoopGoesOn
<1>11. CASE PollEnds
  BY <1>0, <1>11 DEF PollEnds
<1>12. CASE Adhoc
  BY <1>0, <1>12 DEF Adhoc
<1>13. CASE TurnedDown
  BY <1>0, <1>13 DEF TurnedDown
<1>14. CASE Execute
  BY <1>0, <1>14 DEF Execute
<1>15. CASE LoopUnlocks
  BY <1>0, <1>15 DEF LoopUnlocks
<1>16. CASE SetupBegins
  BY <1>0, <1>16 DEF SetupBegins
<1>17. CASE SetupRefused
  BY <1>0, <1>17 DEF SetupRefused
<1>18. CASE SetupAdmitted
  BY <1>0, <1>18 DEF SetupAdmitted, Admitted
<1>19. CASE SetupAnswered
  BY <1>0, <1>19 DEF SetupAnswered
<1>20. CASE SetupChecked
  BY <1>0, <1>20 DEF SetupChecked
<1>21. CASE PanelReports
  BY <1>0, <1>21 DEF PanelReports
<1>22. CASE PanelUnpends
  BY <1>0, <1>22 DEF PanelUnpends
<1>23. CASE PanelUnlocks
  BY <1>0, <1>23 DEF PanelUnlocks
<1>24. ASSUME NEW t \in Threads, Prepare(t) PROVE ActiveInv'
  BY <1>0, <1>24 DEF Prepare
<1>25. ASSUME NEW t \in Threads, Spawn(t) PROVE ActiveInv'
  BY <1>0, <1>25 DEF Spawn, WorkAllowed
<1>26. ASSUME NEW t \in Threads, Finish(t) PROVE ActiveInv'
  BY <1>0, <1>26 DEF Finish, Overdue
<1>27. ASSUME NEW t \in Threads, Close(t) PROVE ActiveInv'
  BY <1>0, <1>27 DEF Close
<1>28. ASSUME NEW t \in Threads, Release(t) PROVE ActiveInv'
  BY <1>0, <1>28 DEF Release
<1> HIDE DEF ActiveInv, LocksInv, AfterAdmission, WithRunMu, Threads
<1> QED
  BY <1>1, <1>2, <1>3, <1>4, <1>5, <1>6, <1>7, <1>8, <1>9, <1>10, <1>11, <1>12, <1>13,
     <1>14, <1>15, <1>16, <1>17, <1>18, <1>19, <1>20, <1>21, <1>22, <1>23, <1>24, <1>25,
     <1>26, <1>27, <1>28
  DEF Next, Outside, Loop, Setup, Script
-----------------------------------------------------------------------------
(* The minutes of a halt.                                                  *)

(* Every step keeps haltThrough behind the halted minutes of a working     *)
(* device.                                                                 *)
LEMMA MinutesStep == IInv /\ [Next]_vars => MinutesInv'
<1> SUFFICES ASSUME IInv, [Next]_vars PROVE MinutesInv'
  OBVIOUS
<1>0. /\ MinutesInv /\ halt \in States
      /\ minute \in Nat /\ through \in Nat /\ haltedMinutes \subseteq Nat
  BY DEF IInv, TypeOK
<1>1. CASE Tick
  BY <1>0, <1>1 DEF MinutesInv, Tick, haltVars
<1>2. ASSUME NEW h \in States, Command(h) PROVE MinutesInv'
  BY <1>0, <1>2 DEF MinutesInv, Command
<1>3. CASE UNCHANGED <<minute, haltVars, haltedMinutes>>
  BY <1>0, <1>3 DEF MinutesInv, haltVars
<1>4. CASE Probe \/ HeartbeatNames \/ HeartbeatCancels \/ HeartbeatKills \/ Revoked
             \/ StateDeleted \/ RunReturns \/ ClosePanel
  BY <1>3, <1>4 DEF Probe, HeartbeatNames, HeartbeatCancels, HeartbeatKills, Revoked,
     StateDeleted, RunReturns, ClosePanel, calm
<1>5. CASE Loop
  BY <1>3, <1>5 DEF Loop, Sync, Due, Schedule, Reserve, Poll, PollEnds, Adhoc,
     TurnedDown,
     Execute, LoopUnlocks, calm
<1>6. CASE Setup
  BY <1>3, <1>6 DEF Setup, SetupBegins, SetupRefused, SetupAdmitted, Admitted,
     SetupAnswered,
     SetupChecked, PanelReports, PanelUnpends, PanelUnlocks, calm
<1>7. ASSUME NEW t \in Threads, Script(t) PROVE MinutesInv'
  BY <1>3, <1>7 DEF Script, Prepare, Spawn, Finish, Close, Release, calm
<1> QED
  BY <1>1, <1>2, <1>3, <1>4, <1>5, <1>6, <1>7 DEF Next, Outside, vars, calm
-----------------------------------------------------------------------------
(* What the steps do to the locals, field by field.                        *)

(* A thread that leaves has nothing left; the other one is untouched.      *)
LEMMA LeaveFrame ==
    ASSUME TypeOK, NEW t \in Threads, Leave(t), NEW u \in Threads
    PROVE  /\ phase'[u] = IF u = t THEN "idle" ELSE phase[u]
           /\ u # t => run'[u] = run[u]
           /\ run'[t] = Nothing
BY DEF TypeOK, Leave, Go

(* A run that ends gets its end, nothing else.                             *)
LEMMA FinishedFrame ==
    ASSUME TypeOK, NEW t \in Threads, NEW e, NEW p, Finished(t, e, p), NEW u \in Threads
    PROVE  /\ phase'[u] = IF u = t THEN p ELSE phase[u]
           /\ run'[u].end = IF u = t THEN e ELSE run[u].end
           /\ run'[u].key = run[u].key /\ run'[u].seen = run[u].seen
           /\ run'[u].slot = run[u].slot
           /\ run'[u].cancelled = run[u].cancelled /\ run'[u].crossed = run[u].crossed
           /\ run'[u].cause = run[u].cause /\ run'[u].killed = run[u].killed
<1>1. run[t] \in Locals /\ run' = [run EXCEPT ![t] = [run[t] EXCEPT !.end = e]]
  BY DEF TypeOK, Finished
<1>2. phase' = [phase EXCEPT ![t] = p]
  BY DEF Finished, Go
<1> QED
  BY <1>1, <1>2 DEF TypeOK, Locals

(* One whose wall time is up has its end, and cause for it.                *)
LEMMA OverdueFrame ==
    ASSUME TypeOK, NEW t \in Threads, NEW e, Overdue(t, e), NEW u \in Threads
    PROVE  /\ phase'[u] = IF u = t THEN "over" ELSE phase[u]
           /\ run'[u].end = IF u = t THEN e ELSE run[u].end
           /\ run'[u].key = run[u].key /\ run'[u].seen = run[u].seen
           /\ run'[u].slot = run[u].slot
           /\ run'[u].cancelled = run[u].cancelled /\ run'[u].crossed = run[u].crossed
           /\ run'[u].cause = IF u = t THEN TRUE ELSE run[u].cause
           /\ run'[u].killed = run[u].killed
<1>1. run[t] \in Locals /\ run' = [run EXCEPT ![t] = [run[t] EXCEPT !.end = e, !.cause = TRUE]]
  BY DEF TypeOK, Overdue
<1>2. phase' = [phase EXCEPT ![t] = "over"]
  BY DEF Overdue, Go
<1> QED
  BY <1>1, <1>2 DEF TypeOK, Locals

(* A run that ends, either way: nothing of the other one changes.          *)
LEMMA FinishFrame ==
    ASSUME TypeOK, NEW t \in Threads, Finish(t), NEW u \in Threads
    PROVE  /\ phase'[u] = IF u = t THEN "over" ELSE phase[u]
           /\ u # t => run'[u].end = run[u].end
           /\ run'[u].key = run[u].key /\ run'[u].seen = run[u].seen
           /\ run'[u].slot = run[u].slot
           /\ run'[u].cancelled = run[u].cancelled /\ run'[u].crossed = run[u].crossed
           /\ run[u].cause => run'[u].cause
           /\ run'[u].killed = run[u].killed
           /\ \/ run'[t].end \in Outcomes(t)
              \/ run'[t].end \in {"timeout", "cancelled"} /\ run'[t].cause
<1>1. ASSUME NEW e \in Outcomes(t), Finished(t, e, "over")
      PROVE  /\ run'[t].end = e
             /\ phase'[u] = IF u = t THEN "over" ELSE phase[u]
             /\ u # t => run'[u].end = run[u].end
             /\ run'[u].key = run[u].key /\ run'[u].seen = run[u].seen
             /\ run'[u].slot = run[u].slot
             /\ run'[u].cancelled = run[u].cancelled /\ run'[u].crossed = run[u].crossed
             /\ run'[u].cause = run[u].cause /\ run'[u].killed = run[u].killed
  BY <1>1, FinishedFrame
<1>2. ASSUME NEW e \in {"timeout", "cancelled"}, Overdue(t, e)
      PROVE  /\ run'[t].end = e /\ run'[t].cause
             /\ phase'[u] = IF u = t THEN "over" ELSE phase[u]
             /\ u # t => run'[u].end = run[u].end
             /\ run'[u].key = run[u].key /\ run'[u].seen = run[u].seen
             /\ run'[u].slot = run[u].slot
             /\ run'[u].cancelled = run[u].cancelled /\ run'[u].crossed = run[u].crossed
             /\ run[u].cause => run'[u].cause
             /\ run'[u].killed = run[u].killed
  <2>1. run'[t].end = e /\ run'[t].cause = TRUE
    <3>1. run[t] \in Locals /\ run' = [run EXCEPT ![t] = [run[t] EXCEPT !.end = e, !.cause = TRUE]]
      BY <1>2 DEF TypeOK, Overdue
    <3> QED BY <3>1 DEF TypeOK, Locals
  <2>2. /\ phase'[u] = IF u = t THEN "over" ELSE phase[u]
        /\ run'[u].end = IF u = t THEN e ELSE run[u].end
        /\ run'[u].key = run[u].key /\ run'[u].seen = run[u].seen
        /\ run'[u].slot = run[u].slot
        /\ run'[u].cancelled = run[u].cancelled /\ run'[u].crossed = run[u].crossed
        /\ run'[u].killed = run[u].killed
    BY <1>2, OverdueFrame
  <2>3. run'[u].cause = IF u = t THEN TRUE ELSE run[u].cause
    BY <1>2, OverdueFrame
  <2>4. run[u].cause => run'[u].cause
    BY <2>3
  <2> QED BY <2>1, <2>2, <2>4
<1>3. \/ \E e \in Outcomes(t) : Finished(t, e, "over")
      \/ \E e \in {"timeout", "cancelled"} : Overdue(t, e)
  BY DEF Finish
<1> QED
  BY <1>1, <1>2, <1>3

(* A new run gets the next key; after a revocation there is cause to       *)
(* cancel it.                                                              *)
LEMMA NewRunFrame ==
    ASSUME TypeOK, NEW t \in Threads, NewRun(t), NEW u \in Threads
    PROVE  /\ runs < MaxRuns /\ runs' = runs + 1
           /\ u # t => run'[u] = run[u]
           /\ run'[t].key = runs + 1
           /\ run'[t].seen = run[t].seen /\ run'[t].slot = run[t].slot
           /\ run'[t].end = run[t].end
           /\ run'[t].cancelled = run[t].cancelled /\ run'[t].crossed = run[t].crossed
           /\ run'[t].cause = (run[t].cause \/ revoke # "no")
           /\ run'[t].killed = run[t].killed
<1>1. /\ run[t] \in Locals
      /\ run' = [run EXCEPT ![t] =
                   [run[t] EXCEPT !.key = runs + 1, !.cause = @ \/ revoke # "no"]]
  BY DEF TypeOK, NewRun
<1>2. runs < MaxRuns /\ runs' = runs + 1
  BY DEF NewRun
<1> QED
  BY <1>1, <1>2 DEF TypeOK, Locals

(* A transition marks the locals.                                          *)
LEMMA CommandFrame ==
    ASSUME TypeOK, NEW h \in States, Command(h), NEW u \in Threads
    PROVE  /\ run'[u].key = run[u].key /\ run'[u].seen = run[u].seen
           /\ run'[u].slot = run[u].slot /\ run'[u].end = run[u].end
           /\ run'[u].cancelled = (run[u].cancelled \/ Struck(u, halt'))
           /\ run'[u].killed = (run[u].killed \/ (Struck(u, halt') /\ alive[u]))
           /\ run'[u].crossed = \/ run[u].crossed \/ phase[u] = "poll"
                                \/ (u = "panel" /\ phase[u] # "idle")
           /\ run'[u].cause = \/ run[u].cause \/ Unstarted(u)
                              \/ (phase[u] = "live" /\ halt' = "angehalten")
<1>1. run[u] \in Locals /\ run'[u] = Marked(u, halt')
  BY DEF TypeOK, Command
<1> QED
  BY <1>1 DEF Locals, Marked

(* The heartbeat names the active run, which has a key.                    *)
LEMMA HeartbeatNamesFrame ==
    ASSUME IInv, HeartbeatNames, NEW u \in Threads
    PROVE  /\ active \in Threads /\ run[active].key \in Nat
           /\ u # active => run'[u] = run[u]
           /\ run'[u].key = run[u].key /\ run'[u].seen = run[u].seen
           /\ run'[u].slot = run[u].slot /\ run'[u].end = run[u].end
           /\ run'[u].cancelled = run[u].cancelled /\ run'[u].crossed = run[u].crossed
           /\ u = active => run'[u].cause = TRUE
           /\ run'[u].killed = run[u].killed
<1>1. active \in Threads /\ run[active].key \in Nat
  BY DEF HeartbeatNames, IInv, TypeOK, ActiveInv, KeysInv, WithKey, Locals
<1>2. PICK t \in Threads : t = active
  BY <1>1
<1>3. run[t] \in Locals /\ run' = [run EXCEPT ![t] = [run[t] EXCEPT !.cause = TRUE]]
  BY <1>2 DEF IInv, TypeOK, HeartbeatNames
<1> QED
  BY <1>1, <1>2, <1>3 DEF IInv, TypeOK, Locals

(* The heartbeat cancels its target.                                       *)
LEMMA HeartbeatCancelsFrame ==
    ASSUME TypeOK, HeartbeatCancels, NEW u \in Threads
    PROVE  /\ run'[u].key = run[u].key /\ run'[u].seen = run[u].seen
           /\ run'[u].slot = run[u].slot /\ run'[u].end = run[u].end
           /\ run'[u].cancelled = (run[u].cancelled \/ IsTarget(u))
           /\ run'[u].crossed = run[u].crossed
           /\ run'[u].cause = run[u].cause /\ run'[u].killed = run[u].killed
<1>1. run[u] \in Locals /\ run'[u] = [run[u] EXCEPT !.cancelled = @ \/ IsTarget(u)]
  BY DEF TypeOK, HeartbeatCancels
<1> QED
  BY <1>1 DEF Locals, IsTarget

(* The heartbeat kills its target.                                         *)
LEMMA HeartbeatKillsFrame ==
    ASSUME TypeOK, HeartbeatKills, NEW u \in Threads
    PROVE  /\ run'[u].key = run[u].key /\ run'[u].seen = run[u].seen
           /\ run'[u].slot = run[u].slot /\ run'[u].end = run[u].end
           /\ run'[u].cancelled = run[u].cancelled /\ run'[u].crossed = run[u].crossed
           /\ run'[u].cause = run[u].cause
           /\ run'[u].killed = (run[u].killed \/ (alive[u] /\ IsTarget(u)))
<1>1. /\ run[u] \in Locals
      /\ run'[u] = [run[u] EXCEPT !.killed = @ \/ (alive[u] /\ IsTarget(u))]
  BY DEF TypeOK, HeartbeatKills
<1> QED
  BY <1>1 DEF Locals, IsTarget

(* A revocation gives cause to cancel every run.                           *)
LEMMA RevokedFrame ==
    ASSUME TypeOK, Revoked, NEW u \in Threads
    PROVE  /\ run'[u].key = run[u].key /\ run'[u].seen = run[u].seen
           /\ run'[u].slot = run[u].slot /\ run'[u].end = run[u].end
           /\ run'[u].cancelled = run[u].cancelled /\ run'[u].crossed = run[u].crossed
           /\ run'[u].cause = TRUE /\ run'[u].killed = run[u].killed
<1>1. run[u] \in Locals /\ run'[u] = [run[u] EXCEPT !.cause = TRUE]
  BY DEF TypeOK, Revoked
<1> QED
  BY <1>1 DEF Locals

(* A new manifest crosses the setup only.                                  *)
LEMMA SyncFrame ==
    ASSUME TypeOK, Sync
    PROVE  /\ run'["loop"] = run["loop"]
           /\ run'["panel"].key = run["panel"].key /\ run'["panel"].seen = run["panel"].seen
           /\ run'["panel"].slot = run["panel"].slot /\ run'["panel"].end = run["panel"].end
           /\ run'["panel"].cancelled = run["panel"].cancelled
           /\ run'["panel"].crossed = (run["panel"].crossed \/ phase["panel"] # "idle")
           /\ run'["panel"].cause = (run["panel"].cause \/ Unstarted("panel"))
           /\ run'["panel"].killed = run["panel"].killed
<1>1. /\ run["panel"] \in Locals
      /\ run' = [run EXCEPT !["panel"] =
                   [run["panel"] EXCEPT !.crossed = @ \/ phase["panel"] # "idle",
                                        !.cause = @ \/ Unstarted("panel")]]
  BY DEF TypeOK, Sync, Threads
<1> QED
  BY <1>1 DEF TypeOK, Locals, Threads

(* A due slot is noted.                                                    *)
LEMMA DueFrame ==
    ASSUME TypeOK, Due
    PROVE  /\ run'["panel"] = run["panel"]
           /\ run'["loop"].key = run["loop"].key /\ run'["loop"].seen = run["loop"].seen
           /\ run'["loop"].end = run["loop"].end
           /\ run'["loop"].cancelled = run["loop"].cancelled
           /\ run'["loop"].crossed = run["loop"].crossed
           /\ run'["loop"].cause = run["loop"].cause
           /\ run'["loop"].killed = run["loop"].killed
BY DEF TypeOK, Due, Locals, Threads

(* Poll and SetupBegins take the snapshot, nothing else.                   *)
LEMMA SnapshotFrame ==
    ASSUME TypeOK, NEW t \in Threads, run' = [run EXCEPT ![t].seen = Now], NEW u \in Threads
    PROVE  /\ u # t => run'[u] = run[u]
           /\ run'[t].key = run[t].key /\ run'[t].seen = Now
           /\ run'[t].slot = run[t].slot /\ run'[t].end = run[t].end
           /\ run'[t].cancelled = run[t].cancelled /\ run'[t].crossed = run[t].crossed
           /\ run'[t].cause = run[t].cause /\ run'[t].killed = run[t].killed
BY DEF TypeOK, Locals

(* The admission of a setup crosses a poll only.                           *)
LEMMA AdmittedFrame ==
    ASSUME TypeOK, SetupAdmitted
    PROVE  /\ run'["panel"] = run["panel"]
           /\ run'["loop"].key = run["loop"].key /\ run'["loop"].seen = run["loop"].seen
           /\ run'["loop"].slot = run["loop"].slot /\ run'["loop"].end = run["loop"].end
           /\ run'["loop"].cancelled = run["loop"].cancelled
           /\ run'["loop"].crossed = (run["loop"].crossed \/ phase["loop"] = "poll")
           /\ run'["loop"].cause = run["loop"].cause
           /\ run'["loop"].killed = run["loop"].killed
<1>1. /\ run["loop"] \in Locals
      /\ run' = [run EXCEPT !["loop"] =
                   [run["loop"] EXCEPT !.crossed = @ \/ phase["loop"] = "poll"]]
  BY DEF TypeOK, SetupAdmitted, Admitted, Threads
<1> QED
  BY <1>1 DEF TypeOK, Locals, Threads

-----------------------------------------------------------------------------
(* The keys.                                                               *)

(* Every step keeps the keys apart.                                        *)
LEMMA KeysStep == IInv /\ [Next]_vars => KeysInv'
<1> SUFFICES ASSUME IInv, [Next]_vars PROVE KeysInv'
  OBVIOUS
<1> USE AdmissionAssumption
<1> USE DEF KeysInv, WithKey, Threads, Nothing, Go, calm, haltVars, lockVars, panelVars,
     runVars
<1>0. /\ TypeOK /\ KeysInv /\ LocksInv
      /\ MaxRuns \in Nat /\ runs \in Nat
      /\ phase \in [Threads -> Phases] /\ run \in [Threads -> Locals]
  BY DEF IInv, TypeOK
<1>1. CASE UNCHANGED vars
  BY <1>0, <1>1 DEF vars
<1>2. CASE \/ Tick
          \/ Probe
          \/ StateDeleted
          \/ ClosePanel
  BY <1>0, <1>2 DEF Tick, Probe, StateDeleted, ClosePanel
<1>3. ASSUME NEW h \in States, Command(h) PROVE KeysInv'
  <2>1. \A t \in Threads : run'[t].key = run[t].key
    BY <1>0, <1>3, CommandFrame
  <2>2. UNCHANGED <<phase, runs>>
    BY <1>3 DEF Command
  <2> QED
    BY <1>0, <2>1, <2>2
<1>4. CASE HeartbeatNames
  BY <1>0, <1>4, HeartbeatNamesFrame DEF HeartbeatNames
<1>5. CASE HeartbeatCancels
  BY <1>0, <1>5, HeartbeatCancelsFrame DEF HeartbeatCancels
<1>6. CASE HeartbeatKills
  BY <1>0, <1>6, HeartbeatKillsFrame DEF HeartbeatKills
<1>7. CASE Revoked
  BY <1>0, <1>7, RevokedFrame DEF Revoked
<1>8. CASE RunReturns
  BY <1>0, <1>8 DEF RunReturns
<1>9. CASE Sync
  BY <1>0, <1>9, SyncFrame DEF Sync
<1>10. CASE Due
  BY <1>0, <1>10 DEF Due, LoopGoesOn
<1>11. CASE Schedule
  BY <1>0, <1>11, LeaveFrame DEF Schedule
<1>12. CASE Reserve
  <2>1. CASE NewRun("loop")
    <3>1. /\ runs < MaxRuns /\ runs' = runs + 1
          /\ run'["loop"].key = runs + 1 /\ run'["panel"] = run["panel"]
      BY <1>0, <2>1, NewRunFrame
    <3>2. run["panel"].key \in Nat \cup {None}
      BY <1>0 DEF Locals
    <3> QED
      BY <1>0, <1>12, <3>1, <3>2 DEF Reserve
  <2>2. CASE Go("loop", "release") /\ UNCHANGED <<run, runs>>
    BY <1>0, <1>12, <2>2 DEF Reserve
  <2> QED
    BY <1>12, <2>1, <2>2 DEF Reserve
<1>13. CASE Poll
  BY <1>0, <1>13 DEF Poll, LoopGoesOn
<1>14. CASE PollEnds
  BY <1>0, <1>14, LeaveFrame DEF PollEnds
<1>15. CASE Adhoc
  <2>1. CASE NewRun("loop")
    <3>1. /\ runs < MaxRuns /\ runs' = runs + 1
          /\ run'["loop"].key = runs + 1 /\ run'["panel"] = run["panel"]
      BY <1>0, <2>1, NewRunFrame
    <3>2. run["panel"].key \in Nat \cup {None}
      BY <1>0 DEF Locals
    <3> QED
      BY <1>0, <1>15, <3>1, <3>2 DEF Adhoc
  <2>2. CASE Leave("loop") /\ UNCHANGED runs
    BY <1>0, <1>15, <2>2, LeaveFrame DEF Adhoc
  <2> QED
    BY <1>15, <2>1, <2>2 DEF Adhoc
<1>16. CASE TurnedDown
  BY <1>0, <1>16, FinishedFrame DEF TurnedDown
<1>17. CASE Execute
  BY <1>0, <1>17, FinishedFrame DEF Execute
<1>18. CASE LoopUnlocks
  BY <1>0, <1>18 DEF LoopUnlocks
<1>19. CASE SetupBegins
  BY <1>0, <1>19 DEF SetupBegins
<1>20. CASE SetupRefused
  BY <1>0, <1>20, LeaveFrame DEF SetupRefused
<1>21. CASE SetupAdmitted
  BY <1>0, <1>21 DEF SetupAdmitted, Admitted
<1>22. CASE SetupAnswered
  <2>1. CASE NewRun("panel")
    <3>1. /\ runs < MaxRuns /\ runs' = runs + 1
          /\ run'["panel"].key = runs + 1 /\ run'["loop"] = run["loop"]
      BY <1>0, <2>1, NewRunFrame
    <3>2. run["loop"].key \in Nat \cup {None}
      BY <1>0 DEF Locals
    <3> QED
      BY <1>0, <1>22, <3>1, <3>2 DEF SetupAnswered
  <2>2. CASE Go("panel", "report") /\ UNCHANGED <<run, runs>>
    BY <1>0, <1>22, <2>2 DEF SetupAnswered
  <2> QED
    BY <1>22, <2>1, <2>2 DEF SetupAnswered
<1>23. CASE SetupChecked
  BY <1>0, <1>23, FinishedFrame DEF SetupChecked
<1>24. CASE PanelReports
  BY <1>0, <1>24 DEF PanelReports
<1>25. CASE PanelUnpends
  BY <1>0, <1>25 DEF PanelUnpends
<1>26. CASE PanelUnlocks
  BY <1>0, <1>26 DEF PanelUnlocks
<1>27. ASSUME NEW t \in Threads, Prepare(t) PROVE KeysInv'
  BY <1>0, <1>27, FinishedFrame DEF Prepare
<1>28. ASSUME NEW t \in Threads, Spawn(t) PROVE KeysInv'
  BY <1>0, <1>28, FinishedFrame DEF Spawn, WorkAllowed
<1>29. ASSUME NEW t \in Threads, Finish(t) PROVE KeysInv'
  <2>1. /\ phase[t] = "live" /\ UNCHANGED <<minute, halt, fault, through, version, manifest, target,
                       session, revoke, generation, pending, active, slots, runs>>
    BY <1>29 DEF Finish
  <2>2. \A u \in Threads : /\ phase'[u] = IF u = t THEN "over" ELSE phase[u]
                           /\ u # t => run'[u].end = run[u].end
                           /\ run'[u].key = run[u].key /\ run'[u].seen = run[u].seen
                           /\ run'[u].cancelled = run[u].cancelled
                           /\ run[u].cause => run'[u].cause
                           /\ run'[u].killed = run[u].killed
    BY <1>0, <1>29, FinishFrame
  <2> QED BY <1>0, <2>1, <2>2
<1>30. ASSUME NEW t \in Threads, Close(t) PROVE KeysInv'
  BY <1>0, <1>30 DEF Close
<1>31. ASSUME NEW t \in Threads, Release(t) PROVE KeysInv'
  BY <1>0, <1>31, LeaveFrame DEF Release
<1> HIDE DEF KeysInv, WithKey, Threads, Nothing
<1> QED
  BY <1>1, <1>2, <1>3, <1>4, <1>5, <1>6, <1>7, <1>8, <1>9, <1>10, <1>11, <1>12, <1>13,
     <1>14, <1>15, <1>16, <1>17, <1>18, <1>19, <1>20, <1>21, <1>22, <1>23, <1>24, <1>25,
     <1>26, <1>27, <1>28, <1>29, <1>30, <1>31
  DEF Next, Outside, Loop, Setup, Script
-----------------------------------------------------------------------------
(* The snapshots.                                                          *)

(* Every step that crosses a permission leaves its snapshot behind.        *)
LEMMA SeenStep == IInv /\ [Next]_vars => SeenInv'
<1> SUFFICES ASSUME IInv, [Next]_vars PROVE SeenInv'
  OBVIOUS
<1> USE AdmissionAssumption
<1> USE DEF SeenInv, Threads, Nothing, Now, Go, calm, haltVars, lockVars, panelVars,
     runVars
<1>0. /\ TypeOK /\ SeenInv /\ phase \in [Threads -> Phases]
      /\ version \in Nat /\ generation \in Nat /\ manifest \in Nat
      /\ \A t \in Threads : /\ run[t].seen.version \in Nat
                          /\ run[t].seen.generation \in Nat
                          /\ run[t].seen.manifest \in Nat
  BY DEF IInv, TypeOK, Locals, Moments
<1>1. CASE UNCHANGED vars
  BY <1>0, <1>1 DEF vars
<1>2. CASE \/ Tick
          \/ Probe
          \/ StateDeleted
          \/ ClosePanel
  BY <1>0, <1>2 DEF Tick, Probe, StateDeleted, ClosePanel
<1>3. ASSUME NEW h \in States, Command(h) PROVE SeenInv'
  <2>0. version' = version + 1 /\ UNCHANGED <<generation, manifest, phase>>
    BY <1>3 DEF Command
  <2>1. \A t \in Threads : run'[t].seen = run[t].seen
    BY <1>0, <1>3, CommandFrame
  <2>2. /\ run'["loop"].crossed => run["loop"].crossed \/ phase["loop"] = "poll"
        /\ run'["panel"].crossed => run["panel"].crossed \/ phase["panel"] # "idle"
    BY <1>0, <1>3, CommandFrame
  <2>3. \A t \in Threads : run'[t].seen.version <= version' /\ run'[t].seen.version # version'
    BY <1>0, <2>0, <2>1
  <2> QED
    BY <1>0, <2>0, <2>1, <2>2, <2>3
<1>4. CASE HeartbeatNames
  BY <1>0, <1>4, HeartbeatNamesFrame DEF HeartbeatNames
<1>5. CASE HeartbeatCancels
  BY <1>0, <1>5, HeartbeatCancelsFrame DEF HeartbeatCancels
<1>6. CASE HeartbeatKills
  BY <1>0, <1>6, HeartbeatKillsFrame DEF HeartbeatKills
<1>7. CASE Revoked
  BY <1>0, <1>7, RevokedFrame DEF Revoked
<1>8. CASE RunReturns
  BY <1>0, <1>8 DEF RunReturns
<1>9. CASE Sync
  <2>0. manifest' = manifest + 1 /\ UNCHANGED <<generation, version, phase>>
    BY <1>9 DEF Sync
  <2>1. \A t \in Threads : run'[t].seen = run[t].seen
    BY <1>0, <1>9, SyncFrame
  <2>2. /\ run'["loop"].crossed => run["loop"].crossed
        /\ run'["panel"].crossed => run["panel"].crossed \/ phase["panel"] # "idle"
    BY <1>0, <1>9, SyncFrame
  <2>3. \A t \in Threads : run'[t].seen.manifest <= manifest' /\ run'[t].seen.manifest # manifest'
    BY <1>0, <2>0, <2>1
  <2> QED
    BY <1>0, <2>0, <2>1, <2>2, <2>3
<1>10. CASE Due
  BY <1>0, <1>10, DueFrame DEF Due, LoopGoesOn
<1>11. CASE Schedule
  BY <1>0, <1>11, LeaveFrame DEF Schedule
<1>12. CASE Reserve
  BY <1>0, <1>12, NewRunFrame DEF Reserve
<1>13. CASE Poll
  BY <1>0, <1>13, SnapshotFrame DEF Poll, LoopGoesOn
<1>14. CASE PollEnds
  BY <1>0, <1>14, LeaveFrame DEF PollEnds, Crossed
<1>15. CASE Adhoc
  BY <1>0, <1>15, LeaveFrame, NewRunFrame DEF Adhoc
<1>16. CASE TurnedDown
  BY <1>0, <1>16, FinishedFrame DEF TurnedDown
<1>17. CASE Execute
  BY <1>0, <1>17, FinishedFrame DEF Execute
<1>18. CASE LoopUnlocks
  BY <1>0, <1>18 DEF LoopUnlocks
<1>19. CASE SetupBegins
  BY <1>0, <1>19, SnapshotFrame DEF SetupBegins
<1>20. CASE SetupRefused
  BY <1>0, <1>20, LeaveFrame DEF SetupRefused
<1>21. CASE SetupAdmitted
  <2>1. /\ \A t \in Threads : run'[t].seen = run[t].seen /\ run[t].seen.generation < generation'
        /\ UNCHANGED <<manifest, version>>
        /\ phase' = [phase EXCEPT !["panel"] = "http"]
    BY <1>0, <1>21, AdmittedFrame DEF SetupAdmitted, Admitted
  <2>2. /\ run'["panel"].crossed => run["panel"].crossed
        /\ run'["loop"].crossed => run["loop"].crossed \/ phase["loop"] = "poll"
    BY <1>0, <1>21, AdmittedFrame
  <2>3. \A t \in Threads : run'[t].seen.generation <= generation' /\ run'[t].seen.generation # generation'
    BY <1>0, <1>21, <2>1 DEF SetupAdmitted, Admitted
  <2> QED
    BY <1>0, <2>1, <2>2, <2>3
<1>22. CASE SetupAnswered
  BY <1>0, <1>22, NewRunFrame DEF SetupAnswered
<1>23. CASE SetupChecked
  BY <1>0, <1>23, FinishedFrame DEF SetupChecked
<1>24. CASE PanelReports
  BY <1>0, <1>24 DEF PanelReports
<1>25. CASE PanelUnpends
  BY <1>0, <1>25 DEF PanelUnpends
<1>26. CASE PanelUnlocks
  BY <1>0, <1>26 DEF PanelUnlocks
<1>27. ASSUME NEW t \in Threads, Prepare(t) PROVE SeenInv'
  BY <1>0, <1>27, FinishedFrame DEF Prepare
<1>28. ASSUME NEW t \in Threads, Spawn(t) PROVE SeenInv'
  BY <1>0, <1>28, FinishedFrame DEF Spawn, WorkAllowed
<1>29. ASSUME NEW t \in Threads, Finish(t) PROVE SeenInv'
  BY <1>0, <1>29, FinishFrame DEF Finish
<1>30. ASSUME NEW t \in Threads, Close(t) PROVE SeenInv'
  BY <1>0, <1>30 DEF Close
<1>31. ASSUME NEW t \in Threads, Release(t) PROVE SeenInv'
  BY <1>0, <1>31, LeaveFrame DEF Release
<1> HIDE DEF SeenInv, Threads, Nothing, Now
<1> QED
  BY <1>1, <1>2, <1>3, <1>4, <1>5, <1>6, <1>7, <1>8, <1>9, <1>10, <1>11, <1>12, <1>13,
     <1>14, <1>15, <1>16, <1>17, <1>18, <1>19, <1>20, <1>21, <1>22, <1>23, <1>24, <1>25,
     <1>26, <1>27, <1>28, <1>29, <1>30, <1>31
  DEF Next, Outside, Loop, Setup, Script
-----------------------------------------------------------------------------
(* The causes of a cancellation.                                           *)

(* Every step that sets what ends a run cancelled gives it cause.          *)
LEMMA CauseStep == IInv /\ [Next]_vars => CauseInv'
<1> SUFFICES ASSUME IInv, [Next]_vars PROVE CauseInv'
  OBVIOUS
<1> USE AdmissionAssumption
<1> USE DEF CauseInv, BeforeProcess, SinceProcess, Threads, Nothing, Now, Go, calm,
     haltVars, lockVars, panelVars, runVars
<1>0. /\ TypeOK /\ CauseInv /\ KeysInv /\ ActiveInv /\ TargetInv /\ SeenInv
      /\ phase \in [Threads -> Phases] /\ halt \in States /\ runs \in Nat
  BY DEF IInv, TypeOK
<1>1. CASE UNCHANGED vars
  BY <1>0, <1>1 DEF vars
<1>2. CASE \/ Tick
          \/ Probe
          \/ StateDeleted
          \/ ClosePanel
  BY <1>0, <1>2 DEF Tick, Probe, StateDeleted, ClosePanel
<1>3. ASSUME NEW h \in States, Command(h) PROVE CauseInv'
  <2>0. UNCHANGED <<phase, manifest, revoke>>
    BY <1>3 DEF Command
  <2>1. \A t \in Threads : /\ run'[t].end = run[t].end /\ run'[t].key = run[t].key
                           /\ run[t].cause => run'[t].cause
    BY <1>0, <1>3, CommandFrame
  <2>2. \A t \in Threads : phase[t] \in BeforeProcess => run'[t].cause
    BY <1>0, <1>3, CommandFrame DEF Unstarted
  <2>3. \A t \in Threads : phase[t] = "live" /\ run'[t].cancelled => run'[t].cause
    BY <1>0, <1>3, CommandFrame DEF Struck
  <2>4. \A t \in Threads : run'[t].cancelled => phase[t] \in SinceProcess
    BY <1>0, <1>3, CommandFrame DEF Struck, ActiveInv
  <2> QED
    BY <1>0, <2>0, <2>1, <2>2, <2>3, <2>4
<1>4. CASE HeartbeatNames
  BY <1>0, <1>4, HeartbeatNamesFrame DEF HeartbeatNames
<1>5. CASE HeartbeatCancels
  <2>0. UNCHANGED <<phase, halt, version, manifest, revoke>>
    BY <1>5 DEF HeartbeatCancels
  <2>1. \A t \in Threads : /\ run'[t].end = run[t].end /\ run'[t].key = run[t].key
                           /\ run'[t].seen = run[t].seen /\ run'[t].cause = run[t].cause
    BY <1>0, <1>5, HeartbeatCancelsFrame
  <2>2. \A t \in Threads : IsTarget(t) => run[t].cause
    BY <1>0, <1>5 DEF HeartbeatCancels, IsTarget, TargetInv
  <2>3. \A t \in Threads : phase[t] = "live" /\ run'[t].cancelled => run'[t].cause
    BY <1>0, <1>5, <2>1, <2>2, HeartbeatCancelsFrame
  <2>4. \A t \in Threads : run'[t].cancelled => phase[t] \in SinceProcess
    BY <1>0, <1>5, HeartbeatCancelsFrame DEF IsTarget
  <2> QED
    BY <1>0, <2>0, <2>1, <2>3, <2>4
<1>6. CASE HeartbeatKills
  BY <1>0, <1>6, HeartbeatKillsFrame DEF HeartbeatKills
<1>7. CASE Revoked
  BY <1>0, <1>7, RevokedFrame DEF Revoked
<1>8. CASE RunReturns
  BY <1>0, <1>8 DEF RunReturns
<1>9. CASE Sync
  BY <1>0, <1>9, SyncFrame DEF Sync, Unstarted
<1>10. CASE Due
  BY <1>0, <1>10, DueFrame DEF Due, LoopGoesOn
<1>11. CASE Schedule
  BY <1>0, <1>11, LeaveFrame DEF Schedule
<1>12. CASE Reserve
  <2>1. CASE NewRun("loop")
    <3>1. /\ run'["panel"] = run["panel"]
          /\ run'["loop"].end = run["loop"].end /\ run'["loop"].seen = run["loop"].seen
          /\ run'["loop"].cancelled = run["loop"].cancelled
          /\ run["loop"].cause \/ revoke # "no" => run'["loop"].cause
      BY <1>0, <2>1, NewRunFrame
    <3>2. /\ phase' = [phase EXCEPT !["loop"] = "reserved"]
          /\ UNCHANGED <<halt, version, manifest, revoke>>
          /\ halt = "arbeitet" /\ phase["loop"] = "admitted"
      BY <1>12, <2>1, <1>0, NewRunFrame DEF Reserve, ScheduleHalted
    <3> QED
      BY <1>0, <1>12, <3>1, <3>2
  <2>2. CASE Go("loop", "release") /\ UNCHANGED <<run, runs>>
    BY <1>0, <1>12, <2>2 DEF Reserve, ScheduleHalted
  <2> QED
    BY <1>12, <2>1, <2>2 DEF Reserve, ScheduleHalted
<1>13. CASE Poll
  BY <1>0, <1>13, SnapshotFrame DEF Poll, LoopGoesOn
<1>14. CASE PollEnds
  BY <1>0, <1>14, LeaveFrame DEF PollEnds
<1>15. CASE Adhoc
  <2>1. CASE NewRun("loop")
    <3>1. /\ run'["panel"] = run["panel"]
          /\ run'["loop"].end = run["loop"].end /\ run'["loop"].seen = run["loop"].seen
          /\ run'["loop"].cancelled = run["loop"].cancelled
          /\ run["loop"].cause \/ revoke # "no" => run'["loop"].cause
      BY <1>0, <2>1, NewRunFrame
    <3>2. /\ phase' = [phase EXCEPT !["loop"] = "reserved"]
          /\ UNCHANGED <<halt, version, manifest, revoke>>
          /\ halt = "arbeitet" /\ phase["loop"] = "got"
      BY <1>15, <2>1, <1>0, NewRunFrame DEF Adhoc
    <3> QED
      BY <1>0, <1>15, <3>1, <3>2
  <2>2. CASE Leave("loop") /\ UNCHANGED runs
    BY <1>0, <1>15, <2>2, LeaveFrame DEF Adhoc
  <2> QED
    BY <1>15, <2>1, <2>2 DEF Adhoc
<1>16. CASE TurnedDown
  BY <1>0, <1>16, FinishedFrame DEF TurnedDown
<1>17. CASE Execute
  BY <1>0, <1>17, FinishedFrame DEF Execute
<1>18. CASE LoopUnlocks
  BY <1>0, <1>18 DEF LoopUnlocks
<1>19. CASE SetupBegins
  BY <1>0, <1>19, SnapshotFrame DEF SetupBegins
<1>20. CASE SetupRefused
  BY <1>0, <1>20, LeaveFrame DEF SetupRefused
<1>21. CASE SetupAdmitted
  BY <1>0, <1>21, AdmittedFrame DEF SetupAdmitted, Admitted
<1>22. CASE SetupAnswered
  <2>1. CASE NewRun("panel")
    <3>1. /\ run'["loop"] = run["loop"]
          /\ run'["panel"].end = run["panel"].end /\ run'["panel"].seen = run["panel"].seen
          /\ run'["panel"].cancelled = run["panel"].cancelled
          /\ run["panel"].cause \/ revoke # "no" => run'["panel"].cause
      BY <1>0, <2>1, NewRunFrame
    <3>2. /\ phase' = [phase EXCEPT !["panel"] = "answered"]
          /\ UNCHANGED <<halt, version, manifest, revoke>> /\ phase["panel"] = "http"
      BY <1>22, <2>1, <1>0, NewRunFrame DEF SetupAnswered
    <3> QED
      BY <1>0, <1>22, <3>1, <3>2
  <2>2. CASE Go("panel", "report") /\ UNCHANGED <<run, runs>>
    BY <1>0, <1>22, <2>2 DEF SetupAnswered
  <2> QED
    BY <1>22, <2>1, <2>2 DEF SetupAnswered
<1>23. CASE SetupChecked
  BY <1>0, <1>23, FinishedFrame DEF SetupChecked
<1>24. CASE PanelReports
  BY <1>0, <1>24 DEF PanelReports
<1>25. CASE PanelUnpends
  BY <1>0, <1>25 DEF PanelUnpends
<1>26. CASE PanelUnlocks
  BY <1>0, <1>26 DEF PanelUnlocks
<1>27. ASSUME NEW t \in Threads, Prepare(t) PROVE CauseInv'
  BY <1>0, <1>27, FinishedFrame DEF Prepare
<1>28. ASSUME NEW t \in Threads, Spawn(t) PROVE CauseInv'
  <2>0. phase[t] = "marked" /\ UNCHANGED <<halt, version, manifest, revoke>>
    BY <1>28 DEF Spawn
  <2>1. CASE /\ ~ (WorkAllowed /\ PermitValid(t))
             /\ Finished(t, "cancelled", "report")
    <3>1. run[t].cause
      BY <1>0, <2>0, <2>1 DEF WorkAllowed, PermitValid
    <3> QED
      BY <1>0, <2>0, <2>1, <3>1, FinishedFrame
  <2>2. CASE Finished(t, "internal", "report")
    BY <1>0, <2>0, <2>2, FinishedFrame
  <2>3. CASE Go(t, "live") /\ UNCHANGED run /\ WorkAllowed /\ PermitValid(t) /\ ~ ContextDone(t)
    <3>1. run[t].cancelled = FALSE
      BY <1>0, <2>0 DEF Locals, TypeOK
    <3> QED
      BY <1>0, <2>0, <2>3, <3>1
  <2> QED
    BY <1>28, <2>1, <2>2, <2>3 DEF Spawn
<1>29. ASSUME NEW t \in Threads, Finish(t) PROVE CauseInv'
  <2>1. /\ phase[t] = "live" /\ UNCHANGED <<minute, halt, fault, through, version, manifest, target,
                       session, revoke, generation, pending, active, slots, runs>>
    BY <1>29 DEF Finish
  <2>2. \A u \in Threads : /\ phase'[u] = IF u = t THEN "over" ELSE phase[u]
                           /\ u # t => run'[u].end = run[u].end
                           /\ run'[u].key = run[u].key /\ run'[u].seen = run[u].seen
                           /\ run'[u].cancelled = run[u].cancelled
                           /\ run[u].cause => run'[u].cause
                           /\ run'[u].killed = run[u].killed
    BY <1>0, <1>29, FinishFrame
  <2>3. run'[t].end = "cancelled" => run'[t].cause
    <3>1. CASE run'[t].end \in Outcomes(t) /\ run'[t].end = "cancelled"
      <4>1. run[t].cancelled \/ revoke # "no"
        BY <3>1 DEF Outcomes, ContextDone
      <4>2. run[t].key # None
        BY <1>0, <2>1 DEF KeysInv, WithKey
      <4>3. run[t].cause
        BY <1>0, <2>1, <4>1, <4>2
      <4> QED BY <2>2, <4>3
    <3>2. CASE run'[t].cause
      BY <3>2
    <3> QED BY <1>0, <1>29, <3>1, <3>2, FinishFrame
  <2>4. \A u \in Threads : run'[u].end = "cancelled" => run'[u].cause
    BY <1>0, <2>2, <2>3
  <2> QED BY <1>0, <2>1, <2>2, <2>4
<1>30. ASSUME NEW t \in Threads, Close(t) PROVE CauseInv'
  BY <1>0, <1>30 DEF Close
<1>31. ASSUME NEW t \in Threads, Release(t) PROVE CauseInv'
  BY <1>0, <1>31, LeaveFrame DEF Release
<1> HIDE DEF CauseInv, BeforeProcess, SinceProcess, Threads, Nothing, Now
<1> QED
  BY <1>1, <1>2, <1>3, <1>4, <1>5, <1>6, <1>7, <1>8, <1>9, <1>10, <1>11, <1>12, <1>13,
     <1>14, <1>15, <1>16, <1>17, <1>18, <1>19, <1>20, <1>21, <1>22, <1>23, <1>24, <1>25,
     <1>26, <1>27, <1>28, <1>29, <1>30, <1>31
  DEF Next, Outside, Loop, Setup, Script
-----------------------------------------------------------------------------
(* The answer of a heartbeat.                                              *)

(* Every step keeps the target of a heartbeat a run that was live when it  *)
(* was named.                                                              *)
LEMMA TargetStep == IInv /\ [Next]_vars => TargetInv'
<1> SUFFICES ASSUME IInv, [Next]_vars PROVE TargetInv'
  OBVIOUS
<1> USE AdmissionAssumption
<1> USE DEF TargetInv, SinceProcess, Threads, Nothing, Now, Go, calm, haltVars,
     lockVars, panelVars, runVars
<1>0. /\ TypeOK /\ TargetInv /\ KeysInv /\ ActiveInv /\ runs \in Nat
      /\ phase \in [Threads -> Phases]
      /\ \A t \in Threads : run[t].key \in Nat \cup {None}
  BY DEF IInv, TypeOK, Locals
<1>1. CASE UNCHANGED vars
  BY <1>0, <1>1 DEF vars
<1>2. CASE \/ Tick
          \/ Probe
          \/ StateDeleted
          \/ ClosePanel
  BY <1>0, <1>2 DEF Tick, Probe, StateDeleted, ClosePanel
<1>3. ASSUME NEW h \in States, Command(h) PROVE TargetInv'
  <2>1. \A t \in Threads : /\ run'[t].key = run[t].key
                           /\ run[t].cause => run'[t].cause
                           /\ run[t].cancelled => run'[t].cancelled
    BY <1>0, <1>3, CommandFrame
  <2>2. UNCHANGED <<phase, runs, target>>
    BY <1>3 DEF Command
  <2> QED
    BY <1>0, <2>1, <2>2
<1>4. CASE HeartbeatNames
  <2>1. /\ active \in Threads
        /\ target' = [run |-> run[active].key, cancelled |-> FALSE]
        /\ UNCHANGED <<phase, runs>>
    BY <1>0, <1>4, HeartbeatNamesFrame DEF HeartbeatNames
  <2>2. run[active].key \in 1..runs /\ phase[active] \in {"live", "over"}
    BY <1>0, <2>1, <1>4, HeartbeatNamesFrame DEF KeysInv, ActiveInv
  <2>3. \A t \in Threads : run[t].key = run[active].key => t = active
    BY <1>0, <2>1, <2>2 DEF KeysInv
  <2>4. \A t \in Threads : run'[t].key = run[t].key /\ (t = active => run'[t].cause)
    BY <1>0, <1>4, HeartbeatNamesFrame
  <2> QED
    BY <1>0, <2>1, <2>2, <2>3, <2>4
<1>5. CASE HeartbeatCancels
  <2>1. /\ target.run = target'.run /\ target' # None
        /\ target \in [run : Nat, cancelled : BOOLEAN] /\ target # None
        /\ UNCHANGED <<phase, runs>>
    BY <1>0, <1>5 DEF HeartbeatCancels, TypeOK
  <2>2. \A t \in Threads : /\ run'[t].key = run[t].key
                           /\ run[t].cause => run'[t].cause
                           /\ run'[t].cancelled = (run[t].cancelled \/ IsTarget(t))
    BY <1>0, <1>5, HeartbeatCancelsFrame
  <2> QED
    BY <1>0, <2>1, <2>2 DEF IsTarget
<1>6. CASE HeartbeatKills
  BY <1>6 DEF HeartbeatKills
<1>7. CASE Revoked
  <2>1. \A t \in Threads : /\ run'[t].key = run[t].key
                           /\ run[t].cause => run'[t].cause
                           /\ run[t].cancelled => run'[t].cancelled
    BY <1>0, <1>7, RevokedFrame
  <2>2. UNCHANGED <<phase, runs, target>>
    BY <1>7 DEF Revoked
  <2> QED
    BY <1>0, <2>1, <2>2
<1>8. CASE RunReturns
  BY <1>0, <1>8 DEF RunReturns
<1>9. CASE Sync
  <2>1. \A t \in Threads : /\ run'[t].key = run[t].key
                           /\ run[t].cause => run'[t].cause
                           /\ run[t].cancelled => run'[t].cancelled
    BY <1>0, <1>9, SyncFrame
  <2>2. UNCHANGED <<phase, runs, target>>
    BY <1>9 DEF Sync
  <2> QED
    BY <1>0, <2>1, <2>2
<1>10. CASE Due
  BY <1>0, <1>10, DueFrame DEF Due, LoopGoesOn
<1>11. CASE Schedule
  BY <1>0, <1>11, LeaveFrame DEF Schedule
<1>12. CASE Reserve
  <2>1. CASE NewRun("loop")
    <3>1. /\ runs' = runs + 1 /\ run'["loop"].key = runs + 1
          /\ run'["panel"] = run["panel"]
      BY <1>0, <2>1, NewRunFrame
    <3>2. target' = target /\ phase'["panel"] = phase["panel"]
      BY <1>0, <1>12 DEF Reserve
    <3>3. target # None => target.run <= runs /\ target.run \in Nat /\ target.run # runs + 1
      BY <1>0
    <3> QED
      BY <1>0, <3>1, <3>2, <3>3
  <2>2. CASE Go("loop", "release") /\ UNCHANGED <<run, runs>>
    BY <1>0, <1>12, <2>2 DEF Reserve
  <2> QED
    BY <1>12, <2>1, <2>2 DEF Reserve
<1>13. CASE Poll
  BY <1>0, <1>13, SnapshotFrame DEF Poll, LoopGoesOn
<1>14. CASE PollEnds
  BY <1>0, <1>14, LeaveFrame DEF PollEnds
<1>15. CASE Adhoc
  <2>1. CASE NewRun("loop")
    <3>1. /\ runs' = runs + 1 /\ run'["loop"].key = runs + 1
          /\ run'["panel"] = run["panel"]
      BY <1>0, <2>1, NewRunFrame
    <3>2. target' = target /\ phase'["panel"] = phase["panel"]
      BY <1>0, <1>15, LeaveFrame DEF Adhoc
    <3>3. target # None => target.run <= runs /\ target.run \in Nat /\ target.run # runs + 1
      BY <1>0
    <3> QED
      BY <1>0, <3>1, <3>2, <3>3
  <2>2. CASE Leave("loop") /\ UNCHANGED runs
    BY <1>0, <1>15, <2>2, LeaveFrame DEF Adhoc
  <2> QED
    BY <1>15, <2>1, <2>2 DEF Adhoc
<1>16. CASE TurnedDown
  BY <1>0, <1>16, FinishedFrame DEF TurnedDown
<1>17. CASE Execute
  BY <1>0, <1>17, FinishedFrame DEF Execute
<1>18. CASE LoopUnlocks
  BY <1>0, <1>18 DEF LoopUnlocks
<1>19. CASE SetupBegins
  BY <1>0, <1>19, SnapshotFrame DEF SetupBegins
<1>20. CASE SetupRefused
  BY <1>0, <1>20, LeaveFrame DEF SetupRefused
<1>21. CASE SetupAdmitted
  BY <1>0, <1>21, AdmittedFrame DEF SetupAdmitted, Admitted
<1>22. CASE SetupAnswered
  <2>1. CASE NewRun("panel")
    <3>1. /\ runs' = runs + 1 /\ run'["panel"].key = runs + 1
          /\ run'["loop"] = run["loop"]
      BY <1>0, <2>1, NewRunFrame
    <3>2. target' = target /\ phase'["loop"] = phase["loop"]
      BY <1>0, <1>22 DEF SetupAnswered
    <3>3. target # None => target.run <= runs /\ target.run \in Nat /\ target.run # runs + 1
      BY <1>0
    <3> QED
      BY <1>0, <3>1, <3>2, <3>3
  <2>2. CASE Go("panel", "report") /\ UNCHANGED <<run, runs>>
    BY <1>0, <1>22, <2>2 DEF SetupAnswered
  <2> QED
    BY <1>22, <2>1, <2>2 DEF SetupAnswered
<1>23. CASE SetupChecked
  BY <1>0, <1>23, FinishedFrame DEF SetupChecked
<1>24. CASE PanelReports
  BY <1>0, <1>24 DEF PanelReports
<1>25. CASE PanelUnpends
  BY <1>0, <1>25 DEF PanelUnpends
<1>26. CASE PanelUnlocks
  BY <1>0, <1>26 DEF PanelUnlocks
<1>27. ASSUME NEW t \in Threads, Prepare(t) PROVE TargetInv'
  BY <1>0, <1>27, FinishedFrame DEF Prepare
<1>28. ASSUME NEW t \in Threads, Spawn(t) PROVE TargetInv'
  BY <1>0, <1>28, FinishedFrame DEF Spawn, WorkAllowed
<1>29. ASSUME NEW t \in Threads, Finish(t) PROVE TargetInv'
  <2>1. /\ phase[t] = "live" /\ UNCHANGED <<minute, halt, fault, through, version, manifest, target,
                       session, revoke, generation, pending, active, slots, runs>>
    BY <1>29 DEF Finish
  <2>2. \A u \in Threads : /\ phase'[u] = IF u = t THEN "over" ELSE phase[u]
                           /\ u # t => run'[u].end = run[u].end
                           /\ run'[u].key = run[u].key /\ run'[u].seen = run[u].seen
                           /\ run'[u].cancelled = run[u].cancelled
                           /\ run[u].cause => run'[u].cause
                           /\ run'[u].killed = run[u].killed
    BY <1>0, <1>29, FinishFrame
  <2> QED BY <1>0, <2>1, <2>2
<1>30. ASSUME NEW t \in Threads, Close(t) PROVE TargetInv'
  BY <1>0, <1>30 DEF Close
<1>31. ASSUME NEW t \in Threads, Release(t) PROVE TargetInv'
  BY <1>0, <1>31, LeaveFrame DEF Release
<1> HIDE DEF TargetInv, SinceProcess, Threads, Nothing, Now
<1> QED
  BY <1>1, <1>2, <1>3, <1>4, <1>5, <1>6, <1>7, <1>8, <1>9, <1>10, <1>11, <1>12, <1>13,
     <1>14, <1>15, <1>16, <1>17, <1>18, <1>19, <1>20, <1>21, <1>22, <1>23, <1>24, <1>25,
     <1>26, <1>27, <1>28, <1>29, <1>30, <1>31
  DEF Next, Outside, Loop, Setup, Script
-----------------------------------------------------------------------------
(* What is killed.                                                         *)

(* Every step that kills a process has cancelled its context.              *)
LEMMA KilledStep == IInv /\ [Next]_vars => KilledInv'
<1> SUFFICES ASSUME IInv, [Next]_vars PROVE KilledInv'
  OBVIOUS
<1> USE AdmissionAssumption
<1> USE DEF KilledInv, SinceProcess, Threads, Nothing, Now, Go, calm, haltVars,
     lockVars, panelVars, runVars
<1>0. /\ TypeOK /\ IInv /\ KilledInv /\ CauseInv /\ TargetInv /\ ActiveInv
      /\ phase \in [Threads -> Phases] /\ run \in [Threads -> Locals]
  BY DEF IInv, TypeOK
<1>1. CASE UNCHANGED vars
  BY <1>0, <1>1 DEF vars
<1>2. CASE \/ Tick
          \/ Probe
          \/ StateDeleted
          \/ ClosePanel
  BY <1>0, <1>2 DEF Tick, Probe, StateDeleted, ClosePanel
<1>3. ASSUME NEW h \in States, Command(h) PROVE KilledInv'
  BY <1>0, <1>3, CommandFrame DEF Command, Struck, ActiveInv
<1>4. CASE HeartbeatNames
  BY <1>0, <1>4, HeartbeatNamesFrame DEF HeartbeatNames
<1>5. CASE HeartbeatCancels
  BY <1>0, <1>5, HeartbeatCancelsFrame DEF HeartbeatCancels
<1>6. CASE HeartbeatKills
  BY <1>0, <1>6, HeartbeatKillsFrame DEF HeartbeatKills, IsTarget, TargetInv, ActiveInv
<1>7. CASE Revoked
  BY <1>0, <1>7, RevokedFrame DEF Revoked
<1>8. CASE RunReturns
  BY <1>0, <1>8 DEF RunReturns
<1>9. CASE Sync
  BY <1>0, <1>9, SyncFrame DEF Sync
<1>10. CASE Due
  BY <1>0, <1>10, DueFrame DEF Due, LoopGoesOn
<1>11. CASE Schedule
  BY <1>0, <1>11, LeaveFrame DEF Schedule
<1>12. CASE Reserve
  BY <1>0, <1>12, NewRunFrame DEF Reserve
<1>13. CASE Poll
  BY <1>0, <1>13, SnapshotFrame DEF Poll, LoopGoesOn
<1>14. CASE PollEnds
  BY <1>0, <1>14, LeaveFrame DEF PollEnds
<1>15. CASE Adhoc
  BY <1>0, <1>15, LeaveFrame, NewRunFrame DEF Adhoc
<1>16. CASE TurnedDown
  BY <1>0, <1>16, FinishedFrame DEF TurnedDown
<1>17. CASE Execute
  BY <1>0, <1>17, FinishedFrame DEF Execute
<1>18. CASE LoopUnlocks
  BY <1>0, <1>18 DEF LoopUnlocks
<1>19. CASE SetupBegins
  BY <1>0, <1>19, SnapshotFrame DEF SetupBegins
<1>20. CASE SetupRefused
  BY <1>0, <1>20, LeaveFrame DEF SetupRefused
<1>21. CASE SetupAdmitted
  BY <1>0, <1>21, AdmittedFrame DEF SetupAdmitted, Admitted
<1>22. CASE SetupAnswered
  BY <1>0, <1>22, NewRunFrame DEF SetupAnswered
<1>23. CASE SetupChecked
  BY <1>0, <1>23, FinishedFrame DEF SetupChecked
<1>24. CASE PanelReports
  BY <1>0, <1>24 DEF PanelReports
<1>25. CASE PanelUnpends
  BY <1>0, <1>25 DEF PanelUnpends
<1>26. CASE PanelUnlocks
  BY <1>0, <1>26 DEF PanelUnlocks
<1>27. ASSUME NEW t \in Threads, Prepare(t) PROVE KilledInv'
  BY <1>0, <1>27, FinishedFrame DEF Prepare
<1>28. ASSUME NEW t \in Threads, Spawn(t) PROVE KilledInv'
  BY <1>0, <1>28, FinishedFrame DEF Spawn, WorkAllowed
<1>29. ASSUME NEW t \in Threads, Finish(t) PROVE KilledInv'
  <2>1. /\ phase[t] = "live" /\ UNCHANGED <<minute, halt, fault, through, version, manifest, target,
                       session, revoke, generation, pending, active, slots, runs>>
    BY <1>29 DEF Finish
  <2>2. \A u \in Threads : /\ phase'[u] = IF u = t THEN "over" ELSE phase[u]
                           /\ u # t => run'[u].end = run[u].end
                           /\ run'[u].key = run[u].key /\ run'[u].seen = run[u].seen
                           /\ run'[u].cancelled = run[u].cancelled
                           /\ run[u].cause => run'[u].cause
                           /\ run'[u].killed = run[u].killed
    BY <1>0, <1>29, FinishFrame
  <2>3. run[t].killed => run'[t].end \in {"cancelled", "timeout"}
    <3>1. run[t].killed => run[t].cancelled
      BY <1>0, <2>1
    <3>2. run'[t].end \in Outcomes(t) \/ run'[t].end \in {"cancelled", "timeout"}
      BY <1>0, <1>29, FinishFrame
    <3> QED BY <3>1, <3>2 DEF Outcomes
  <2> QED BY <1>0, <2>1, <2>2, <2>3
<1>30. ASSUME NEW t \in Threads, Close(t) PROVE KilledInv'
  BY <1>0, <1>30 DEF Close
<1>31. ASSUME NEW t \in Threads, Release(t) PROVE KilledInv'
  BY <1>0, <1>31, LeaveFrame DEF Release
<1> HIDE DEF KilledInv, SinceProcess, Threads, Nothing, Now
<1> QED
  BY <1>1, <1>2, <1>3, <1>4, <1>5, <1>6, <1>7, <1>8, <1>9, <1>10, <1>11, <1>12, <1>13,
     <1>14, <1>15, <1>16, <1>17, <1>18, <1>19, <1>20, <1>21, <1>22, <1>23, <1>24, <1>25,
     <1>26, <1>27, <1>28, <1>29, <1>30, <1>31
  DEF Next, Outside, Loop, Setup, Script
-----------------------------------------------------------------------------
(* The theorems.                                                           *)

(* Only Spawn starts a process.                                            *)
LEMMA OnlySpawnStarts ==
    ASSUME IInv, Next, NEW t \in Threads, ~ alive[t], alive'[t]
    PROVE  Spawn(t)
<1>0. alive \in [Threads -> BOOLEAN]
  BY DEF IInv, TypeOK
<1>1. CASE UNCHANGED alive
  BY <1>1
<1>2. CASE Outside
  BY <1>0, <1>1, <1>2 DEF Outside, Tick, Command, Probe, HeartbeatNames,
     HeartbeatCancels,
     HeartbeatKills, Revoked, StateDeleted, RunReturns, ClosePanel, runVars
<1>3. CASE Loop
  BY <1>1, <1>3 DEF Loop, Sync, Due, Schedule, Reserve, Poll, PollEnds, Adhoc,
     TurnedDown,
     Execute, LoopUnlocks
<1>4. CASE Setup
  BY <1>1, <1>4 DEF Setup, SetupBegins, SetupRefused, SetupAdmitted, Admitted,
     SetupAnswered, SetupChecked, PanelReports, PanelUnpends, PanelUnlocks
<1>5. ASSUME NEW u \in Threads, Script(u) PROVE Spawn(t)
  <2>1. CASE Spawn(u)
    <3>1. u = t
      BY <1>0, <2>1 DEF Spawn
    <3> QED
      BY <2>1, <3>1
  <2>2. CASE Prepare(u) \/ Finish(u) \/ Close(u) \/ Release(u)
    BY <1>0, <1>1, <2>2 DEF Prepare, Finish, Close, Release
  <2> QED
    BY <1>5, <2>1, <2>2 DEF Script
<1> QED
  BY <1>2, <1>3, <1>4, <1>5 DEF Next

THEOREM Inductive == Spec => []IInv
<1>1. Init => IInv
  <2> SUFFICES ASSUME Init PROVE IInv
    OBVIOUS
  <2> USE AdmissionAssumption DEF Init
  <2>1. TypeOK
    BY NothingType DEF TypeOK, Threads, States, Phases
  <2>2. LocksInv /\ ActiveInv /\ KeysInv /\ MinutesInv
    BY DEF LocksInv, AfterAdmission, WithRunMu, ActiveInv, KeysInv, WithKey, MinutesInv,
       Threads, Nothing
  <2>3. SeenInv /\ CauseInv /\ TargetInv /\ KilledInv
    BY DEF SeenInv, CauseInv, BeforeProcess, SinceProcess, TargetInv, KilledInv,
       Threads, Nothing
  <2> QED
    BY <2>1, <2>2, <2>3 DEF IInv
<1>2. IInv /\ [Next]_vars => IInv'
  BY TypeStep, LocksStep, ActiveStep, KeysStep, MinutesStep, SeenStep, CauseStep,
     TargetStep, KilledStep DEF IInv
<1> QED
  BY <1>1, <1>2, PTL DEF Spec

(* Every variable has the shape the code gives it.                         *)
THEOREM TypeCorrect == Spec => []TypeOK
BY Inductive, PTL DEF IInv

(* OneProcess: two scripts never run at the same time (runMu, admission).  *)
THEOREM OneAtATime == Spec => []OneProcess
<1>1. IInv => OneProcess
  BY DEF IInv, LocksInv, ActiveInv, WithRunMu, AfterAdmission, OneProcess
<1> QED
  BY <1>1, Inductive, PTL

(* NoneWhileStopped: on a halted device no script runs or starts           *)
(* (setHaltLocked, and the look at the halt state that goes with Spawn).   *)
THEOREM StoppedIsQuiet == Spec => []NoneWhileStopped
<1>1. IInv => NoneWhileStopped
  BY DEF IInv, ActiveInv, NoneWhileStopped
<1> QED
  BY <1>1, Inductive, PTL

(* CancelledForCause: a result "cancelled" is never a mistake.             *)
THEOREM CancelledRightly == Spec => []CancelledForCause
<1>1. IInv => CancelledForCause
  BY DEF IInv, CauseInv, CancelledForCause
<1> QED
  BY <1>1, Inductive, PTL

(* StopEndsCancelled: what a halt or a heartbeat killed is reported so.    *)
THEOREM KilledIsCancelled == Spec => []StopEndsCancelled
<1>1. IInv => StopEndsCancelled
  BY DEF IInv, KilledInv, StopEndsCancelled
<1> QED
  BY <1>1, Inductive, PTL

(* NoCatchUp: reserveScheduled never takes a slot of a halted minute.      *)
THEOREM NothingCaughtUp == Spec => NoCatchUp
<1>1. IInv /\ [Next]_vars => [(slots' \ slots) \cap haltedMinutes = {}]_vars
  <2> SUFFICES ASSUME IInv, Next PROVE (slots' \ slots) \cap haltedMinutes = {}
    BY DEF vars
  <2>1. CASE Reserve
    <3>1. \/ slots' = slots
          \/ slots' = slots \cup {run["loop"].slot} /\ ~ ScheduleHalted
      BY <2>1 DEF Reserve
    <3>2. run["loop"].slot \in Nat /\ through \in Nat /\ haltedMinutes \subseteq Nat
      BY DEF IInv, TypeOK, Locals, Threads
    <3>3. ~ ScheduleHalted => run["loop"].slot \notin haltedMinutes
      BY <3>2 DEF ScheduleHalted, IInv, MinutesInv
    <3> QED
      BY <3>1, <3>3
  <2>2. CASE UNCHANGED slots
    BY <2>2
  <2>3. CASE Outside
    BY <2>2, <2>3 DEF Outside, Tick, Command, Probe, HeartbeatNames, HeartbeatCancels,
       HeartbeatKills, Revoked, StateDeleted, RunReturns, ClosePanel, runVars
  <2>4. CASE Loop
    BY <2>1, <2>2, <2>4 DEF Loop, Sync, Due, Schedule, Poll, PollEnds, Adhoc,
       TurnedDown,
       Execute, LoopUnlocks
  <2>5. CASE Setup
    BY <2>2, <2>5 DEF Setup, SetupBegins, SetupRefused, SetupAdmitted, Admitted,
       SetupAnswered, SetupChecked, PanelReports, PanelUnpends, PanelUnlocks
  <2>6. ASSUME NEW t \in Threads, Script(t) PROVE (slots' \ slots) \cap haltedMinutes = {}
    BY <2>2, <2>6 DEF Script, Prepare, Spawn, Finish, Close, Release
  <2> QED
    BY <2>3, <2>4, <2>5, <2>6 DEF Next
<1> QED
  BY <1>1, Inductive, PTL DEF Spec, NoCatchUp

(* NothingCrossedStarts: claimCancel, haltVersion, panelGeneration and the *)
(* panel's permit together keep every crossed permission from a process.   *)
THEOREM NoCrossedStart == Spec => NothingCrossedStarts
<1>1. IInv /\ [Next]_vars =>
        [\A t \in Threads : /\ ~ alive[t] /\ alive'[t]
                            /\ t = "panel" \/ run[t].slot = 0
                            => ~ run[t].crossed]_vars
  <2> SUFFICES ASSUME IInv, Next, NEW t \in Threads, ~ alive[t], alive'[t]
               PROVE  ~ run[t].crossed
    BY DEF vars
  <2>2. Spawn(t)
    BY OnlySpawnStarts
  <2>3. phase[t] = "marked" /\ PermitValid(t)
    BY <2>2 DEF Spawn, IInv, TypeOK
  <2> QED
    BY <2>3 DEF IInv, SeenInv, PermitValid, Threads
<1> QED
  BY <1>1, Inductive, PTL DEF Spec, NothingCrossedStarts

(* Both: whatever starts is of now.                                        *)
THEOREM FreshStarts == Spec => StartsAreFresh
BY NothingCaughtUp, NoCrossedStart DEF StartsAreFresh

-----------------------------------------------------------------------------
(* Admission implements RunGate.                                           *)

Live == {run[t].key : t \in {u \in Threads : alive[u]}}

(* A step that leaves the processes, their keys and the halt state alone   *)
(* is invisible.                                                           *)
LEMMA Invisible ==
    ASSUME halt' = halt, \A t \in Threads : alive'[t] = alive[t],
           \A t \in Threads : alive[t] => run'[t].key = run[t].key
    PROVE  UNCHANGED <<halt, Live>>
BY DEF Live

(* Where no process is, nothing is visible.                                *)
LEMMA NoneAlive == ASSUME \A t \in Threads : ~ alive'[t] PROVE Live' = {}
BY DEF Live

(* Who has the run lock is the only one that may have a process.           *)
LEMMA AtMostOne ==
    ASSUME IInv, NEW t \in Threads, phase[t] \in WithRunMu, NEW u \in Threads, alive[u]
    PROVE  u = t
BY DEF IInv, LocksInv, ActiveInv, WithRunMu, AfterAdmission, Threads

(* Every step is one of the gate, or invisible.                            *)
LEMMA GateStep == IInv /\ [Next]_vars => [Gate!GateNext]_<<halt, Live>>
<1> SUFFICES ASSUME IInv, [Next]_vars PROVE [Gate!GateNext]_<<halt, Live>>
  OBVIOUS
<1> USE DEF Gate!GateNext, Gate!Begin, Gate!End, Gate!Turn
<1>0. TypeOK /\ alive \in [Threads -> BOOLEAN] /\ run \in [Threads -> Locals]
  BY DEF IInv, TypeOK
<1>1. ASSUME halt' = halt, \A t \in Threads : alive'[t] = alive[t],
             \A t \in Threads : alive[t] => run'[t].key = run[t].key
      PROVE  [Gate!GateNext]_<<halt, Live>>
  BY <1>1, Invisible
<1>2. ASSUME halt' = halt, \A t \in Threads : ~ alive'[t]
      PROVE  [Gate!GateNext]_<<halt, Live>>
  BY <1>2, NoneAlive DEF Live
<1>3. ASSUME NEW h \in States, Command(h) PROVE [Gate!GateNext]_<<halt, Live>>
  <2>1. halt' \in {"arbeitet", "pausiert", "angehalten"}
    BY <1>3 DEF Command, States
  <2>2. CASE halt' = "angehalten"
    <3>1. \A t \in Threads : ~ alive'[t]
      BY <1>0, <1>3, <2>2 DEF Command, Struck, IInv, ActiveInv
    <3> QED
      BY <2>2, <3>1, NoneAlive DEF Live
  <2>3. CASE halt' # "angehalten"
    <3>1. \A t \in Threads : alive'[t] = alive[t]
      BY <1>0, <1>3, <2>3 DEF Command, Struck
    <3>2. \A t \in Threads : run'[t].key = run[t].key
      BY <1>0, <1>3, CommandFrame
    <3>3. Live' = Live
      BY <3>1, <3>2 DEF Live
    <3> QED
      BY <2>1, <2>3, <3>3 DEF Live
  <2> QED
    BY <2>2, <2>3
<1>4. CASE Outside
  <2>1. CASE Tick \/ Probe \/ StateDeleted \/ RunReturns \/ ClosePanel \/ UNCHANGED vars
    BY <1>1, <2>1 DEF Tick, Probe, StateDeleted, RunReturns, ClosePanel, vars, calm,
       haltVars,
       runVars
  <2>2. CASE HeartbeatNames
    BY <1>0, <1>1, <2>2, HeartbeatNamesFrame DEF HeartbeatNames, haltVars
  <2>3. CASE HeartbeatCancels
    BY <1>0, <1>1, <2>3, HeartbeatCancelsFrame DEF HeartbeatCancels, haltVars
  <2>4. CASE HeartbeatKills
    <3>1. halt' = halt /\ \A t \in Threads : run'[t].key = run[t].key
      BY <1>0, <2>4, HeartbeatKillsFrame DEF HeartbeatKills, haltVars
    <3>2. CASE \E t \in Threads : alive[t] /\ IsTarget(t)
      <4>1. \A t \in Threads : ~ alive'[t]
        BY <1>0, <2>4, <3>2, AtMostOne DEF HeartbeatKills, IsTarget, WithRunMu,
           AfterAdmission
      <4> QED
        BY <1>2, <3>1, <4>1
    <3>3. CASE \A t \in Threads : ~ (alive[t] /\ IsTarget(t))
      <4>1. \A t \in Threads : alive'[t] = alive[t]
        BY <1>0, <2>4, <3>3 DEF HeartbeatKills
      <4> QED
        BY <1>1, <3>1, <4>1
    <3> QED
      BY <3>2, <3>3
  <2>5. CASE Revoked
    <3>1. \A t \in Threads : ~ alive'[t]
      BY <1>0, <2>5 DEF Revoked, IInv, ActiveInv
    <3> QED
      BY <1>2, <2>5, <3>1 DEF Revoked, haltVars
  <2> QED
    BY <1>3, <1>4, <2>1, <2>2, <2>3, <2>4, <2>5 DEF Outside
<1>5. CASE Loop
  <2>1. halt' = halt /\ alive' = alive
    BY <1>5 DEF Loop, Sync, Due, Schedule, Reserve, Poll, PollEnds, Adhoc, TurnedDown,
       Execute, LoopUnlocks, calm, haltVars
  <2>2. alive["loop"] => phase["loop"] = "live"
    BY DEF IInv, ActiveInv, Threads
  <2>3. \A t \in Threads : alive[t] => run'[t].key = run[t].key
    <3>1. CASE Sync
      BY <1>0, <3>1, SyncFrame DEF Threads
    <3>2. CASE Due
      BY <1>0, <3>2, DueFrame DEF Threads
    <3>3. CASE Schedule \/ PollEnds \/ TurnedDown \/ Execute
      BY <1>0, <3>3, LeaveFrame, FinishedFrame, <2>2
      DEF Threads, Schedule, PollEnds, TurnedDown, Execute
    <3>4. CASE Reserve \/ Adhoc
      BY <1>0, <3>4, LeaveFrame, NewRunFrame, <2>2 DEF Threads, Reserve, Adhoc
    <3>5. CASE Poll
      BY <1>0, <3>5, SnapshotFrame DEF Threads, Poll
    <3>6. CASE LoopUnlocks
      BY <3>6 DEF LoopUnlocks
    <3> QED
      BY <1>5, <3>1, <3>2, <3>3, <3>4, <3>5, <3>6 DEF Loop
  <2> QED
    BY <1>1, <2>1, <2>3
<1>6. CASE Setup
  <2>1. halt' = halt /\ alive' = alive
    BY <1>6 DEF Setup, SetupBegins, SetupRefused, SetupAdmitted, Admitted,
       SetupAnswered,
       SetupChecked, PanelReports, PanelUnpends, PanelUnlocks, calm, haltVars
  <2>2. alive["panel"] => phase["panel"] = "live"
    BY DEF IInv, ActiveInv, Threads
  <2>3. \A t \in Threads : alive[t] => run'[t].key = run[t].key
    <3>1. CASE SetupBegins
      BY <1>0, <3>1, SnapshotFrame DEF Threads, SetupBegins
    <3>2. CASE SetupAdmitted
      BY <1>0, <3>2, AdmittedFrame DEF Threads
    <3>3. CASE SetupRefused \/ SetupChecked
      BY <1>0, <3>3, LeaveFrame, FinishedFrame, <2>2 DEF Threads, SetupRefused,
         SetupChecked
    <3>4. CASE SetupAnswered
      BY <1>0, <3>4, NewRunFrame, <2>2 DEF Threads, SetupAnswered
    <3>5. CASE PanelReports \/ PanelUnpends \/ PanelUnlocks
      BY <3>5 DEF PanelReports, PanelUnpends, PanelUnlocks
    <3> QED
      BY <1>6, <3>1, <3>2, <3>3, <3>4, <3>5 DEF Setup
  <2> QED
    BY <1>1, <2>1, <2>3
<1>7. ASSUME NEW t \in Threads, Script(t) PROVE [Gate!GateNext]_<<halt, Live>>
  <2>1. halt' = halt
    BY <1>7 DEF Script, Prepare, Spawn, Finish, Close, Release, calm, haltVars
  <2>2. CASE Prepare(t) \/ Close(t) \/ Release(t)
    <3>1. alive' = alive
      BY <2>2 DEF Prepare, Close, Release
    <3>2. alive[t] => phase[t] = "live"
      BY DEF IInv, ActiveInv
    <3>3. \A u \in Threads : alive[u] => run'[u].key = run[u].key
      BY <1>0, <2>2, <3>2, FinishedFrame, LeaveFrame DEF Prepare, Close, Release
    <3> QED
      BY <1>1, <2>1, <3>1, <3>3
  <2>3. CASE Finish(t)
    <3>1. \A u \in Threads : ~ alive'[u]
      BY <1>0, <2>3, AtMostOne DEF Finish, WithRunMu, AfterAdmission
    <3> QED
      BY <1>2, <2>1, <3>1
  <2>4. CASE Spawn(t) /\ UNCHANGED alive
    <3>1. \A u \in Threads : run'[u].key = run[u].key
      BY <1>0, <2>4, FinishedFrame DEF Spawn
    <3> QED
      BY <1>1, <2>1, <2>4, <3>1
  <2>5. CASE Spawn(t) /\ alive' # alive
    <3>1. /\ phase[t] = "marked" /\ halt = "arbeitet" /\ UNCHANGED run
          /\ alive' = [alive EXCEPT ![t] = TRUE]
      BY <2>5 DEF Spawn, WorkAllowed
    <3>2. \A u \in Threads : ~ alive[u]
      BY <3>1, AtMostOne DEF WithRunMu, AfterAdmission, IInv, ActiveInv
    <3>3. Live = {} /\ Live' = {run[t].key}
      BY <1>0, <3>1, <3>2 DEF Live
    <3>4. run[t].key \in 1..MaxRuns
      <4>1. run[t].key \in Nat /\ runs \in Nat /\ MaxRuns \in Nat
        BY <1>0, <3>1, AdmissionAssumption DEF IInv, KeysInv, WithKey, Locals, TypeOK
      <4> QED
        BY <4>1, AdmissionAssumption DEF IInv, KeysInv
    <3> QED
      BY <2>1, <3>1, <3>3, <3>4 DEF Live
  <2> QED
    BY <1>7, <2>2, <2>3, <2>4, <2>5 DEF Script
<1> QED
  BY <1>1, <1>4, <1>5, <1>6, <1>7 DEF Next, vars, calm, haltVars, runVars

(* ImplementsGate: seen from outside, the runner with its goroutines,      *)
(* locks and answers is the simple gate of RunGate.                        *)
THEOREM Implements == Spec => ImplementsGate
<1>1. Init => halt = "arbeitet" /\ Live = {}
  BY DEF Init, Live
<1> QED
  BY <1>1, GateStep, Inductive, PTL
  DEF Spec, ImplementsGate, Gate!GateSpec, Gate!GateInit, Gate!gateVars, Live

-----------------------------------------------------------------------------
(* Window: a page of an app works for the person it shows, for any people, *)
(* messages, documents and bounds, as long as the core takes a token back  *)
(* with its grant.                                                         *)

Sessions == Owners \cup {Nobody}
People == Persons \cup {Nobody}
Modes == {"device", "personal", "blocked"}
Messages == [at : {"idle", "starts", "token", "fetch", "rpc", "send"}, epoch : Nat,
             sess : Sessions, gen : Nat, again : BOOLEAN]
Results == [kind : {"none", "person", "error"}, person : People, changed : BOOLEAN, gen : Nat]
Gates == [session : Sessions, gen : Nat, mode : Modes]
Hosts == [state : {"open", "suspended", "closed"}, epoch : Nat, out : Seq(Sessions)]
Switches == [stage : {"no", "quiet", "clear"}, person : People, gen : Nat]
WindowType ==
    /\ gate \in Gates /\ host \in Hosts /\ call \in [Calls -> Messages]
    /\ loginGen \in Nat /\ busy \in BOOLEAN /\ signed \in BOOLEAN /\ loginClosed \in BOOLEAN
    /\ result \in Results /\ lastPerson \in People
    /\ flow \in {"no", "waits", "swaps"} /\ switch \in Switches
    /\ doc \in {"none", "app", "blank"} /\ owner \in Sessions

(* A login that is open has one thing under way: a flow, its result, or a change of person.  *)
OneLogin ==
    loginClosed = FALSE =>
        /\ busy = FALSE => flow = "no" /\ result.kind = "none" /\ switch.stage = "no"
        /\ flow # "no" => result.kind = "none" /\ switch.stage = "no"
        /\ result.kind # "none" => result.gen = loginGen /\ switch.stage = "no"
(* The core's last person is the one signed in, or the one who is about to be.              *)
PersonKnown ==
    /\ result.kind = "person" => result.person \in Persons
    /\ loginClosed = FALSE =>
        /\ result.kind = "person" => result.person = lastPerson
        /\ signed = TRUE /\ result.kind # "person" => lastPerson = owner
        /\ signed = TRUE /\ result.kind = "person" /\ result.changed = FALSE
               => result.person = owner
        /\ switch.stage # "no" /\ switch.person # Nobody => switch.person = lastPerson
(* The session that is held is the owner's; none is during a change and after the end.         *)
SessionIsOwn ==
    /\ gate.session # Nobody => gate.mode # "blocked" /\ gate.session = owner
    /\ gate.mode = "device" => owner = Device
    /\ loginClosed = TRUE \/ switch.stage # "no" => gate.mode = "blocked"
(* A message that counts has the owner's session: by the session's number in the gateway, by  *)
(* the epoch of the host once it has left it.                                             *)
MessageIsOwn(c) ==
    /\ call[c].at \in {"fetch", "rpc"} => call[c].gen <= gate.gen
    /\ call[c].at = "fetch" /\ call[c].gen = gate.gen => gate.mode = "device"
    /\ call[c].at = "rpc" /\ call[c].gen = gate.gen /\ gate.mode # "blocked"
           => call[c].sess = owner
    /\ call[c].at # "idle" => call[c].epoch <= host.epoch
    /\ call[c].at # "idle" /\ host.state = "suspended" => call[c].epoch < host.epoch
    /\ call[c].at = "send" /\ call[c].epoch = host.epoch /\ host.state = "open"
           => call[c].sess \in {Nobody, owner}
MessagesAreOwn == \A c \in Calls : MessageIsOwn(c)
RepliesAreOwn ==
    /\ \A i \in DOMAIN host.out : host.out[i] \in {Nobody, owner}
    /\ host.state # "open" => host.out = <<>>
    /\ switch.stage # "no" => host.state # "open"
(* A document that is not the app's holds nothing.                                      *)
DocumentIsOwn ==
    /\ doc # "app" => seen = {}
    /\ switch.stage = "clear" => doc = "blank"
    /\ doc = "app" => seen \cup kept \subseteq {owner}

WindowInv ==
    /\ WindowType /\ OneLogin /\ PersonKnown /\ SessionIsOwn
    /\ MessagesAreOwn /\ RepliesAreOwn /\ DocumentIsOwn

-----------------------------------------------------------------------------
(* What the operations of the gateway and of the host return.                          *)
LEMMA Gateways ==
    ASSUME NEW g \in Gates
    PROVE  /\ Forgotten(g) \in Gates /\ Forgotten(g).session = Nobody
           /\ Forgotten(g).gen = g.gen + 1 /\ Forgotten(g).mode = "blocked"
           /\ \A p \in Sessions :
                 /\ Installed(g, p) \in Gates /\ Installed(g, p).session = p
                 /\ Installed(g, p).gen = g.gen + 1 /\ Installed(g, p).mode = "personal"
           /\ \A n \in Nat :
                 /\ Dropped(g, n) \in Gates /\ Dropped(g, n).session \in {g.session, Nobody}
                 /\ Dropped(g, n).gen = g.gen /\ Dropped(g, n).mode = g.mode
  BY DEF Gates, Forgotten, Installed, Dropped, Sessions, Modes
LEMMA HostStates ==
    ASSUME NEW h \in Hosts
    PROVE  /\ HostSuspended(h) \in Hosts /\ HostSuspended(h).state # "open"
           /\ HostSuspended(h).epoch = h.epoch + 1 /\ HostSuspended(h).out = <<>>
           /\ HostFailed(h) \in Hosts /\ HostFailed(h).state = "closed"
           /\ HostFailed(h).epoch = h.epoch /\ HostFailed(h).out = <<>>
           /\ HostResumed(h) \in Hosts /\ HostResumed(h).state # "suspended"
           /\ HostResumed(h).epoch = h.epoch /\ HostResumed(h).out = h.out
           /\ h.state = "closed" => HostResumed(h).state = "closed"
  <1>1. <<>> \in Seq(Sessions)
    OBVIOUS
  <1>2. /\ HostSuspended(h) \in Hosts /\ HostSuspended(h).state # "open"
        /\ HostSuspended(h).epoch = h.epoch + 1 /\ HostSuspended(h).out = <<>>
    BY <1>1 DEF Hosts, HostSuspended
  <1>3. /\ HostFailed(h) \in Hosts /\ HostFailed(h).state = "closed"
        /\ HostFailed(h).epoch = h.epoch /\ HostFailed(h).out = <<>>
    BY <1>1 DEF Hosts, HostFailed
  <1>4. CASE h.state = "closed"
    BY <1>2, <1>3, <1>4 DEF Hosts, HostResumed
  <1>5. CASE h.state # "closed"
    BY <1>2, <1>3, <1>5 DEF Hosts, HostResumed
  <1> QED
    BY <1>4, <1>5
LEMMA MessageSteps ==
    ASSUME NEW m \in Messages, NEW s \in Sessions, NEW n \in Nat
    PROVE  /\ \A x \in {"starts", "token", "fetch", "rpc", "send"} :
                 /\ [m EXCEPT !.at = x] \in Messages
                 /\ [m EXCEPT !.at = x, !.sess = s] \in Messages
                 /\ [m EXCEPT !.at = x, !.gen = n] \in Messages
                 /\ [m EXCEPT !.at = x, !.sess = s, !.gen = n] \in Messages
           /\ [m EXCEPT !.at = "token", !.again = TRUE] \in Messages
           /\ [m EXCEPT !.at = "starts", !.epoch = n] \in Messages
  BY DEF Messages
LEMMA WindowConstants ==
    ASSUME WindowAssumption
    PROVE  /\ Idle \in Messages /\ Idle.at = "idle"
           /\ NoResult \in Results /\ NoResult.kind = "none"
           /\ NoSwitch \in Switches /\ NoSwitch.stage = "no"
           /\ Device \in Sessions /\ Nobody \in Sessions /\ Nobody \in People
           /\ Device # Nobody /\ Persons \subseteq Sessions \ {Nobody}
           /\ Persons \subseteq People /\ People \subseteq Sessions
  BY WindowAssumption DEF Idle, Messages, NoResult, Results, NoSwitch, Switches, Sessions,
     Owners, People

(* A change of person, up to the empty document, or the end of the window.                   *)
Changing(p, n) ==
    /\ gate' \in Gates /\ gate'.session = Nobody /\ gate'.gen > gate.gen
    /\ gate'.mode = "blocked"
    /\ host' \in Hosts /\ host'.state # "open" /\ host'.epoch = host.epoch + 1
    /\ host'.out = <<>>
    /\ signed' = FALSE /\ loginGen' \in Nat /\ busy' \in BOOLEAN /\ switch' \in Switches
    /\ loginClosed' \in BOOLEAN
    /\ loginClosed' = FALSE => loginGen' = n /\ busy' = TRUE
    /\ switch'.stage \in {"no", "quiet"} /\ switch'.stage # "no" => switch'.person = p
LEMMA Quieting ==
    ASSUME WindowAssumption, WindowType, loginClosed = FALSE,
           NEW p \in People, NEW n \in Nat, SwitchPerson(p, n)
    PROVE  Changing(p, n)
<1>c. NoSwitch \in Switches /\ NoSwitch.stage = "no"
  BY WindowConstants
<1>g. /\ Forgotten(gate) \in Gates /\ Forgotten(gate).gen = gate.gen + 1 /\ gate.gen \in Nat
      /\ Forgotten(gate).session = Nobody /\ Forgotten(gate).mode = "blocked"
      /\ Forgotten(Forgotten(gate)) \in Gates
      /\ Forgotten(Forgotten(gate)).gen = gate.gen + 1 + 1
      /\ Forgotten(Forgotten(gate)).session = Nobody
      /\ Forgotten(Forgotten(gate)).mode = "blocked"
  BY Gateways DEF WindowType, Gates
<1>h. /\ HostSuspended(host) \in Hosts /\ HostSuspended(host).state # "open"
      /\ HostSuspended(host).epoch = host.epoch + 1 /\ HostSuspended(host).out = <<>>
      /\ HostFailed(HostSuspended(host)) \in Hosts
      /\ HostFailed(HostSuspended(host)).state = "closed"
      /\ HostFailed(HostSuspended(host)).epoch = host.epoch + 1
      /\ HostFailed(HostSuspended(host)).out = <<>>
  BY HostStates DEF WindowType
<1>1. CASE gate' = Forgotten(gate)
  <2>1. /\ host' = HostSuspended(host) /\ loginGen' = n /\ busy' = TRUE
        /\ switch' = [stage |-> "quiet", person |-> p, gen |-> n]
        /\ loginClosed' = loginClosed /\ signed' = FALSE
    BY <1>1, <1>g DEF SwitchPerson, FailLogin, LoginCloses, WindowType
  <2>2. switch' \in Switches /\ switch'.stage = "quiet" /\ switch'.person = p
    BY <2>1 DEF Switches
  <2>3. signed' = FALSE /\ busy' \in BOOLEAN /\ loginClosed' \in BOOLEAN /\ loginGen' \in Nat
    BY <2>1 DEF WindowType
  <2>4. loginClosed' = FALSE => loginGen' = n /\ busy' = TRUE
    BY <2>1
  <2> QED
    BY <1>1, <1>g, <1>h, <2>1, <2>2, <2>3, <2>4 DEF Changing
<1>2. CASE gate' # Forgotten(gate)
  <2>1. /\ gate' = Forgotten(Forgotten(gate)) /\ host' = HostFailed(HostSuspended(host))
        /\ busy' = FALSE /\ switch' = NoSwitch /\ loginClosed' = TRUE /\ signed' = FALSE
        /\ loginGen' = n + 1
    BY <1>2 DEF SwitchPerson, FailLogin, LoginCloses, WindowType
  <2>2. signed' = FALSE /\ busy' \in BOOLEAN /\ loginClosed' \in BOOLEAN
    BY <2>1
  <2>3. loginGen' \in Nat /\ (loginClosed' = FALSE => loginGen' = n /\ busy' = TRUE)
    <3>1. loginGen' \in Nat
      BY <2>1
    <3> QED
      BY <2>1, <3>1
  <2> QED
    BY <1>c, <1>g, <1>h, <2>1, <2>2, <2>3 DEF Changing
<1> QED
  BY <1>1, <1>2

LEMMA WindowSteps ==
    ASSUME WindowAssumption, ~LostGrants, WindowInv, WindowNext
    PROVE  WindowInv'
<1> USE DEF WindowInv
<1>c. /\ Idle \in Messages /\ Idle.at = "idle"
      /\ NoResult \in Results /\ NoResult.kind = "none"
      /\ NoSwitch \in Switches /\ NoSwitch.stage = "no"
      /\ Device \in Sessions /\ Nobody \in Sessions /\ Nobody \in People
      /\ Device # Nobody /\ Persons \subseteq Sessions \ {Nobody}
      /\ Persons \subseteq People /\ People \subseteq Sessions
  BY WindowConstants
<1>r. \A n \in Nat :
        /\ \A q \in Persons :
              /\ [kind |-> "person", person |-> q, changed |-> TRUE, gen |-> n] \in Results
              /\ [kind |-> "person", person |-> q, changed |-> FALSE, gen |-> n] \in Results
        /\ [kind |-> "error", person |-> Nobody, changed |-> FALSE, gen |-> n] \in Results
  BY <1>c DEF Results
<1>e. <<>> \in Seq(Sessions)
  OBVIOUS
<1>g. /\ gate.gen \in Nat /\ gate.session \in Sessions
      /\ Forgotten(gate) \in Gates /\ Forgotten(gate).gen = gate.gen + 1
      /\ Forgotten(gate).session = Nobody /\ Forgotten(gate).mode = "blocked"
      /\ \A p \in Sessions :
            /\ Installed(gate, p) \in Gates /\ Installed(gate, p).session = p
            /\ Installed(gate, p).gen = gate.gen + 1 /\ Installed(gate, p).mode = "personal"
      /\ \A n \in Nat :
            /\ Dropped(gate, n) \in Gates
            /\ Dropped(gate, n).session \in {gate.session, Nobody}
            /\ Dropped(gate, n).gen = gate.gen /\ Dropped(gate, n).mode = gate.mode
  BY Gateways DEF WindowType, Gates
<1>h. /\ HostFailed(host) \in Hosts /\ HostFailed(host).state = "closed"
      /\ HostFailed(host).epoch = host.epoch /\ HostFailed(host).out = <<>>
  BY HostStates DEF WindowType
<1>1. ASSUME NEW c \in Calls, HostReceives(c) PROVE WindowInv'
  <2>1. call[c] \in Messages /\ host.epoch \in Nat /\ gate \in Gates /\ host \in Hosts
        /\ gate.gen \in Nat /\ gate.session \in Sessions /\ call[c].gen \in Nat
        /\ call[c].sess \in Sessions /\ call[c].epoch \in Nat
    BY DEF WindowType, Gates, Hosts, Messages
  <2>m. /\ \A x \in {"starts", "token", "fetch", "rpc", "send"}, s \in Sessions, n \in Nat :
              /\ [call[c] EXCEPT !.at = x] \in Messages
              /\ [call[c] EXCEPT !.at = x, !.sess = s] \in Messages
              /\ [call[c] EXCEPT !.at = x, !.gen = n] \in Messages
              /\ [call[c] EXCEPT !.at = x, !.sess = s, !.gen = n] \in Messages
        /\ [call[c] EXCEPT !.at = "token", !.again = TRUE] \in Messages
        /\ \A n \in Nat : [Idle EXCEPT !.at = "starts", !.epoch = n] \in Messages
    BY <1>c, <2>1, MessageSteps
  <2>2. call' \in [Calls -> Messages]
    BY <1>1, <1>c, <2>1, <2>m DEF WindowType, HostReceives, Speaks, KeepUI,
       loginVars, surfaceVars, pageVars
  <2>3. WindowType'
    BY <1>1, <1>c, <1>g, <2>1, <2>2 DEF WindowType, HostReceives, Speaks, KeepUI,
       loginVars, surfaceVars, pageVars
  <2>4. OneLogin' /\ PersonKnown' /\ DocumentIsOwn'
    BY <1>1 DEF HostReceives, Speaks, KeepUI, loginVars, surfaceVars, pageVars,
       OneLogin, PersonKnown, DocumentIsOwn
  <2>5. SessionIsOwn'
    BY WindowAssumption, <1>1 DEF HostReceives, Speaks, Idle, KeepUI, loginVars,
       surfaceVars, pageVars, OneLogin, PersonKnown, SessionIsOwn, MessagesAreOwn,
       MessageIsOwn, RepliesAreOwn, DocumentIsOwn, WindowType, Sessions, People, Modes,
       Messages, Results, Owners, Gates, Hosts, Switches
  <2>6. ASSUME NEW d \in Calls PROVE MessageIsOwn(d)'
    <3>1. call[d] \in Messages /\ call[d].gen \in Nat /\ call[d].epoch \in Nat
      BY DEF WindowType, Messages
    <3>2. CASE d # c
      BY <1>1, <1>c, <1>g, <2>1, <3>1, <3>2 DEF WindowType, SessionIsOwn,
         MessagesAreOwn, MessageIsOwn, HostReceives, Speaks, KeepUI, loginVars,
         surfaceVars, pageVars
    <3>3. CASE d = c
      BY <1>1, <1>c, <1>g, <2>1, <3>1, <3>3 DEF WindowType, SessionIsOwn,
         MessagesAreOwn, MessageIsOwn, Messages, HostReceives, Speaks, Idle, KeepUI,
         loginVars, surfaceVars, pageVars
    <3> QED
      BY <3>2, <3>3
  <2>7. RepliesAreOwn'
    BY <1>1, <1>c, <2>1 DEF HostReceives, Speaks, KeepUI, loginVars, surfaceVars,
       pageVars, WindowType, RepliesAreOwn, MessagesAreOwn, MessageIsOwn, Hosts
  <2> QED
    BY <2>3, <2>4, <2>5, <2>6, <2>7 DEF MessagesAreOwn
<1>2. ASSUME NEW c \in Calls, Dispatch(c) PROVE WindowInv'
  <2>1. call[c] \in Messages /\ host.epoch \in Nat /\ gate \in Gates /\ host \in Hosts
        /\ gate.gen \in Nat /\ gate.session \in Sessions /\ call[c].gen \in Nat
        /\ call[c].sess \in Sessions /\ call[c].epoch \in Nat
    BY DEF WindowType, Gates, Hosts, Messages
  <2>m. /\ \A x \in {"starts", "token", "fetch", "rpc", "send"}, s \in Sessions, n \in Nat :
              /\ [call[c] EXCEPT !.at = x] \in Messages
              /\ [call[c] EXCEPT !.at = x, !.sess = s] \in Messages
              /\ [call[c] EXCEPT !.at = x, !.gen = n] \in Messages
              /\ [call[c] EXCEPT !.at = x, !.sess = s, !.gen = n] \in Messages
        /\ [call[c] EXCEPT !.at = "token", !.again = TRUE] \in Messages
        /\ \A n \in Nat : [Idle EXCEPT !.at = "starts", !.epoch = n] \in Messages
    BY <1>c, <2>1, MessageSteps
  <2>2. call' \in [Calls -> Messages]
    BY <1>2, <1>c, <2>1, <2>m DEF WindowType, Dispatch, Answers, SlotsTaken, Goes,
       KeepUI, InGateway, loginVars, surfaceVars, pageVars
  <2>3. WindowType'
    BY <1>2, <1>c, <1>g, <2>1, <2>2 DEF WindowType, Dispatch, Answers, SlotsTaken,
       Goes, KeepUI, InGateway, loginVars, surfaceVars, pageVars
  <2>4. OneLogin' /\ PersonKnown' /\ DocumentIsOwn'
    BY <1>2 DEF Dispatch, Answers, SlotsTaken, Goes, KeepUI, InGateway, loginVars,
       surfaceVars, pageVars, OneLogin, PersonKnown, DocumentIsOwn
  <2>5. SessionIsOwn'
    BY WindowAssumption, <1>2 DEF Dispatch, Answers, SlotsTaken, Goes, KeepUI,
       InGateway, loginVars, surfaceVars, pageVars, OneLogin, PersonKnown, SessionIsOwn,
       MessagesAreOwn, MessageIsOwn, RepliesAreOwn, DocumentIsOwn, WindowType, Sessions,
       People, Modes, Messages, Results, Owners, Gates, Hosts, Switches
  <2>6. ASSUME NEW d \in Calls PROVE MessageIsOwn(d)'
    <3>1. call[d] \in Messages /\ call[d].gen \in Nat /\ call[d].epoch \in Nat
      BY DEF WindowType, Messages
    <3>2. CASE d # c
      BY <1>2, <1>c, <1>g, <2>1, <3>1, <3>2 DEF WindowType, SessionIsOwn,
         MessagesAreOwn, MessageIsOwn, Dispatch, Answers, SlotsTaken, Goes, KeepUI,
         InGateway, loginVars, surfaceVars, pageVars
    <3>3. CASE d = c
      BY <1>2, <1>c, <1>g, <2>1, <3>1, <3>3 DEF WindowType, SessionIsOwn,
         MessagesAreOwn, MessageIsOwn, Messages, Dispatch, Answers, SlotsTaken, Goes,
         KeepUI, InGateway, loginVars, surfaceVars, pageVars
    <3> QED
      BY <3>2, <3>3
  <2>7. RepliesAreOwn'
    BY <1>2, <1>c, <2>1 DEF Dispatch, Answers, SlotsTaken, Goes, KeepUI, InGateway,
       loginVars, surfaceVars, pageVars, WindowType, RepliesAreOwn, MessagesAreOwn,
       MessageIsOwn, Hosts
  <2> QED
    BY <2>3, <2>4, <2>5, <2>6, <2>7 DEF MessagesAreOwn
<1>3. ASSUME NEW c \in Calls, Token(c) PROVE WindowInv'
  <2>1. call[c] \in Messages /\ host.epoch \in Nat /\ gate \in Gates /\ host \in Hosts
        /\ gate.gen \in Nat /\ gate.session \in Sessions /\ call[c].gen \in Nat
        /\ call[c].sess \in Sessions /\ call[c].epoch \in Nat
    BY DEF WindowType, Gates, Hosts, Messages
  <2>m. /\ \A x \in {"starts", "token", "fetch", "rpc", "send"}, s \in Sessions, n \in Nat :
              /\ [call[c] EXCEPT !.at = x] \in Messages
              /\ [call[c] EXCEPT !.at = x, !.sess = s] \in Messages
              /\ [call[c] EXCEPT !.at = x, !.gen = n] \in Messages
              /\ [call[c] EXCEPT !.at = x, !.sess = s, !.gen = n] \in Messages
        /\ [call[c] EXCEPT !.at = "token", !.again = TRUE] \in Messages
        /\ \A n \in Nat : [Idle EXCEPT !.at = "starts", !.epoch = n] \in Messages
    BY <1>c, <2>1, MessageSteps
  <2>2. call' \in [Calls -> Messages]
    <3>1. CASE Answers(c, Nobody)
      BY <1>c, <2>1, <3>1 DEF WindowType, Messages, Answers
    <3>2. CASE call' = [call EXCEPT ![c].at = "rpc", ![c].sess = gate.session, ![c].gen = gate.gen]
      BY <1>c, <2>1, <3>2 DEF WindowType, Messages, Answers
    <3>3. CASE call' = [call EXCEPT ![c].at = "fetch", ![c].gen = gate.gen]
      BY <1>c, <2>1, <3>3 DEF WindowType, Messages, Answers
    <3> QED
      BY <1>3, <3>1, <3>2, <3>3 DEF Token, Answers
  <2>3. WindowType'
    BY <1>3, <1>c, <1>g, <2>1, <2>2 DEF WindowType, Token, Cancelled, Answers,
       KeepUI, loginVars, surfaceVars, pageVars
  <2>4. OneLogin' /\ PersonKnown' /\ DocumentIsOwn'
    BY <1>3 DEF Token, Cancelled, Answers, KeepUI, loginVars, surfaceVars, pageVars,
       OneLogin, PersonKnown, DocumentIsOwn
  <2>5. SessionIsOwn'
    BY WindowAssumption, <1>3 DEF Token, Cancelled, Answers, KeepUI, loginVars,
       surfaceVars, pageVars, OneLogin, PersonKnown, SessionIsOwn, MessagesAreOwn,
       MessageIsOwn, RepliesAreOwn, DocumentIsOwn, WindowType, Sessions, People, Modes,
       Messages, Results, Owners, Gates, Hosts, Switches
  <2>6. ASSUME NEW d \in Calls PROVE MessageIsOwn(d)'
    <3>1. call[d] \in Messages /\ call[d].gen \in Nat /\ call[d].epoch \in Nat
      BY DEF WindowType, Messages
    <3>2. CASE d # c
      BY <1>3, <1>c, <1>g, <2>1, <3>1, <3>2 DEF WindowType, SessionIsOwn,
         MessagesAreOwn, MessageIsOwn, Token, Cancelled, Answers, KeepUI, loginVars,
         surfaceVars, pageVars
    <3>3. CASE d = c
      BY <1>3, <1>c, <1>g, <2>1, <3>1, <3>3 DEF WindowType, SessionIsOwn,
         MessagesAreOwn, MessageIsOwn, Messages, Token, Cancelled, Answers, KeepUI,
         loginVars, surfaceVars, pageVars
    <3> QED
      BY <3>2, <3>3
  <2>7. RepliesAreOwn'
    BY <1>3, <1>c, <2>1 DEF Token, Cancelled, Answers, KeepUI, loginVars,
       surfaceVars, pageVars, WindowType, RepliesAreOwn, MessagesAreOwn, MessageIsOwn,
       Hosts
  <2> QED
    BY <2>3, <2>4, <2>5, <2>6, <2>7 DEF MessagesAreOwn
<1>4. ASSUME NEW c \in Calls, Fetched(c) PROVE WindowInv'
  <2>1. call[c] \in Messages /\ host.epoch \in Nat /\ gate \in Gates /\ host \in Hosts
        /\ gate.gen \in Nat /\ gate.session \in Sessions /\ call[c].gen \in Nat
        /\ call[c].sess \in Sessions /\ call[c].epoch \in Nat
    BY DEF WindowType, Gates, Hosts, Messages
  <2>m. /\ \A x \in {"starts", "token", "fetch", "rpc", "send"}, s \in Sessions, n \in Nat :
              /\ [call[c] EXCEPT !.at = x] \in Messages
              /\ [call[c] EXCEPT !.at = x, !.sess = s] \in Messages
              /\ [call[c] EXCEPT !.at = x, !.gen = n] \in Messages
              /\ [call[c] EXCEPT !.at = x, !.sess = s, !.gen = n] \in Messages
        /\ [call[c] EXCEPT !.at = "token", !.again = TRUE] \in Messages
        /\ \A n \in Nat : [Idle EXCEPT !.at = "starts", !.epoch = n] \in Messages
    BY <1>c, <2>1, MessageSteps
  <2>h. /\ host' = host /\ gate.gen + 1 \in Nat
        /\ \/ gate' = gate
           \/ /\ gate' \in Gates /\ gate'.session = Device /\ gate'.gen = gate.gen + 1
              /\ gate'.mode = gate.mode /\ call[c].gen = gate.gen
    <3>1. CASE gate' = gate
      BY <2>1, <3>1, <1>4 DEF Fetched
    <3>2. CASE gate' = [gate EXCEPT !.session = Device, !.gen = gate.gen + 1] /\ FetchStands(c)
      <4> DEFINE n == gate.gen + 1
      <4>1. n \in Nat /\ n = gate.gen + 1
        BY <2>1
      <4> HIDE DEF n
      <4>2. gate' = [gate EXCEPT !.session = Device, !.gen = n]
        BY <3>2 DEF n
      <4>3. gate' \in Gates /\ gate'.session = Device /\ gate'.gen = n /\ gate'.mode = gate.mode
        BY <1>c, <2>1, <4>1, <4>2 DEF Gates
      <4>4. host' = host /\ call[c].gen = gate.gen
        BY <1>4, <3>2 DEF Fetched, FetchStands
      <4> QED
        BY <2>1, <4>1, <4>3, <4>4
    <3> QED
      BY <3>1, <3>2, <1>4 DEF Fetched
  <2>2. call' \in [Calls -> Messages]
    <3>1. CASE Answers(c, Nobody)
      BY <1>c, <2>1, <3>1 DEF WindowType, Messages, Answers
    <3>2. CASE call' = [call EXCEPT ![c].at = "rpc", ![c].sess = Device, ![c].gen = gate.gen + 1]
      <4> DEFINE n == gate.gen + 1
      <4>1. n \in Nat
        BY <2>1
      <4> HIDE DEF n
      <4>2. call' = [call EXCEPT ![c].at = "rpc", ![c].sess = Device, ![c].gen = n]
        BY <3>2 DEF n
      <4> QED
        BY <1>c, <2>1, <4>1, <4>2 DEF WindowType, Messages
    <3> QED
      BY <1>4, <3>1, <3>2 DEF Fetched, Answers
  <2>3. WindowType'
    BY <2>h, <1>4, <1>c, <1>g, <2>1, <2>2 DEF WindowType, Fetched, Answers,
       FetchStands, KeepUI, loginVars, surfaceVars, pageVars
  <2>4. OneLogin' /\ PersonKnown' /\ DocumentIsOwn'
    BY <1>4 DEF Fetched, Answers, FetchStands, KeepUI, loginVars, surfaceVars,
       pageVars, OneLogin, PersonKnown, DocumentIsOwn
  <2>5. SessionIsOwn'
    BY WindowAssumption, <1>4 DEF Fetched, Answers, FetchStands, KeepUI, loginVars,
       surfaceVars, pageVars, OneLogin, PersonKnown, SessionIsOwn, MessagesAreOwn,
       MessageIsOwn, RepliesAreOwn, DocumentIsOwn, WindowType, Sessions, People, Modes,
       Messages, Results, Owners, Gates, Hosts, Switches
  <2>6. ASSUME NEW d \in Calls PROVE MessageIsOwn(d)'
    <3>1. call[d] \in Messages /\ call[d].gen \in Nat /\ call[d].epoch \in Nat
      BY DEF WindowType, Messages
    <3>2. CASE d # c
      <4>1. call'[d] = call[d] /\ owner' = owner
        BY <1>4, <3>2 DEF WindowType, Fetched, Answers, FetchStands, KeepUI,
           loginVars, surfaceVars, pageVars
      <4> QED
        BY <1>c, <2>1, <2>h, <3>1, <4>1 DEF MessagesAreOwn, MessageIsOwn
    <3>3. CASE d = c
      BY <1>4, <1>c, <1>g, <2>1, <3>1, <3>3 DEF WindowType, SessionIsOwn,
         MessagesAreOwn, MessageIsOwn, Messages, Fetched, Answers, FetchStands, KeepUI,
         loginVars, surfaceVars, pageVars
    <3> QED
      BY <3>2, <3>3
  <2>7. RepliesAreOwn'
    BY <1>4, <1>c, <2>1 DEF Fetched, Answers, FetchStands, KeepUI, loginVars,
       surfaceVars, pageVars, WindowType, RepliesAreOwn, MessagesAreOwn, MessageIsOwn,
       Hosts
  <2> QED
    BY <2>3, <2>4, <2>5, <2>6, <2>7 DEF MessagesAreOwn
<1>5. ASSUME NEW c \in Calls, RpcAnswers(c) PROVE WindowInv'
  <2>1. call[c] \in Messages /\ host.epoch \in Nat /\ gate \in Gates /\ host \in Hosts
        /\ gate.gen \in Nat /\ gate.session \in Sessions /\ call[c].gen \in Nat
        /\ call[c].sess \in Sessions /\ call[c].epoch \in Nat
    BY DEF WindowType, Gates, Hosts, Messages
  <2>m. /\ \A x \in {"starts", "token", "fetch", "rpc", "send"}, s \in Sessions, n \in Nat :
              /\ [call[c] EXCEPT !.at = x] \in Messages
              /\ [call[c] EXCEPT !.at = x, !.sess = s] \in Messages
              /\ [call[c] EXCEPT !.at = x, !.gen = n] \in Messages
              /\ [call[c] EXCEPT !.at = x, !.sess = s, !.gen = n] \in Messages
        /\ [call[c] EXCEPT !.at = "token", !.again = TRUE] \in Messages
        /\ \A n \in Nat : [Idle EXCEPT !.at = "starts", !.epoch = n] \in Messages
    BY <1>c, <2>1, MessageSteps
  <2>2. call' \in [Calls -> Messages]
    BY <1>5, <1>c, <2>1, <2>m DEF WindowType, RpcAnswers, Answers, Stands, KeepUI,
       loginVars, surfaceVars, pageVars
  <2>3. WindowType'
    BY <1>5, <1>c, <1>g, <2>1, <2>2 DEF WindowType, RpcAnswers, Answers, Stands,
       KeepUI, loginVars, surfaceVars, pageVars
  <2>4. OneLogin' /\ PersonKnown' /\ DocumentIsOwn'
    BY <1>5 DEF RpcAnswers, Answers, Stands, KeepUI, loginVars, surfaceVars,
       pageVars, OneLogin, PersonKnown, DocumentIsOwn
  <2>5. SessionIsOwn'
    BY WindowAssumption, <1>5 DEF RpcAnswers, Answers, Stands, Dropped, KeepUI,
       loginVars, surfaceVars, pageVars, OneLogin, PersonKnown, SessionIsOwn,
       MessagesAreOwn, MessageIsOwn, RepliesAreOwn, DocumentIsOwn, WindowType, Sessions,
       People, Modes, Messages, Results, Owners, Gates, Hosts, Switches
  <2>6. ASSUME NEW d \in Calls PROVE MessageIsOwn(d)'
    <3>1. call[d] \in Messages /\ call[d].gen \in Nat /\ call[d].epoch \in Nat
      BY DEF WindowType, Messages
    <3>2. CASE d # c
      BY <1>5, <1>c, <1>g, <2>1, <3>1, <3>2 DEF WindowType, SessionIsOwn,
         MessagesAreOwn, MessageIsOwn, RpcAnswers, Answers, Stands, KeepUI, loginVars,
         surfaceVars, pageVars
    <3>3. CASE d = c
      BY <1>5, <1>c, <1>g, <2>1, <3>1, <3>3 DEF WindowType, SessionIsOwn,
         MessagesAreOwn, MessageIsOwn, Messages, RpcAnswers, Answers, Stands, KeepUI,
         loginVars, surfaceVars, pageVars
    <3> QED
      BY <3>2, <3>3
  <2>7. RepliesAreOwn'
    BY <1>5, <1>c, <2>1 DEF RpcAnswers, Answers, Stands, KeepUI, loginVars,
       surfaceVars, pageVars, WindowType, RepliesAreOwn, MessagesAreOwn, MessageIsOwn,
       Hosts
  <2> QED
    BY <2>3, <2>4, <2>5, <2>6, <2>7 DEF MessagesAreOwn
<1>6. ASSUME NEW c \in Calls, Senden(c) PROVE WindowInv'
  <2>1. call[c] \in Messages /\ host.epoch \in Nat /\ gate \in Gates /\ host \in Hosts
        /\ gate.gen \in Nat /\ gate.session \in Sessions /\ call[c].gen \in Nat
        /\ call[c].sess \in Sessions /\ call[c].epoch \in Nat
    BY DEF WindowType, Gates, Hosts, Messages
  <2>m. /\ \A x \in {"starts", "token", "fetch", "rpc", "send"}, s \in Sessions, n \in Nat :
              /\ [call[c] EXCEPT !.at = x] \in Messages
              /\ [call[c] EXCEPT !.at = x, !.sess = s] \in Messages
              /\ [call[c] EXCEPT !.at = x, !.gen = n] \in Messages
              /\ [call[c] EXCEPT !.at = x, !.sess = s, !.gen = n] \in Messages
        /\ [call[c] EXCEPT !.at = "token", !.again = TRUE] \in Messages
        /\ \A n \in Nat : [Idle EXCEPT !.at = "starts", !.epoch = n] \in Messages
    BY <1>c, <2>1, MessageSteps
  <2>h. /\ host' \in Hosts /\ host'.epoch = host.epoch /\ host'.state = host.state /\ gate' = gate
        /\ \/ host'.out = host.out
           \/ MaySend(c) /\ host'.out = Append(host.out, call[c].sess)
    <3>1. CASE MaySend(c)
      <4>1. host' = [host EXCEPT !.out = Append(host.out, call[c].sess)]
        BY <3>1, <1>6 DEF Senden
      <4>2. Append(host.out, call[c].sess) \in Seq(Sessions)
        BY <2>1 DEF Hosts
      <4> QED
        BY <2>1, <3>1, <4>1, <4>2, <1>6 DEF Senden, Hosts
    <3>2. CASE ~MaySend(c)
      BY <2>1, <3>2, <1>6 DEF Senden
    <3> QED
      BY <3>1, <3>2
  <2>2. call' \in [Calls -> Messages]
    BY <1>6, <1>c, <2>1, <2>m DEF WindowType, Senden, MaySend, KeepUI, loginVars,
       surfaceVars, pageVars
  <2>3. WindowType'
    BY <2>h, <1>6, <1>c, <1>g, <2>1, <2>2 DEF WindowType, Senden, MaySend, KeepUI,
       loginVars, surfaceVars, pageVars
  <2>4. OneLogin' /\ PersonKnown' /\ DocumentIsOwn'
    BY <1>6 DEF Senden, MaySend, KeepUI, loginVars, surfaceVars, pageVars, OneLogin,
       PersonKnown, DocumentIsOwn
  <2>5. SessionIsOwn'
    BY WindowAssumption, <1>6 DEF Senden, MaySend, Idle, KeepUI, loginVars,
       surfaceVars, pageVars, OneLogin, PersonKnown, SessionIsOwn, MessagesAreOwn,
       MessageIsOwn, RepliesAreOwn, DocumentIsOwn, WindowType, Sessions, People, Modes,
       Messages, Results, Owners, Gates, Hosts, Switches
  <2>6. ASSUME NEW d \in Calls PROVE MessageIsOwn(d)'
    <3>1. call[d] \in Messages /\ call[d].gen \in Nat /\ call[d].epoch \in Nat
      BY DEF WindowType, Messages
    <3>2. CASE d # c
      <4>1. call'[d] = call[d] /\ owner' = owner
        BY <1>6, <3>2 DEF WindowType, Senden, MaySend, KeepUI, loginVars,
           surfaceVars, pageVars
      <4> QED
        BY <1>c, <2>1, <2>h, <3>1, <4>1 DEF MessagesAreOwn, MessageIsOwn
    <3>3. CASE d = c
      BY <1>6, <1>c, <1>g, <2>1, <3>1, <3>3 DEF WindowType, SessionIsOwn,
         MessagesAreOwn, MessageIsOwn, Messages, Senden, MaySend, Idle, KeepUI,
         loginVars, surfaceVars, pageVars
    <3> QED
      BY <3>2, <3>3
  <2>7. RepliesAreOwn'
    <3>1. owner' = owner /\ switch' = switch
      BY <1>6 DEF Senden, MaySend, KeepUI, loginVars, surfaceVars, pageVars
    <3>2. CASE host'.out = host.out
      BY <2>h, <3>1, <3>2 DEF RepliesAreOwn
    <3>3. CASE MaySend(c) /\ host'.out = Append(host.out, call[c].sess)
      <4>1. call[c].sess \in {Nobody, owner} /\ host.state = "open"
        BY <1>6, <3>3 DEF Senden, MaySend, MessagesAreOwn, MessageIsOwn
      <4>2. host.out \in Seq(Sessions)
        BY <2>1 DEF Hosts
      <4>3. \A i \in DOMAIN host'.out : host'.out[i] \in {Nobody, owner}
        BY <2>1, <3>3, <4>1, <4>2 DEF RepliesAreOwn
      <4> QED
        BY <2>h, <3>1, <4>1, <4>3 DEF RepliesAreOwn
    <3> QED
      BY <2>h, <3>2, <3>3
  <2> QED
    BY <2>3, <2>4, <2>5, <2>6, <2>7 DEF MessagesAreOwn
<1>7. CASE BrowserReturns
  <2>10. WindowType'
    BY <1>7, <1>c, <1>r DEF BrowserReturns, gatewayVars, surfaceVars, pageVars,
       WindowType
  <2>11. OneLogin'
    BY <1>7, <1>c DEF BrowserReturns, gatewayVars, surfaceVars, pageVars, WindowType,
       OneLogin
  <2>12. PersonKnown'
    BY WindowAssumption, <1>7 DEF BrowserReturns, gatewayVars, surfaceVars, pageVars,
       OneLogin, PersonKnown, SessionIsOwn, MessagesAreOwn, MessageIsOwn, RepliesAreOwn,
       DocumentIsOwn, WindowType, Sessions, People, Modes, Messages, Results, Owners,
       Gates, Hosts, Switches
  <2>13. SessionIsOwn' /\ MessagesAreOwn'
    BY <1>7 DEF BrowserReturns, gatewayVars, surfaceVars, pageVars, WindowType,
       SessionIsOwn, MessagesAreOwn, MessageIsOwn
  <2>14. RepliesAreOwn' /\ DocumentIsOwn'
    BY <1>7 DEF BrowserReturns, gatewayVars, surfaceVars, pageVars, WindowType,
       RepliesAreOwn, DocumentIsOwn
  <2> QED
    BY <2>10, <2>11, <2>12, <2>13, <2>14
<1>8. CASE FlowFails
  <2>10. WindowType'
    BY <1>8, <1>c, <1>r DEF FlowFails, Delivered, gatewayVars, surfaceVars, pageVars,
       WindowType
  <2>11. OneLogin'
    BY <1>8, <1>c DEF FlowFails, Delivered, gatewayVars, surfaceVars, pageVars,
       WindowType, OneLogin
  <2>12. PersonKnown'
    BY WindowAssumption, <1>8 DEF FlowFails, Delivered, gatewayVars, surfaceVars,
       pageVars, OneLogin, PersonKnown, SessionIsOwn, MessagesAreOwn, MessageIsOwn,
       RepliesAreOwn, DocumentIsOwn, WindowType, Sessions, People, Modes, Messages,
       Results, Owners, Gates, Hosts, Switches
  <2>13. SessionIsOwn' /\ MessagesAreOwn'
    BY <1>8 DEF FlowFails, Delivered, gatewayVars, surfaceVars, pageVars, WindowType,
       SessionIsOwn, MessagesAreOwn, MessageIsOwn
  <2>14. RepliesAreOwn' /\ DocumentIsOwn'
    BY <1>8 DEF FlowFails, Delivered, gatewayVars, surfaceVars, pageVars, WindowType,
       RepliesAreOwn, DocumentIsOwn
  <2> QED
    BY <2>10, <2>11, <2>12, <2>13, <2>14
<1>9. ASSUME NEW p \in Persons, Granted(p) PROVE WindowInv'
  <2>10. WindowType'
    BY <1>9, <1>c, <1>r DEF Granted, Delivered, gatewayVars, surfaceVars, pageVars,
       WindowType
  <2>11. OneLogin'
    BY <1>9, <1>c DEF Granted, Delivered, gatewayVars, surfaceVars, pageVars,
       WindowType, OneLogin
  <2>12. PersonKnown'
    BY WindowAssumption, <1>9 DEF Granted, Delivered, gatewayVars, surfaceVars,
       pageVars, OneLogin, PersonKnown, SessionIsOwn, MessagesAreOwn, MessageIsOwn,
       RepliesAreOwn, DocumentIsOwn, WindowType, Sessions, People, Modes, Messages,
       Results, Owners, Gates, Hosts, Switches
  <2>13. SessionIsOwn' /\ MessagesAreOwn'
    BY <1>9 DEF Granted, Delivered, gatewayVars, surfaceVars, pageVars, WindowType,
       SessionIsOwn, MessagesAreOwn, MessageIsOwn
  <2>14. RepliesAreOwn' /\ DocumentIsOwn'
    BY <1>9 DEF Granted, Delivered, gatewayVars, surfaceVars, pageVars, WindowType,
       RepliesAreOwn, DocumentIsOwn
  <2> QED
    BY <2>10, <2>11, <2>12, <2>13, <2>14
<1>10. CASE ClickLogin
  <2>10. WindowType'
    BY <1>10, <1>c, <1>r DEF ClickLogin, Expired, gatewayVars, surfaceVars, pageVars,
       WindowType
  <2>11. OneLogin'
    BY <1>10, <1>c DEF ClickLogin, Expired, gatewayVars, surfaceVars, pageVars,
       WindowType, OneLogin
  <2>12. PersonKnown'
    BY WindowAssumption, <1>10 DEF ClickLogin, NoResult, Expired, gatewayVars,
       surfaceVars, pageVars, OneLogin, PersonKnown, SessionIsOwn, MessagesAreOwn,
       MessageIsOwn, RepliesAreOwn, DocumentIsOwn, WindowType, Sessions, People, Modes,
       Messages, Results, Owners, Gates, Hosts, Switches
  <2>13. SessionIsOwn' /\ MessagesAreOwn'
    BY <1>10 DEF ClickLogin, Expired, gatewayVars, surfaceVars, pageVars, WindowType,
       SessionIsOwn, MessagesAreOwn, MessageIsOwn
  <2>14. RepliesAreOwn' /\ DocumentIsOwn'
    BY <1>10 DEF ClickLogin, Expired, gatewayVars, surfaceVars, pageVars, WindowType,
       RepliesAreOwn, DocumentIsOwn
  <2> QED
    BY <2>10, <2>11, <2>12, <2>13, <2>14
<1>11. CASE TimerFires
  <2>10. WindowType'
    BY <1>11, <1>c, <1>r DEF TimerFires, gatewayVars, loginVars, pageVars, WindowType
  <2>11. OneLogin'
    BY <1>11, <1>c DEF TimerFires, gatewayVars, loginVars, pageVars, WindowType,
       OneLogin
  <2>12. PersonKnown'
    BY WindowAssumption, <1>11 DEF TimerFires, gatewayVars, loginVars, pageVars,
       OneLogin, PersonKnown, SessionIsOwn, MessagesAreOwn, MessageIsOwn, RepliesAreOwn,
       DocumentIsOwn, WindowType, Sessions, People, Modes, Messages, Results, Owners,
       Gates, Hosts, Switches
  <2>13. SessionIsOwn' /\ MessagesAreOwn'
    BY <1>11 DEF TimerFires, gatewayVars, loginVars, pageVars, WindowType,
       SessionIsOwn, MessagesAreOwn, MessageIsOwn
  <2>14. RepliesAreOwn' /\ DocumentIsOwn'
    BY <1>11 DEF TimerFires, gatewayVars, loginVars, pageVars, WindowType,
       RepliesAreOwn, DocumentIsOwn
  <2> QED
    BY <2>10, <2>11, <2>12, <2>13, <2>14
<1>12. CASE PumpOnly
  <2>1. host' \in Hosts /\ host'.out = <<>> /\ host'.epoch = host.epoch /\ host'.state = host.state
    BY <1>12, <1>e DEF PumpOnly, Pumped, Current, StillSigned, Drain, gatewayVars,
       surfaceVars, Expired, Arrived, WindowType, Hosts
  <2>2. gate' \in Gates /\ gate'.gen \in Nat
    BY <1>12, <1>c, <1>g DEF PumpOnly, Pumped, Current, StillSigned, Drain,
       gatewayVars, surfaceVars, Expired, Arrived, WindowType, PersonKnown, Gates
  <2>3. WindowType'
    BY <1>12, <1>c, <2>1, <2>2, <1>g DEF PumpOnly, Pumped, Current, StillSigned,
       Drain, gatewayVars, surfaceVars, Expired, Arrived, WindowType, PersonKnown
  <2>4. OneLogin'
    BY <1>12, <1>c DEF PumpOnly, Pumped, Current, StillSigned, Drain, gatewayVars,
       surfaceVars, Expired, Arrived, WindowType, OneLogin
  <2>5. PersonKnown'
    BY <1>12, <1>c DEF PumpOnly, Pumped, Current, StillSigned, Drain, gatewayVars,
       surfaceVars, Expired, Arrived, WindowType, OneLogin, PersonKnown
  <2>6. SessionIsOwn'
    BY <1>12, <1>c, <1>g, <2>2 DEF PumpOnly, Pumped, Current, StillSigned, Drain,
       gatewayVars, surfaceVars, Expired, Arrived, WindowType, OneLogin, PersonKnown,
       SessionIsOwn
  <2>7. MessagesAreOwn'
    BY <1>12, <1>c, <1>g, <2>1, <2>2 DEF PumpOnly, Pumped, Current, StillSigned,
       Drain, gatewayVars, surfaceVars, Expired, Arrived, WindowType, PersonKnown,
       MessagesAreOwn, MessageIsOwn, Gates, Hosts, Messages
  <2>8. RepliesAreOwn'
    BY <1>12, <1>c, <2>1 DEF PumpOnly, Pumped, Current, StillSigned, Drain,
       gatewayVars, surfaceVars, Expired, Arrived, WindowType, RepliesAreOwn
  <2>9. DocumentIsOwn'
    BY <1>12, <1>c DEF PumpOnly, Pumped, Current, StillSigned, Drain, gatewayVars,
       surfaceVars, Expired, Arrived, WindowType, PersonKnown, RepliesAreOwn,
       DocumentIsOwn
  <2> QED
    BY <2>3, <2>4, <2>5, <2>6, <2>7, <2>8, <2>9
<1>13. CASE PumpError
  <2>1. host' \in Hosts /\ host'.out = <<>> /\ host'.epoch = host.epoch /\ host'.state = host.state
    BY <1>13, <1>e DEF PumpError, Pumped, Current, StillSigned, Drain, gatewayVars,
       surfaceVars, Expired, Arrived, WindowType, Hosts
  <2>2. gate' \in Gates /\ gate'.gen \in Nat
    BY <1>13, <1>c, <1>g DEF PumpError, Pumped, Current, StillSigned, Drain,
       gatewayVars, surfaceVars, Expired, Arrived, WindowType, PersonKnown, Gates
  <2>3. WindowType'
    BY <1>13, <1>c, <2>1, <2>2, <1>g DEF PumpError, Pumped, Current, StillSigned,
       Drain, gatewayVars, surfaceVars, Expired, Arrived, WindowType, PersonKnown
  <2>4. OneLogin'
    BY <1>13, <1>c DEF PumpError, Pumped, Current, StillSigned, Drain, gatewayVars,
       surfaceVars, Expired, Arrived, WindowType, OneLogin
  <2>5. PersonKnown'
    BY <1>13, <1>c DEF PumpError, Pumped, Current, StillSigned, Drain, gatewayVars,
       surfaceVars, Expired, Arrived, WindowType, OneLogin, PersonKnown
  <2>6. SessionIsOwn'
    BY <1>13, <1>c, <1>g, <2>2 DEF PumpError, Pumped, Current, StillSigned, Drain,
       gatewayVars, surfaceVars, Expired, Arrived, WindowType, OneLogin, PersonKnown,
       SessionIsOwn
  <2>7. MessagesAreOwn'
    BY <1>13, <1>c, <1>g, <2>1, <2>2 DEF PumpError, Pumped, Current, StillSigned,
       Drain, gatewayVars, surfaceVars, Expired, Arrived, WindowType, PersonKnown,
       MessagesAreOwn, MessageIsOwn, Gates, Hosts, Messages
  <2>8. RepliesAreOwn'
    BY <1>13, <1>c, <2>1 DEF PumpError, Pumped, Current, StillSigned, Drain,
       gatewayVars, surfaceVars, Expired, Arrived, WindowType, RepliesAreOwn
  <2>9. DocumentIsOwn'
    BY <1>13, <1>c DEF PumpError, Pumped, Current, StillSigned, Drain, gatewayVars,
       surfaceVars, Expired, Arrived, WindowType, PersonKnown, RepliesAreOwn,
       DocumentIsOwn
  <2> QED
    BY <2>3, <2>4, <2>5, <2>6, <2>7, <2>8, <2>9
<1>14. CASE PumpSame
  <2>1. host' \in Hosts /\ host'.out = <<>> /\ host'.epoch = host.epoch /\ host'.state = host.state
    BY <1>14, <1>e DEF PumpSame, Pumped, Current, SamePerson, Drain, surfaceVars,
       StillSigned, Arrived, Expired, WindowType, Hosts
  <2>2. gate' \in Gates /\ gate'.gen \in Nat
    BY <1>14, <1>c, <1>g DEF PumpSame, Pumped, Current, SamePerson, Drain,
       surfaceVars, StillSigned, Arrived, Expired, WindowType, PersonKnown, Gates
  <2>3. WindowType'
    BY <1>14, <1>c, <2>1, <2>2, <1>g DEF PumpSame, Pumped, Current, SamePerson,
       Drain, surfaceVars, StillSigned, Arrived, Expired, WindowType, PersonKnown
  <2>4. OneLogin'
    BY <1>14, <1>c DEF PumpSame, Pumped, Current, SamePerson, Drain, surfaceVars,
       StillSigned, Arrived, Expired, WindowType, OneLogin
  <2>5. PersonKnown'
    BY <1>14, <1>c DEF PumpSame, Pumped, Current, SamePerson, Drain, surfaceVars,
       StillSigned, Arrived, Expired, WindowType, OneLogin, PersonKnown
  <2>6. SessionIsOwn'
    BY <1>14, <1>c, <1>g, <2>2 DEF PumpSame, Pumped, Current, SamePerson, Drain,
       surfaceVars, StillSigned, Arrived, Expired, WindowType, OneLogin, PersonKnown,
       SessionIsOwn
  <2>7. MessagesAreOwn'
    BY <1>14, <1>c, <1>g, <2>1, <2>2 DEF PumpSame, Pumped, Current, SamePerson,
       Drain, surfaceVars, StillSigned, Arrived, Expired, WindowType, PersonKnown,
       MessagesAreOwn, MessageIsOwn, Gates, Hosts, Messages
  <2>8. RepliesAreOwn'
    BY <1>14, <1>c, <2>1 DEF PumpSame, Pumped, Current, SamePerson, Drain,
       surfaceVars, StillSigned, Arrived, Expired, WindowType, RepliesAreOwn
  <2>9. DocumentIsOwn'
    BY <1>14, <1>c DEF PumpSame, Pumped, Current, SamePerson, Drain, surfaceVars,
       StillSigned, Arrived, Expired, WindowType, PersonKnown, RepliesAreOwn,
       DocumentIsOwn
  <2> QED
    BY <2>3, <2>4, <2>5, <2>6, <2>7, <2>8, <2>9
<1>15. CASE PumpOther
  <2>1. loginClosed = FALSE /\ SwitchPerson(result.person, loginGen)
    BY <1>15 DEF PumpOther, Pumped, Current, SamePerson, pageVars, StillSigned,
       Expired, WindowType
  <2>2. result.person \in People /\ loginGen \in Nat
    BY <1>c DEF WindowType, Results
  <2>3. Changing(result.person, loginGen)
    BY <2>1, <2>2, Quieting
  <2>4. WindowType'
    BY <1>15, <1>c, <2>2, <2>3 DEF PumpOther, Pumped, Current, SamePerson, pageVars,
       StillSigned, Expired, WindowType, Changing
  <2>5. OneLogin'
    BY <1>15, <1>c, <2>3 DEF PumpOther, Pumped, Current, SamePerson, pageVars,
       StillSigned, Expired, WindowType, OneLogin, Changing
  <2>6. PersonKnown'
    BY WindowAssumption, <1>15 DEF PumpOther, Pumped, Current, SamePerson,
       SwitchPerson, pageVars, NoResult, StillSigned, Forgotten, HostSuspended,
       NoSwitch, FailLogin, Expired, LoginCloses, HostFailed, OneLogin, PersonKnown,
       SessionIsOwn, MessagesAreOwn, MessageIsOwn, RepliesAreOwn, DocumentIsOwn,
       WindowType, Sessions, People, Modes, Messages, Results, Owners, Gates, Hosts,
       Switches
  <2>7. SessionIsOwn' /\ RepliesAreOwn'
    BY <1>15, <1>c, <2>3 DEF PumpOther, Pumped, Current, SamePerson, pageVars,
       StillSigned, Expired, Changing, SessionIsOwn, RepliesAreOwn
  <2>8. MessagesAreOwn'
    BY <1>15, <1>g, <2>3 DEF PumpOther, Pumped, Current, SamePerson, pageVars,
       StillSigned, Expired, Changing, WindowType, MessagesAreOwn, MessageIsOwn,
       Messages, Gates, Hosts
  <2>9. DocumentIsOwn'
    BY WindowAssumption, <1>15 DEF PumpOther, Pumped, Current, SamePerson,
       SwitchPerson, pageVars, NoResult, StillSigned, Forgotten, HostSuspended,
       NoSwitch, FailLogin, Expired, LoginCloses, HostFailed, OneLogin, PersonKnown,
       SessionIsOwn, MessagesAreOwn, MessageIsOwn, RepliesAreOwn, DocumentIsOwn,
       WindowType, Sessions, People, Modes, Messages, Results, Owners, Gates, Hosts,
       Switches
  <2> QED
    BY <2>4, <2>5, <2>6, <2>7, <2>8, <2>9
<1>16. CASE SignOut
  <2>1. loginClosed = FALSE /\ SwitchPerson(Nobody, loginGen + 1)
    BY <1>16 DEF SignOut, pageVars, WindowType
  <2>2. Nobody \in People /\ loginGen + 1 \in Nat
    BY <1>c DEF WindowType, Results
  <2>3. Changing(Nobody, loginGen + 1)
    BY <2>1, <2>2, Quieting
  <2>4. WindowType'
    BY <1>16, <1>c, <2>2, <2>3 DEF SignOut, pageVars, WindowType, Changing
  <2>5. OneLogin'
    BY <1>16, <1>c, <2>3 DEF SignOut, pageVars, WindowType, OneLogin, Changing
  <2>6. PersonKnown'
    BY WindowAssumption, <1>16 DEF SignOut, NoResult, SwitchPerson, pageVars,
       Forgotten, HostSuspended, NoSwitch, FailLogin, LoginCloses, HostFailed, OneLogin,
       PersonKnown, SessionIsOwn, MessagesAreOwn, MessageIsOwn, RepliesAreOwn,
       DocumentIsOwn, WindowType, Sessions, People, Modes, Messages, Results, Owners,
       Gates, Hosts, Switches
  <2>7. SessionIsOwn' /\ RepliesAreOwn'
    BY <1>16, <1>c, <2>3 DEF SignOut, pageVars, Changing, SessionIsOwn, RepliesAreOwn
  <2>8. MessagesAreOwn'
    BY <1>16, <1>g, <2>3 DEF SignOut, pageVars, Changing, WindowType, MessagesAreOwn,
       MessageIsOwn, Messages, Gates, Hosts
  <2>9. DocumentIsOwn'
    BY WindowAssumption, <1>16 DEF SignOut, NoResult, SwitchPerson, pageVars,
       Forgotten, HostSuspended, NoSwitch, FailLogin, LoginCloses, HostFailed, OneLogin,
       PersonKnown, SessionIsOwn, MessagesAreOwn, MessageIsOwn, RepliesAreOwn,
       DocumentIsOwn, WindowType, Sessions, People, Modes, Messages, Results, Owners,
       Gates, Hosts, Switches
  <2> QED
    BY <2>4, <2>5, <2>6, <2>7, <2>8, <2>9
<1>17. CASE BlankDone
  <2>1. /\ gate' \in {gate, Forgotten(gate)}
        /\ \/ gate' = gate /\ loginClosed' = loginClosed
           \/ gate' = Forgotten(gate) /\ loginClosed' = TRUE
           \/ gate' = gate /\ loginClosed = TRUE /\ loginClosed' = TRUE
    BY <1>17 DEF BlankDone, Current, SwitchFails, FailLogin, LoginCloses, WindowType
  <2>2. host' \in {host, HostFailed(host)}
    BY <1>17 DEF BlankDone, Current, SwitchFails, FailLogin, LoginCloses
  <2>3. /\ gate' \in Gates /\ gate'.gen \in Nat /\ gate.gen \in Nat /\ gate'.gen >= gate.gen
        /\ gate'.gen = gate.gen => gate' = gate
        /\ gate'.session \in {gate.session, Nobody}
    BY <2>1, <1>g DEF Gates, WindowType
  <2>4. /\ host' \in Hosts /\ host'.epoch = host.epoch
        /\ \/ host' = host
           \/ host'.state = "closed" /\ host'.out = <<>>
    BY <2>2, <1>h DEF WindowType
  <2>s. switch' \in Switches
    BY <1>17, <1>c DEF BlankDone, Current, SwitchFails, FailLogin, LoginCloses,
       WindowType, Switches
  <2>l. loginGen' \in Nat /\ doc' \in {"none", "app", "blank"}
    BY <1>17 DEF BlankDone, Current, SwitchFails, FailLogin, LoginCloses, WindowType
  <2>b. loginClosed' \in BOOLEAN /\ busy' \in BOOLEAN
    BY <1>17 DEF BlankDone, Current, SwitchFails, FailLogin, LoginCloses, WindowType
  <2>u. UNCHANGED <<call, signed, result, flow, lastPerson, owner>>
    BY <1>17 DEF BlankDone, Current, SwitchFails, FailLogin, LoginCloses
  <2>5. WindowType'
    BY <2>3, <2>4, <2>s, <2>l, <2>b, <2>u DEF WindowType
  <2>6. OneLogin'
    BY WindowAssumption, <1>17 DEF BlankDone, Current, NoSwitch, SwitchFails,
       FailLogin, LoginCloses, HostFailed, Forgotten, OneLogin, PersonKnown,
       SessionIsOwn, MessagesAreOwn, MessageIsOwn, RepliesAreOwn, DocumentIsOwn,
       WindowType, Sessions, People, Modes, Messages, Results, Owners, Gates, Hosts,
       Switches
  <2>11. PersonKnown'
    BY WindowAssumption, <1>17 DEF BlankDone, Current, NoSwitch, SwitchFails,
       FailLogin, LoginCloses, HostFailed, Forgotten, OneLogin, PersonKnown,
       SessionIsOwn, MessagesAreOwn, MessageIsOwn, RepliesAreOwn, DocumentIsOwn,
       WindowType, Sessions, People, Modes, Messages, Results, Owners, Gates, Hosts,
       Switches
  <2>7. SessionIsOwn'
    BY <1>17, <1>c, <1>g, <2>1 DEF BlankDone, Current, SwitchFails, FailLogin,
       LoginCloses, WindowType, SessionIsOwn
  <2>8. MessagesAreOwn'
    BY <1>17, <2>1, <2>3, <2>4, <1>g DEF BlankDone, Current, SwitchFails, FailLogin,
       LoginCloses, WindowType, MessagesAreOwn, MessageIsOwn, Messages
  <2>9. RepliesAreOwn'
    BY <1>17, <2>4, <1>c DEF BlankDone, Current, SwitchFails, FailLogin, LoginCloses,
       WindowType, RepliesAreOwn
  <2>10. DocumentIsOwn'
    BY <1>17, <1>c DEF BlankDone, Current, SwitchFails, FailLogin, LoginCloses,
       WindowType, DocumentIsOwn
  <2> QED
    BY <2>5, <2>6, <2>7, <2>8, <2>9, <2>10, <2>11
<1>18. CASE TimeoutArrives
  <2>1. /\ gate' \in {gate, Forgotten(gate)}
        /\ \/ gate' = gate /\ loginClosed' = loginClosed
           \/ gate' = Forgotten(gate) /\ loginClosed' = TRUE
           \/ gate' = gate /\ loginClosed = TRUE /\ loginClosed' = TRUE
    BY <1>18 DEF TimeoutArrives, TimesOut, FailLogin, pageVars, LoginCloses,
       WindowType
  <2>2. host' \in {host, HostFailed(host)}
    BY <1>18 DEF TimeoutArrives, TimesOut, FailLogin, pageVars, LoginCloses
  <2>3. /\ gate' \in Gates /\ gate'.gen \in Nat /\ gate.gen \in Nat /\ gate'.gen >= gate.gen
        /\ gate'.gen = gate.gen => gate' = gate
        /\ gate'.session \in {gate.session, Nobody}
    BY <2>1, <1>g DEF Gates, WindowType
  <2>4. /\ host' \in Hosts /\ host'.epoch = host.epoch
        /\ \/ host' = host
           \/ host'.state = "closed" /\ host'.out = <<>>
    BY <2>2, <1>h DEF WindowType
  <2>s. switch' \in Switches
    BY <1>18, <1>c DEF TimeoutArrives, TimesOut, FailLogin, pageVars, LoginCloses,
       WindowType, Switches
  <2>l. loginGen' \in Nat /\ doc' \in {"none", "app", "blank"}
    BY <1>18 DEF TimeoutArrives, TimesOut, FailLogin, pageVars, LoginCloses,
       WindowType
  <2>b. loginClosed' \in BOOLEAN /\ busy' \in BOOLEAN
    BY <1>18 DEF TimeoutArrives, TimesOut, FailLogin, pageVars, LoginCloses,
       WindowType
  <2>u. UNCHANGED <<call, signed, result, flow, lastPerson, owner>>
    BY <1>18 DEF TimeoutArrives, TimesOut, FailLogin, pageVars, LoginCloses
  <2>5. WindowType'
    BY <2>3, <2>4, <2>s, <2>l, <2>b, <2>u DEF WindowType
  <2>6. OneLogin'
    BY WindowAssumption, <1>18 DEF TimeoutArrives, TimesOut, FailLogin, pageVars,
       LoginCloses, HostFailed, Forgotten, OneLogin, PersonKnown, SessionIsOwn,
       MessagesAreOwn, MessageIsOwn, RepliesAreOwn, DocumentIsOwn, WindowType, Sessions,
       People, Modes, Messages, Results, Owners, Gates, Hosts, Switches
  <2>11. PersonKnown'
    BY WindowAssumption, <1>18 DEF TimeoutArrives, TimesOut, FailLogin, pageVars,
       LoginCloses, HostFailed, Forgotten, OneLogin, PersonKnown, SessionIsOwn,
       MessagesAreOwn, MessageIsOwn, RepliesAreOwn, DocumentIsOwn, WindowType, Sessions,
       People, Modes, Messages, Results, Owners, Gates, Hosts, Switches
  <2>7. SessionIsOwn'
    BY <1>18, <1>c, <1>g, <2>1 DEF TimeoutArrives, TimesOut, FailLogin, pageVars,
       LoginCloses, WindowType, SessionIsOwn
  <2>8. MessagesAreOwn'
    BY <1>18, <2>1, <2>3, <2>4, <1>g DEF TimeoutArrives, TimesOut, FailLogin,
       pageVars, LoginCloses, WindowType, MessagesAreOwn, MessageIsOwn, Messages
  <2>9. RepliesAreOwn'
    BY <1>18, <2>4, <1>c DEF TimeoutArrives, TimesOut, FailLogin, pageVars,
       LoginCloses, WindowType, RepliesAreOwn
  <2>10. DocumentIsOwn'
    BY <1>18, <1>c DEF TimeoutArrives, TimesOut, FailLogin, pageVars, LoginCloses,
       WindowType, DocumentIsOwn
  <2> QED
    BY <2>5, <2>6, <2>7, <2>8, <2>9, <2>10, <2>11
<1>19. CASE Destroyed
  <2>1. /\ gate' \in {gate, Forgotten(gate)}
        /\ \/ gate' = gate /\ loginClosed' = loginClosed
           \/ gate' = Forgotten(gate) /\ loginClosed' = TRUE
           \/ gate' = gate /\ loginClosed = TRUE /\ loginClosed' = TRUE
    BY <1>19 DEF Destroyed, LoginCloses, pageVars, WindowType
  <2>2. host' \in {host, HostFailed(host)}
    BY <1>19 DEF Destroyed, LoginCloses, pageVars
  <2>3. /\ gate' \in Gates /\ gate'.gen \in Nat /\ gate.gen \in Nat /\ gate'.gen >= gate.gen
        /\ gate'.gen = gate.gen => gate' = gate
        /\ gate'.session \in {gate.session, Nobody}
    BY <2>1, <1>g DEF Gates, WindowType
  <2>4. /\ host' \in Hosts /\ host'.epoch = host.epoch
        /\ \/ host' = host
           \/ host'.state = "closed" /\ host'.out = <<>>
    BY <2>2, <1>h DEF WindowType
  <2>s. switch' \in Switches
    BY <1>19, <1>c DEF Destroyed, LoginCloses, pageVars, WindowType, Switches
  <2>l. loginGen' \in Nat /\ doc' \in {"none", "app", "blank"}
    BY <1>19 DEF Destroyed, LoginCloses, pageVars, WindowType
  <2>b. loginClosed' \in BOOLEAN /\ busy' \in BOOLEAN
    BY <1>19 DEF Destroyed, LoginCloses, pageVars, WindowType
  <2>u. UNCHANGED <<call, signed, result, flow, lastPerson, owner>>
    BY <1>19 DEF Destroyed, LoginCloses, pageVars
  <2>5. WindowType'
    BY <2>3, <2>4, <2>s, <2>l, <2>b, <2>u DEF WindowType
  <2>6. OneLogin'
    BY WindowAssumption, <1>19 DEF Destroyed, NoSwitch, LoginCloses, HostFailed,
       pageVars, Forgotten, OneLogin, PersonKnown, SessionIsOwn, MessagesAreOwn,
       MessageIsOwn, RepliesAreOwn, DocumentIsOwn, WindowType, Sessions, People, Modes,
       Messages, Results, Owners, Gates, Hosts, Switches
  <2>11. PersonKnown'
    BY WindowAssumption, <1>19 DEF Destroyed, NoSwitch, LoginCloses, HostFailed,
       pageVars, Forgotten, OneLogin, PersonKnown, SessionIsOwn, MessagesAreOwn,
       MessageIsOwn, RepliesAreOwn, DocumentIsOwn, WindowType, Sessions, People, Modes,
       Messages, Results, Owners, Gates, Hosts, Switches
  <2>7. SessionIsOwn'
    BY <1>19, <1>c, <1>g, <2>1 DEF Destroyed, LoginCloses, pageVars, WindowType,
       SessionIsOwn
  <2>8. MessagesAreOwn'
    BY <1>19, <2>1, <2>3, <2>4, <1>g DEF Destroyed, LoginCloses, pageVars,
       WindowType, MessagesAreOwn, MessageIsOwn, Messages
  <2>9. RepliesAreOwn'
    BY <1>19, <2>4, <1>c DEF Destroyed, LoginCloses, pageVars, WindowType,
       RepliesAreOwn
  <2>10. DocumentIsOwn'
    BY <1>19, <1>c DEF Destroyed, LoginCloses, pageVars, WindowType, DocumentIsOwn
  <2> QED
    BY <2>5, <2>6, <2>7, <2>8, <2>9, <2>10, <2>11
<1>20. CASE CloseIsAsked
  <2>1. /\ gate' \in {gate, Forgotten(gate)}
        /\ \/ gate' = gate /\ loginClosed' = loginClosed
           \/ gate' = Forgotten(gate) /\ loginClosed' = TRUE
           \/ gate' = gate /\ loginClosed = TRUE /\ loginClosed' = TRUE
    BY <1>20 DEF CloseIsAsked, gatewayVars, loginVars, pageVars, WindowType
  <2>2. host' \in {host, HostFailed(host)}
    BY <1>20 DEF CloseIsAsked, gatewayVars, loginVars, pageVars
  <2>3. /\ gate' \in Gates /\ gate'.gen \in Nat /\ gate.gen \in Nat /\ gate'.gen >= gate.gen
        /\ gate'.gen = gate.gen => gate' = gate
        /\ gate'.session \in {gate.session, Nobody}
    BY <2>1, <1>g DEF Gates, WindowType
  <2>4. /\ host' \in Hosts /\ host'.epoch = host.epoch
        /\ \/ host' = host
           \/ host'.state = "closed" /\ host'.out = <<>>
    BY <2>2, <1>h DEF WindowType
  <2>s. switch' \in Switches
    BY <1>20, <1>c DEF CloseIsAsked, gatewayVars, loginVars, pageVars, WindowType,
       Switches
  <2>l. loginGen' \in Nat /\ doc' \in {"none", "app", "blank"}
    BY <1>20 DEF CloseIsAsked, gatewayVars, loginVars, pageVars, WindowType
  <2>b. loginClosed' \in BOOLEAN /\ busy' \in BOOLEAN
    BY <1>20 DEF CloseIsAsked, gatewayVars, loginVars, pageVars, WindowType
  <2>u. UNCHANGED <<call, signed, result, flow, lastPerson, owner>>
    BY <1>20 DEF CloseIsAsked, gatewayVars, loginVars, pageVars
  <2>5. WindowType'
    BY <2>3, <2>4, <2>s, <2>l, <2>b, <2>u DEF WindowType
  <2>6. OneLogin'
    BY WindowAssumption, <1>20 DEF CloseIsAsked, HostFailed, gatewayVars, loginVars,
       pageVars, OneLogin, PersonKnown, SessionIsOwn, MessagesAreOwn, MessageIsOwn,
       RepliesAreOwn, DocumentIsOwn, WindowType, Sessions, People, Modes, Messages,
       Results, Owners, Gates, Hosts, Switches
  <2>11. PersonKnown'
    BY WindowAssumption, <1>20 DEF CloseIsAsked, HostFailed, gatewayVars, loginVars,
       pageVars, OneLogin, PersonKnown, SessionIsOwn, MessagesAreOwn, MessageIsOwn,
       RepliesAreOwn, DocumentIsOwn, WindowType, Sessions, People, Modes, Messages,
       Results, Owners, Gates, Hosts, Switches
  <2>7. SessionIsOwn'
    BY <1>20, <1>c, <1>g, <2>1 DEF CloseIsAsked, gatewayVars, loginVars, pageVars,
       WindowType, SessionIsOwn
  <2>8. MessagesAreOwn'
    BY <1>20, <2>1, <2>3, <2>4, <1>g DEF CloseIsAsked, gatewayVars, loginVars,
       pageVars, WindowType, MessagesAreOwn, MessageIsOwn, Messages
  <2>9. RepliesAreOwn'
    BY <1>20, <2>4, <1>c DEF CloseIsAsked, gatewayVars, loginVars, pageVars,
       WindowType, RepliesAreOwn
  <2>10. DocumentIsOwn'
    BY <1>20, <1>c DEF CloseIsAsked, gatewayVars, loginVars, pageVars, WindowType,
       DocumentIsOwn
  <2> QED
    BY <2>5, <2>6, <2>7, <2>8, <2>9, <2>10, <2>11
<1>21. CASE Cleared
  <2>1. host.state # "open" /\ host.out = <<>> /\ seen = {} /\ doc = "blank" /\ gate.mode = "blocked"
        /\ gate.session = Nobody
    BY <1>21 DEF Cleared, Current, RepliesAreOwn, DocumentIsOwn, SessionIsOwn
  <2>2. CASE kept' = {} /\ Current(switch.gen) /\ SwitchEnds
    <3>n. /\ NewGate \in Gates /\ NewGate.gen \in Nat /\ NewGate.mode # "device"
          /\ NewGate.gen > gate.gen \/ NewGate = gate
          /\ NewGate.session # Nobody => NewGate.mode # "blocked" /\ NewGate.session = switch.person
      BY <1>c, <1>g, <2>1 DEF WindowType, Gates, Switches, NewGate
    <3>f. /\ Forgotten(NewGate) \in Gates /\ Forgotten(NewGate).gen = NewGate.gen + 1
          /\ Forgotten(NewGate).session = Nobody /\ Forgotten(NewGate).mode = "blocked"
          /\ Forgotten(Forgotten(NewGate)) \in Gates
          /\ Forgotten(Forgotten(NewGate)).gen = NewGate.gen + 1 + 1
          /\ Forgotten(Forgotten(NewGate)).session = Nobody
          /\ Forgotten(Forgotten(NewGate)).mode = "blocked"
      BY <3>n, Gateways
    <3>g. /\ owner' = switch.person
          /\ \/ gate' = NewGate /\ loginClosed' = loginClosed /\ loginClosed = FALSE
             \/ gate' = Forgotten(Forgotten(NewGate)) /\ loginClosed' = TRUE
      BY <2>2 DEF WindowType, Current, SwitchEnds, FailLogin, LoginCloses
    <3>1. /\ gate' \in Gates /\ gate'.gen \in Nat /\ gate.gen \in Nat
          /\ gate'.gen > gate.gen \/ gate' = gate
          /\ gate'.mode # "device"
          /\ gate'.session # Nobody => gate'.mode # "blocked" /\ gate'.session = owner'
          /\ loginClosed' = TRUE => gate'.mode = "blocked"
      BY <1>g, <3>n, <3>f, <3>g DEF Gates
    <3>h. host' \in {HostResumed(host), HostFailed(HostResumed(host))}
      BY <2>2 DEF SwitchEnds, FailLogin
    <3>i. /\ host \in Hosts /\ HostResumed(host) \in Hosts /\ HostResumed(host).epoch = host.epoch
          /\ HostResumed(host).out = <<>> /\ HostResumed(host).state # "suspended"
          /\ host.state = "closed" => HostResumed(host).state = "closed"
          /\ HostFailed(HostResumed(host)) \in Hosts
          /\ HostFailed(HostResumed(host)).epoch = host.epoch
          /\ HostFailed(HostResumed(host)).out = <<>>
          /\ HostFailed(HostResumed(host)).state = "closed"
      BY <2>1, HostStates DEF WindowType
    <3>2. /\ host' \in Hosts /\ host'.epoch = host.epoch /\ host'.out = <<>>
          /\ host'.state # "suspended"
          /\ host'.state = "open" => host.state = "suspended"
      <4>1. CASE host' = HostResumed(host)
        BY <2>1, <3>i, <4>1 DEF Hosts
      <4>2. CASE host' = HostFailed(HostResumed(host))
        BY <3>i, <4>2
      <4> QED
        BY <3>h, <4>1, <4>2
    <3>l. loginGen' \in Nat
      BY <2>2 DEF WindowType, SwitchEnds, FailLogin, LoginCloses
    <3>b. loginClosed' \in BOOLEAN /\ signed' \in BOOLEAN /\ busy' \in BOOLEAN
      BY <2>2 DEF WindowType, SwitchEnds, FailLogin, LoginCloses
    <3>s. switch' \in Switches /\ doc' \in {"none", "app", "blank"} /\ owner' \in Sessions
      BY <1>21, <1>c, <2>2 DEF WindowType, Switches, Cleared, Current, SwitchEnds,
         NewGate, FailLogin, LoginCloses
    <3>u. UNCHANGED <<call, result, flow, lastPerson>>
      BY <1>21 DEF Cleared, Current
    <3>3. WindowType'
      BY <3>1, <3>2, <3>l, <3>b, <3>s, <3>u DEF WindowType
    <3>4. OneLogin' /\ PersonKnown'
      BY <1>21, <1>c, <2>2 DEF WindowType, OneLogin, PersonKnown, Current, Switches,
         Cleared, Current, SwitchEnds, NewGate, FailLogin, LoginCloses
    <3>5. SessionIsOwn'
      BY <1>21, <1>c, <2>2, <3>1 DEF SessionIsOwn, Cleared, Current
    <3>6. MessagesAreOwn'
      BY <1>21, <2>1, <2>2, <3>1, <3>2 DEF WindowType, MessagesAreOwn, MessageIsOwn,
         Messages, Hosts, Cleared, Current
    <3>7. RepliesAreOwn'
      BY <1>21, <1>c, <3>2 DEF RepliesAreOwn, Cleared, Current
    <3>8. DocumentIsOwn'
      BY <1>21, <1>c, <2>1, <2>2 DEF DocumentIsOwn, Cleared, Current, SwitchEnds,
         NewGate, FailLogin, LoginCloses
    <3> QED
      BY <3>3, <3>4, <3>5, <3>6, <3>7, <3>8
  <2>3. CASE ~(kept' = {} /\ Current(switch.gen) /\ SwitchEnds)
    <3>1. /\ gate' \in {gate, Forgotten(gate)}
          /\ \/ gate' = gate /\ loginClosed' = loginClosed
             \/ gate' = Forgotten(gate) /\ loginClosed' = TRUE
      BY <1>21, <2>3 DEF WindowType, Cleared, Current, SwitchFails, FailLogin,
         LoginCloses, Current
    <3>2. host' \in {host, HostFailed(host)}
      BY <1>21, <2>3 DEF Cleared, Current, SwitchFails, FailLogin, LoginCloses,
         Current
    <3>3. /\ gate' \in Gates /\ gate'.gen \in Nat /\ gate.gen \in Nat /\ gate'.gen >= gate.gen
          /\ gate'.gen = gate.gen => gate' = gate
          /\ gate'.session = Nobody /\ gate'.mode = "blocked"
      BY <3>1, <1>g, <2>1 DEF Gates, WindowType
    <3>4. /\ host' \in Hosts /\ host'.epoch = host.epoch /\ host'.out = <<>>
          /\ host'.state \in {host.state, "closed"}
      BY <3>2, <1>h, <2>1 DEF WindowType
    <3>l. loginGen' \in Nat /\ signed' = signed /\ doc' = doc /\ owner' = owner
      BY <2>3, <1>21 DEF WindowType, Cleared, Current, SwitchFails, FailLogin,
         LoginCloses, Current
    <3>b. loginClosed' \in BOOLEAN /\ busy' \in BOOLEAN
      BY <2>3, <1>21 DEF WindowType, Cleared, Current, SwitchFails, FailLogin,
         LoginCloses, Current
    <3>u. UNCHANGED <<call, result, flow, lastPerson>> /\ switch' = NoSwitch
      BY <1>21 DEF Cleared, Current
    <3>5. WindowType'
      BY <1>c, <3>3, <3>4, <3>l, <3>b, <3>u DEF WindowType
    <3>6. OneLogin' /\ PersonKnown'
      BY <1>21, <2>3, <1>c DEF WindowType, OneLogin, PersonKnown, Cleared, Current,
         SwitchFails, FailLogin, LoginCloses, Current
    <3>7. SessionIsOwn'
      BY <1>21, <2>3, <1>c, <3>3, <2>1 DEF WindowType, SessionIsOwn, Cleared,
         Current, SwitchFails, FailLogin, LoginCloses, Current
    <3>8. MessagesAreOwn'
      BY <1>21, <2>3, <2>1, <3>3, <3>4 DEF WindowType, MessagesAreOwn, MessageIsOwn,
         Messages, Hosts, Cleared, Current, SwitchFails, FailLogin, LoginCloses, Current
    <3>9. RepliesAreOwn' /\ DocumentIsOwn'
      BY <1>21, <2>3, <1>c, <2>1, <3>4 DEF WindowType, RepliesAreOwn, DocumentIsOwn,
         Cleared, Current, SwitchFails, FailLogin, LoginCloses, Current
    <3> QED
      BY <3>5, <3>6, <3>7, <3>8, <3>9
  <2> QED
    BY <2>2, <2>3
<1>22. CASE Opens
  <2>1. WindowType' /\ OneLogin' /\ PersonKnown'
    BY <1>22 DEF Opens, gatewayVars, loginVars, WindowType, OneLogin, PersonKnown
  <2>2. SessionIsOwn' /\ MessagesAreOwn' /\ RepliesAreOwn'
    BY <1>22 DEF Opens, gatewayVars, loginVars, SessionIsOwn, MessagesAreOwn,
       MessageIsOwn, RepliesAreOwn
  <2>3. DocumentIsOwn'
    BY <1>22 DEF Opens, gatewayVars, loginVars, DocumentIsOwn
  <2> QED
    BY <2>1, <2>2, <2>3
<1>23. CASE PageStores
  <2>1. WindowType' /\ OneLogin' /\ PersonKnown'
    BY <1>23 DEF PageStores, gatewayVars, loginVars, surfaceVars, WindowType,
       OneLogin, PersonKnown
  <2>2. SessionIsOwn' /\ MessagesAreOwn' /\ RepliesAreOwn'
    BY <1>23 DEF PageStores, gatewayVars, loginVars, surfaceVars, SessionIsOwn,
       MessagesAreOwn, MessageIsOwn, RepliesAreOwn
  <2>3. DocumentIsOwn'
    BY <1>23 DEF PageStores, gatewayVars, loginVars, surfaceVars, DocumentIsOwn
  <2> QED
    BY <2>1, <2>2, <2>3
<1> QED
  BY <1>1, <1>2, <1>3, <1>4, <1>5, <1>6, <1>7, <1>8, <1>9, <1>10, <1>11, <1>12,
     <1>13, <1>14, <1>15, <1>16, <1>17, <1>18, <1>19, <1>20, <1>21, <1>22, <1>23 DEF
     WindowNext, CallSteps, FlowEnds, SurfaceSteps, SurfacePumps
-----------------------------------------------------------------------------
LEMMA WindowStarts == ASSUME WindowAssumption, WindowInit PROVE WindowInv
<1>1. WindowType
  <2>1. <<>> \in Seq(Sessions)
    OBVIOUS
  <2>2. gate \in Gates /\ host \in Hosts
    BY <2>1, WindowConstants DEF WindowInit, Gates, Hosts, Modes
  <2> QED
    BY <2>2, WindowConstants DEF WindowInit, WindowType, People
<1>2. OneLogin /\ PersonKnown
  BY DEF WindowInit, OneLogin, PersonKnown, NoResult, NoSwitch
<1>3. SessionIsOwn /\ RepliesAreOwn /\ DocumentIsOwn
  BY WindowConstants DEF WindowInit, SessionIsOwn, RepliesAreOwn, DocumentIsOwn
<1>4. MessagesAreOwn
  BY WindowConstants DEF WindowInit, MessagesAreOwn, MessageIsOwn
<1> QED
  BY <1>1, <1>2, <1>3, <1>4 DEF WindowInv

LEMMA WindowStutters == ASSUME WindowInv, UNCHANGED windowVars PROVE WindowInv'
<1> USE DEF WindowInv, windowVars, gatewayVars, loginVars, surfaceVars, pageVars
<1>1. WindowType' /\ OneLogin' /\ PersonKnown'
  BY DEF WindowType, OneLogin, PersonKnown
<1>2. SessionIsOwn' /\ MessagesAreOwn' /\ RepliesAreOwn' /\ DocumentIsOwn'
  BY DEF SessionIsOwn, MessagesAreOwn, MessageIsOwn, RepliesAreOwn, DocumentIsOwn
<1> QED
  BY <1>1, <1>2

(* Across every change of person and every sign-out, whatever is late, the document, the       *)
(* profile and the replies that wait hold data of nobody but the person the document was       *)
(* loaded for, and a closed login holds no session: for any persons, messages, slots and       *)
(* queues, as long as the core does not grant a session whose answer is lost.              *)
THEOREM PageIsKept ==
    ASSUME ~LostGrants PROVE WindowSpec => []PageKeepsPerson
<1>1. WindowInit => WindowInv
  BY WindowAssumption, WindowStarts
<1>2. WindowInv /\ [WindowNext]_windowVars => WindowInv'
  BY WindowAssumption, WindowSteps, WindowStutters
<1>3. WindowInv => PageKeepsPerson
  <2>1. ASSUME WindowInv PROVE PageIsOwn
    <3>1. Arrived \subseteq {owner}
      BY <2>1 DEF WindowInv, RepliesAreOwn, Arrived
    <3> QED
      BY <2>1, <3>1 DEF WindowInv, DocumentIsOwn, PageIsOwn
  <2>2. ASSUME WindowInv PROVE NoSessionAfterClose
    BY <2>2 DEF WindowInv, WindowType, SessionIsOwn, NoSessionAfterClose
  <2> QED
    BY <2>1, <2>2 DEF PageKeepsPerson
<1> QED
  BY <1>1, <1>2, <1>3, PTL DEF WindowSpec

-----------------------------------------------------------------------------
(* Exchange: a page that is told of its halt is told the truth.            *)

(* Nobody says "angehalten" to a page that was not true since its call began: not the runner, *)
(* not a frame on its way, not the frame the page has got.                              *)
HaltsKnown ==
    /\ runner = "angehalten" => wasHalted = TRUE
    /\ OnTheWay("angehalten") => wasHalted = TRUE
    /\ halting = "waits" /\ heard = "angehalten" => wasHalted = TRUE
    /\ pageTold = "halted" => wasHalted = TRUE
PanelCommands == {"status", "anhalten", "fortsetzen", "pause"}
ExchangeInv ==
    /\ toEngine \in Seq(PanelCommands) /\ toUI \in Seq(Frames) /\ runner \in Shown /\ wasHalted \in BOOLEAN
    /\ HaltsKnown

LEMMA FramesArrive ==
    ASSUME NEW s \in Seq(Frames), NEW f \in Frames
    PROVE  /\ Append(s, f) \in Seq(Frames)
           /\ \A i \in DOMAIN Append(s, f) : Append(s, f)[i] = f \/ \E j \in DOMAIN s : s[j] = Append(s, f)[i]
           /\ s # <<>> => /\ Tail(s) \in Seq(Frames) /\ 1 \in DOMAIN s /\ Head(s) = s[1]
                          /\ \A i \in DOMAIN Tail(s) : i + 1 \in DOMAIN s /\ Tail(s)[i] = s[i + 1]
  OBVIOUS

(* What the pipe to the runner carries stays a command, and a command leaves a state to show.    *)
LEMMA CommandsArrive == ASSUME ExchangeInv, ExchangeNext PROVE toEngine' \in Seq(PanelCommands)
<1>1. CASE Ask \/ OtherAsks
  <2>1. Wants \in PanelCommands /\ "status" \in PanelCommands
    BY DEF Wants, PanelCommands
  <2>2. toEngine' = Append(toEngine, Wants) \/ toEngine' = Append(toEngine, "status") \/ toEngine' = toEngine
    BY <1>1 DEF Ask, OtherAsks
  <2> QED
    BY <1>1, <2>1, <2>2 DEF ExchangeInv
<1>2. CASE LinkBreaks
  <2>1. <<>> \in Seq(PanelCommands)
    OBVIOUS
  <2> QED
    BY <1>2, <2>1 DEF LinkBreaks
<1>3. CASE UserClicks
  BY <1>3 DEF UserClicks, PanelCommands, ExchangeInv
<1>4. CASE EngineAnswers
  BY <1>4 DEF EngineAnswers, ExchangeInv
<1>5. CASE PageHalts \/ OtherEnds \/ Reads \/ GivesUp \/ Deliver \/ EngineTicks
  BY <1>5 DEF PageHalts, OtherEnds, Reads, GivesUp, Deliver, EngineTicks, ExchangeInv
<1> QED
  BY <1>1, <1>2, <1>3, <1>4, <1>5 DEF ExchangeNext

LEMMA CommandsShow ==
    ASSUME NEW m \in PanelCommands, runner \in Shown
    PROVE  Becomes(m) \subseteq Shown
<1>1. CASE m = "status"
  BY <1>1 DEF Becomes
<1>2. CASE m = "anhalten"
  BY <1>2 DEF Becomes, Shown
<1>3. CASE m = "fortsetzen"
  BY <1>3 DEF Becomes, Shown
<1>4. CASE m = "pause"
  BY <1>4 DEF Becomes, Shown
<1> QED
  BY <1>1, <1>2, <1>3, <1>4 DEF PanelCommands

LEMMA ExchangeSteps == ASSUME ExchangeInv, ExchangeNext PROVE ExchangeInv'
<1> USE CommandsArrive DEF ExchangeInv, HaltsKnown
<1>1. CASE PageHalts
  BY <1>1 DEF PageHalts, OnTheWay
<1>2. CASE Ask
  BY <1>2 DEF Ask, CallEnds, OnTheWay, NoFrame
<1>3. CASE OtherAsks \/ OtherEnds
  BY <1>3 DEF OtherAsks, OtherEnds, OnTheWay, NoFrame
<1>4. CASE Reads
  BY <1>4 DEF Reads, AskAgain, CallEnds, Verdict, OnTheWay, NoFrame
<1>5. CASE GivesUp
  BY <1>5 DEF GivesUp, CallEnds, OnTheWay, NoFrame
<1>6. CASE LinkBreaks
  <2>1. toUI' = <<>> /\ toUI' \in Seq(Frames)
    BY <1>6 DEF LinkBreaks
  <2> QED
    BY <1>6, <2>1 DEF LinkBreaks, CallEnds, OnTheWay, NoFrame
<1>7. CASE Deliver
  <2>1. toUI # <<>> /\ toUI' = Tail(toUI)
    BY <1>7 DEF Deliver
  <2>2. toUI' \in Seq(Frames) /\ (OnTheWay("angehalten")' => OnTheWay("angehalten"))
    BY <2>1, FramesArrive DEF OnTheWay
  <2>3. Head(toUI) = "angehalten" => OnTheWay("angehalten")
    BY <2>1 DEF OnTheWay
  <2> QED
    BY <1>7, <2>2, <2>3 DEF Deliver
<1>8. CASE UserClicks
  BY <1>8 DEF UserClicks, OnTheWay
<1>9. ASSUME NEW s \in Shown, NEW f \in Frames, RunnerIs(s), toUI' = Append(toUI, f), f = s \/ f = "fehler",
             UNCHANGED <<halting, heard, pageTold>>
      PROVE  ExchangeInv'
  <2>1. toUI' \in Seq(Frames)
    BY <1>9
  <2>2. OnTheWay("angehalten")' => OnTheWay("angehalten") \/ s = "angehalten"
    BY <1>9 DEF OnTheWay
  <2> QED
    BY <1>9, <2>1, <2>2 DEF RunnerIs
<1>10. CASE EngineAnswers
  <2>1. Head(toEngine) \in PanelCommands
    BY <1>10 DEF EngineAnswers
  <2>2. Becomes(Head(toEngine)) \subseteq Shown
    BY <2>1, CommandsShow
  <2> QED
    BY <1>9, <1>10, <2>2 DEF EngineAnswers, Frames, Shown
<1>11. CASE EngineTicks
  <2>1. toUI' \in Seq(Frames)
    BY <1>11 DEF EngineTicks, Frames
  <2>2. OnTheWay("angehalten")' => OnTheWay("angehalten") \/ runner = "angehalten"
    BY <1>11 DEF EngineTicks, OnTheWay, Frames
  <2> QED
    BY <1>11, <2>1, <2>2 DEF EngineTicks
<1> QED
  BY <1>1, <1>2, <1>3, <1>4, <1>5, <1>6, <1>7, <1>8, <1>10, <1>11 DEF ExchangeNext

(* A page that is told of its halt is told the truth, whatever the queues, the number of       *)
(* questions, the panel's user, other pages and broken connections.                      *)
THEOREM HaltIsTold == ExchangeSpec => []HaltIsTrue
<1>1. ExchangeInit => ExchangeInv
  <2>1. <<>> \in Seq(Frames) /\ <<>> \in Seq(PanelCommands) /\ DOMAIN <<>> = {}
    OBVIOUS
  <2> QED
    BY <2>1 DEF ExchangeInit, ExchangeInv, HaltsKnown, OnTheWay, Shown, NoFrame
<1>2. ExchangeInv /\ [ExchangeNext]_exchangeVars => ExchangeInv'
  <2>1. ASSUME ExchangeInv, UNCHANGED exchangeVars PROVE ExchangeInv'
    BY <2>1 DEF ExchangeInv, HaltsKnown, exchangeVars, OnTheWay
  <2> QED
    BY <2>1, ExchangeSteps
<1>3. ExchangeInv => HaltIsTrue
  BY DEF ExchangeInv, HaltsKnown, HaltIsTrue
<1> QED
  BY <1>1, <1>2, <1>3, PTL DEF ExchangeSpec

-----------------------------------------------------------------------------
(* AppWindows: one window per app, and none older than the menu.           *)

AppLists == [seq : Nat, names : SUBSET AppNames]
Wins == [open : {"yes", "no"}, seq : Nat]
Bundles == [seq : Nat, names : SUBSET AppNames, file : {"there", "unreadable", "erased"}]
Openings == [at : {"no", "reads", "found", "failed"}, seq : Nat]
AppsType ==
    /\ bundle \in Bundles
    /\ apps \in AppLists /\ lists \in Seq(AppLists)
    /\ offered = <<>> \/ offered[1] \in AppLists
    /\ opening \in [AppNames -> Openings]
    /\ embedding \in AppNames \cup {NoApp}
    /\ window \in [AppNames -> Wins]
(* An app that is being opened has no window, and the one whose window starts was found.       *)
OpeningIsNew ==
    /\ \A a \in AppNames : opening[a].at # "no" => ~HasWindow(a)
    /\ embedding # NoApp => opening[embedding].at = "found"
ShownIsNew ==
    \A a \in AppNames : HasWindow(a) /\ a \in apps.names => window[a].seq >= apps.seq
AppsInv == AppsType /\ OpeningIsNew /\ ShownIsNew

LEMMA Updating ==
    ASSUME NEW w \in Wins, NEW l \in AppLists
    PROVE  Updated(w, l) \in Wins /\ Updated(w, l).seq >= l.seq
  BY DEF Updated, OpenAt, Wins, AppLists

LEMMA ListedWindows ==
    ASSUME AppsType, NEW l \in AppLists
    PROVE  /\ Listed(l) \in [AppNames -> Wins]
           /\ \A a \in AppNames : Listed(l)[a].open = "yes" =>
                                    HasWindow(a) /\ a \in l.names /\ Listed(l)[a].seq >= l.seq
  <1>1. NoWindow \in Wins /\ NoWindow.open = "no"
    BY DEF NoWindow, Wins
  <1>2. \A a \in AppNames : window[a] \in Wins
    BY DEF AppsType
  <1> QED
    BY <1>1, <1>2, Updating DEF Listed, HasWindow

LEMMA AppsSteps == ASSUME AppWindowsAssumption, AppsInv, AppsNext PROVE AppsInv'
<1> USE DEF AppsInv
<1>1. CASE RunnerSaves \/ RunnerWrites \/ RunnerRevoked
  <2>1. bundle' \in Bundles
    <3>1. CASE RunnerSaves
      <4>1. bundle.seq + 1 \in Nat
        BY DEF AppsType, Bundles
      <4> QED
        BY <3>1, <4>1 DEF RunnerSaves, Bundles
    <3>2. CASE RunnerWrites
      BY <3>2 DEF AppsType, RunnerWrites, Bundles
    <3>3. CASE RunnerRevoked
      BY <3>3 DEF AppsType, RunnerRevoked, Bundles
    <3> QED
      BY <1>1, <3>1, <3>2, <3>3
  <2>2. UNCHANGED <<offered, lists, apps, opening, embedding, window>>
    BY <1>1 DEF RunnerSaves, RunnerWrites, RunnerRevoked, watchVars
  <2> QED
    BY <2>1, <2>2 DEF AppsType, OpeningIsNew, ShownIsNew, HasWindow
<1>2. CASE WatchReads \/ WatchFails
  <2>1. UNCHANGED <<bundle, lists, apps, opening, embedding, window>>
    BY <1>2 DEF WatchReads, WatchFails
  <2>2. NoList \in AppLists /\ [seq |-> bundle.seq, names |-> bundle.names] \in AppLists
    BY DEF NoList, AppLists, AppsType, Bundles
  <2>3. offered' = <<>> \/ offered'[1] \in AppLists
    BY <1>2, <2>2 DEF WatchReads, WatchFails, Emits
  <2> QED
    BY <2>1, <2>3 DEF AppsType, OpeningIsNew, ShownIsNew, HasWindow
<1>3. CASE WatchSends
  <2>1. lists' \in Seq(AppLists) /\ offered' = <<>>
    BY <1>3 DEF WatchSends, AppsType
  <2> QED
    BY <1>3, <2>1 DEF WatchSends, AppsType, OpeningIsNew, ShownIsNew, HasWindow
<1>4. ASSUME NEW a \in AppNames, ClickOpen(a) PROVE AppsInv'
  <2>1. opening' \in [AppNames -> Openings]
    BY <1>4 DEF ClickOpen, AppsType, Openings
  <2> QED
    BY <1>4, <2>1 DEF ClickOpen, MayOpen, watchVars, AppsType, OpeningIsNew, ShownIsNew, HasWindow
<1>5. ASSUME NEW a \in AppNames, OpenReads(a) PROVE AppsInv'
  <2>1. bundle.seq \in Nat /\ opening \in [AppNames -> Openings]
    BY DEF AppsType, Bundles
  <2>2. opening' \in [AppNames -> Openings]
    BY <1>5, <2>1 DEF OpenReads, Openings
  <2>3. \A o \in AppNames : o # a => opening'[o] = opening[o]
    BY <1>5, <2>1 DEF OpenReads
  <2>4. UNCHANGED <<bundle, offered, lists, apps, embedding, window>>
    BY <1>5 DEF OpenReads, watchVars
  <2>5. opening[a].at = "reads"
    BY <1>5 DEF OpenReads
  <2> QED
    BY <2>2, <2>3, <2>4, <2>5 DEF AppsType, OpeningIsNew, ShownIsNew, HasWindow
<1>6. CASE DrainList
  <2>1. Head(lists) \in AppLists /\ Tail(lists) \in Seq(AppLists)
    BY <1>6 DEF DrainList, AppsType
  <2>2. apps' = Head(lists) /\ window' = Listed(Head(lists)) /\ lists' = Tail(lists)
    BY <1>6 DEF DrainList
  <2>3. UNCHANGED <<bundle, offered, opening, embedding>>
    BY <1>6 DEF DrainList, watchVars
  <2>4. window' \in [AppNames -> Wins]
    BY <2>1, <2>2, ListedWindows
  <2>5. \A a \in AppNames : HasWindow(a)' => HasWindow(a) /\ window'[a].seq >= apps'.seq
    BY <2>1, <2>2, ListedWindows DEF HasWindow
  <2> QED
    BY <2>1, <2>2, <2>3, <2>4, <2>5 DEF AppsType, OpeningIsNew, ShownIsNew
<1>7. ASSUME NEW a \in AppNames, DrainOpened(a) PROVE AppsInv'
  <2>1. embedding = NoApp /\ UNCHANGED <<bundle, offered, lists, apps, window>>
    BY <1>7 DEF DrainOpened, MayDrain, watchVars
  <2>2. NotOpening \in Openings /\ NotOpening.at = "no"
    BY DEF NotOpening, Openings
  <2>3. CASE opening' = [opening EXCEPT ![a] = NotOpening] /\ UNCHANGED embedding
    BY <2>1, <2>2, <2>3 DEF AppsType, OpeningIsNew, ShownIsNew, HasWindow
  <2>4. CASE opening[a].at = "found" /\ embedding' = a /\ UNCHANGED opening
    BY <2>1, <2>4 DEF AppsType, OpeningIsNew, ShownIsNew, HasWindow
  <2> QED
    BY <1>7, <2>3, <2>4 DEF DrainOpened
<1>8. CASE EmbedEnds
  <2> DEFINE e == embedding
             w == OpenAt(opening[e].seq)
             u == IF e \in apps.names THEN Updated(w, apps) ELSE w
  <2>1. e \in AppNames /\ embedding' = NoApp /\ opening' = [opening EXCEPT ![e] = NotOpening]
    BY <1>8 DEF EmbedEnds, AppsType
  <2>2. w \in Wins
    BY <2>1 DEF OpenAt, Wins, AppsType, Openings
  <2>3. u \in Wins /\ (e \in apps.names => u.seq >= apps.seq)
    BY <2>2, Updating DEF AppsType
  <2>4. window' = [window EXCEPT ![e] = u] \/ window' = window
    BY <1>8 DEF EmbedEnds
  <2>5. UNCHANGED <<bundle, offered, lists, apps>>
    BY <1>8 DEF EmbedEnds, watchVars
  <2> HIDE DEF u, w
  <2>6. NotOpening \in Openings /\ NotOpening.at = "no"
    BY DEF NotOpening, Openings
  <2>7. opening' \in [AppNames -> Openings] /\ window' \in [AppNames -> Wins]
    BY <2>1, <2>3, <2>4, <2>6 DEF AppsType
  <2>8. \A a \in AppNames : a # e => window'[a] = window[a] /\ opening'[a] = opening[a]
    BY <2>1, <2>4 DEF AppsType
  <2>9. opening'[e].at = "no"
    BY <2>1, <2>6 DEF AppsType
  <2>10. window'[e] = u \/ window'[e] = window[e]
    BY <2>1, <2>4 DEF AppsType
  <2>11. AppsType'
    BY <2>1, <2>5, <2>7 DEF AppsType
  <2>12. OpeningIsNew'
    BY <2>1, <2>8, <2>9 DEF OpeningIsNew, HasWindow
  <2>13. ShownIsNew'
    BY <2>1, <2>3, <2>5, <2>8, <2>10 DEF ShownIsNew, HasWindow
  <2> QED
    BY <2>11, <2>12, <2>13
<1>9. ASSUME NEW a \in AppNames, WindowCloses(a) PROVE AppsInv'
  BY <1>9 DEF WindowCloses, NoWindow, Wins, watchVars, AppsType, OpeningIsNew, ShownIsNew, HasWindow
<1> QED
  BY <1>1, <1>2, <1>3, <1>4, <1>5, <1>6, <1>7, <1>8, <1>9
     DEF AppsNext, WatchSteps, UISteps, OpenSteps

(* No window is started beside another of the same app, and none shows an older manifest than   *)
(* the menu, for any apps, manifests and capacities, and any order of the two channels.       *)
THEOREM WindowsAreNew == AppsSpec => []OneWindowUpToDate
<1>1. AppsInit => AppsInv
  <2>1. ASSUME AppsInit PROVE AppsType
    BY <2>1 DEF AppsInit, AppsType, AppLists, Bundles, Openings, NoList, NotOpening, NoWindow, Wins
  <2> QED
    BY <2>1 DEF AppsInit, AppsInv, OpeningIsNew, ShownIsNew, HasWindow, NotOpening, NoWindow
<1>2. AppsInv /\ [AppsNext]_appVars => AppsInv'
  <2>1. ASSUME AppsInv, UNCHANGED appVars PROVE AppsInv'
    BY <2>1 DEF AppsInv, AppsType, OpeningIsNew, ShownIsNew, HasWindow, appVars
  <2> QED
    BY <2>1, AppWindowsAssumption, AppsSteps
<1>3. AppsInv => OneWindowUpToDate
  BY DEF AppsInv, AppsType, OpeningIsNew, ShownIsNew, HasWindow, OneWindowUpToDate
<1> QED
  BY <1>1, <1>2, <1>3, PTL DEF AppsSpec

=============================================================================
