------------------------------ MODULE MCDevice ------------------------------
(* Halt, Sync and Questions of the desktop runner: none touches a variable of     *)
(* another, so a behaviour is one of a scene. Sync has two: one in which no hour    *)
(* goes by, and one without apps in which the clocks go.                         *)
EXTENDS Halt, Sync, Questions

CONSTANTS k1, a1

mcGrace == [k \in Keys |-> 2]

VARIABLE scene

mcVars == <<scene, haltVars, syncVars, questionVars>>
mcInit ==
    /\ scene \in {"halt", "sync", "clock", "questions"}
    /\ HaltInit /\ SyncInit /\ QuestionsInit
mcNext ==
    \/ scene = "halt" /\ HaltNext /\ UNCHANGED <<scene, syncVars, questionVars>>
    \/ scene = "sync" /\ SyncNext /\ wallHour' = wallHour
       /\ UNCHANGED <<scene, haltVars, questionVars>>
    \/ scene = "clock" /\ SyncNext /\ step'.want.keys \cup step'.want.apps \in {{}, {k1}}
       /\ UNCHANGED <<scene, haltVars, questionVars>>
    \/ scene = "questions" /\ QuestionsNext /\ UNCHANGED <<scene, haltVars, syncVars>>
Syncing == scene \in {"sync", "clock"}
(* The fairness of the modules, each in its scene.                               *)
mcSpec ==
    /\ mcInit /\ [][mcNext]_mcVars
    /\ WF_haltVars(scene = "halt" /\ Load) /\ WF_haltVars(scene = "halt" /\ Tick)
    /\ WF_haltVars(scene = "halt" /\ Expire) /\ WF_haltVars(scene = "halt" /\ BeginReport)
    /\ WF_haltVars(scene = "halt" /\ (ReportAcked \/ ReportLost))
    /\ WF_syncVars(Syncing /\ SyncSteps)
    /\ WF_syncVars(Syncing /\ ScriptReturns)
    /\ WF_syncVars(Syncing /\ RunnerStarts)
    /\ SF_syncVars(Syncing /\ LoopPass) /\ SF_syncVars(Syncing /\ GetConfig)
    /\ SF_syncVars(Syncing /\ GoodManifest) /\ SF_syncVars(Syncing /\ GoodPackage)
    /\ SF_syncVars(Syncing /\ AppSeals)
=============================================================================
