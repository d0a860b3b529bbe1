---------------------------- MODULE MCAdmission ----------------------------
(* The control panel and what it starts: Admission, and the windows of apps  *)
(* and their halt button. None touches a variable of another, so a behaviour *)
(* is one of a scene. Window has two: two persons with one message at a      *)
(* time, and two messages around one login or sign-out.                      *)
EXTENDS Admission, Window, Exchange, AppWindows

CONSTANTS p1, p2, c1, c2, a1, a2, Scenes

VARIABLE scene

panelWindows == <<windowVars, exchangeVars, appVars>>
mcVars == <<scene, vars, panelWindows>>
(* What a scene does not step stays in one state.                           *)
mcInit ==
    /\ scene \in Scenes
    /\ Init /\ WindowInit /\ ExchangeInit /\ AppsInit
    /\ scene \in {"persons", "messages"} \/ lastPerson = Nobody
    /\ scene \in {"persons", "messages"} \/ kept = {}
    /\ scene = "apps" \/ bundle.names = {}
mcNext ==
    \/ (* A device gets a new manifest or is revoked, not both. *)
       scene = "admission" /\ Next /\ (manifest' = 0 \/ revoke' = "no")
       /\ UNCHANGED <<scene, panelWindows>>
    \/ scene = "persons" /\ WindowNext /\ call'[c2] = Idle
       /\ UNCHANGED <<scene, vars, exchangeVars, appVars>>
    \/ scene = "messages" /\ WindowNext
       /\ (loginGen = 0 \/ loginGen' = loginGen \/ loginClosed')
       /\ UNCHANGED <<scene, vars, exchangeVars, appVars>>
    \/ scene = "exchange" /\ ExchangeNext /\ UNCHANGED <<scene, vars, windowVars, appVars>>
    \/ scene = "apps" /\ AppsNext /\ UNCHANGED <<scene, vars, windowVars, exchangeVars>>
mcSafety == mcInit /\ [][mcNext]_mcVars

Admits == scene = "admission"
Showing == scene \in {"persons", "messages"}
Listing == scene = "apps"
(* The fairness of the modules, each in its scene.                          *)
mcSpec ==
    /\ mcSafety
    /\ WF_vars(Admits /\ (Schedule \/ Reserve)) /\ WF_vars(Admits /\ (PollEnds \/ Adhoc))
    /\ WF_vars(Admits /\ (TurnedDown \/ Execute)) /\ WF_vars(Admits /\ LoopUnlocks)
    /\ WF_vars(Admits /\ SetupRefused) /\ WF_vars(Admits /\ (SetupAnswered \/ SetupChecked))
    /\ WF_vars(Admits /\ (PanelReports \/ PanelUnpends \/ PanelUnlocks))
    /\ \A t \in Threads : /\ WF_vars(Admits /\ (Prepare(t) \/ Spawn(t)))
                          /\ WF_vars(Admits /\ Stopping(t))
                          /\ WF_vars(Admits /\ (Close(t) \/ Release(t)))
    /\ WF_vars(Admits /\ (HeartbeatCancels \/ HeartbeatKills))
    /\ WF_vars(Admits /\ StateDeleted) /\ WF_vars(Admits /\ RunReturns)
    /\ WF_vars(Admits /\ ClosePanel)
    /\ \A c \in Calls : WF_windowVars(Showing /\ CallSteps(c))
    /\ WF_windowVars(Showing /\ FlowEnds) /\ WF_windowVars(Showing /\ SurfacePumps)
    /\ WF_windowVars(Showing /\ TimerFires) /\ WF_windowVars(Showing /\ TimeoutArrives)
    /\ WF_windowVars(Showing /\ Destroyed)
    /\ WF_appVars(Listing /\ WatchSteps) /\ WF_appVars(Listing /\ OpenSteps)
    /\ WF_appVars(Listing /\ EmbedEnds) /\ SF_appVars(Listing /\ DrainList)
    /\ \A a \in AppNames : SF_appVars(Listing /\ DrainOpened(a))
=============================================================================
