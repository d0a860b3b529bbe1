---------------------------- MODULE MCServices ----------------------------
(* Services that share nothing, one scene each: the libraries and the pins of the    *)
(* script runner, the device agent, and the containers that work for the core.      *)
EXTENDS Libs, Pins, Wheels, Courier, Agent, PostPool, Workers, Ebics

CONSTANTS p1, p2, p3, l1, r1, u1, u2, c1, c2

mcLockOf == [p \in Plans |-> l1]
Wished(u, pins, v, desk) == [url |-> u, pins |-> pins, deskUrl |-> v, desk |-> desk]
mcWishes == {Wished(u1, {c1}, u1, {c2}), Wished(u2, {c1}, u1, {c2})}
mcCourierLists == {<<"p", "q">>, <<"q", "p">>, <<"p", "r", "q">>}
Says(s, c) == [says |-> s, cont |-> c]
mcLines == {Says(<<"name", "x", "1">>, TRUE), Says(<<"name", "y", "1">>, TRUE),
            Says(<<"hash", "h">>, FALSE), Says(<<>>, FALSE)}
Named(n, v, t) == [name |-> n, version |-> v, tags |-> t]
mcWheels == {Named("x", "1", {<<"py2", "none", "any">>, <<"py3", "none", "any">>}),
             Named("y", "1", {<<"cp312", "cp312", "manylinux2014">>}),
             Named("x", "2", {<<"cp312", "abi3", "manylinux_2_41">>}),
             Named("z", "1", {<<"cp311", "cp311", "manylinux2014">>})}
Header(p, d, n) == [path |-> p, dir |-> d, size |-> n, good |-> TRUE]
mcHeaders == {Header(<<"a", "x">>, FALSE, 1), Header(<<"a">>, TRUE, 0),
              Header(<<"A", "y">>, FALSE, 1), Header(<<"a">>, FALSE, 1),
              Header(<<"..", "x">>, FALSE, 1)}
mcKeys == <<"k1", "k2">>

VARIABLE scene

Scenes == {"libs", "pins", "wheels", "courier", "agent", "posts", "reads",
           "ebics fetch", "ebics keys"}
mcVars == <<scene, libsVars, pinVars, wheelVars, courierVars, agentVars, postVars, workersVars, ebicsVars>>
(* What a scene does not step stays in one state.                                  *)
Still(name, here) == scene = name \/ here
mcInit ==
    /\ scene \in Scenes
    /\ LibsInit /\ WheelsInit /\ CourierInit /\ WorkersInit
    /\ PinsInit /\ Still("pins", wish = CHOOSE w \in Wishes : TRUE)
    /\ AgentInit /\ Still("agent", agent.protocol = CHOOSE v \in Protocols : TRUE)
    /\ PostInit /\ Still("posts", entry = CHOOSE t \in Texts : TRUE)
    /\ EbicsInit /\ Still("ebics keys", keyring.file = "whole")
mcNext ==
    \/ scene = "libs" /\ LibsNext
       /\ UNCHANGED <<scene, pinVars, wheelVars, courierVars, agentVars, postVars, workersVars, ebicsVars>>
    \/ scene = "pins" /\ PinsNext
       /\ UNCHANGED <<scene, libsVars, wheelVars, courierVars, agentVars, postVars, workersVars, ebicsVars>>
    \/ scene = "wheels" /\ WheelsNext
       /\ UNCHANGED <<scene, libsVars, pinVars, courierVars, agentVars, postVars, workersVars, ebicsVars>>
    \/ scene = "courier" /\ CourierNext
       /\ UNCHANGED <<scene, libsVars, pinVars, wheelVars, agentVars, postVars, workersVars, ebicsVars>>
    \/ scene = "agent" /\ AgentNext
       /\ UNCHANGED <<scene, libsVars, pinVars, wheelVars, courierVars, postVars, workersVars, ebicsVars>>
    \/ scene = "posts" /\ PostNext
       /\ UNCHANGED <<scene, libsVars, pinVars, wheelVars, courierVars, agentVars, workersVars, ebicsVars>>
    \/ scene = "reads" /\ WorkersNext
       /\ UNCHANGED <<scene, libsVars, pinVars, wheelVars, courierVars, agentVars, postVars, ebicsVars>>
    \/ scene = "ebics fetch" /\ FetchNext
       /\ UNCHANGED <<scene, libsVars, pinVars, wheelVars, courierVars, agentVars, postVars, workersVars>>
    \/ scene = "ebics keys" /\ KeysNext
       /\ UNCHANGED <<scene, libsVars, pinVars, wheelVars, courierVars, agentVars, postVars, workersVars>>
(* The fairness of the modules, each in its scene.                               *)
mcSpec ==
    /\ mcInit /\ [][mcNext]_mcVars
    /\ \A p \in Plans : /\ WF_libsVars(scene = "libs" /\ LibsWork(p))
                       /\ SF_libsVars(scene = "libs" /\ TakePlace(p))
    /\ \A r \in Borrowers : WF_libsVars(scene = "libs" /\ Release(r))
    /\ WF_libsVars(scene = "libs" /\ ResetEnds)
    /\ WF_pinVars(scene = "pins" /\ Poll) /\ WF_pinVars(scene = "pins" /\ Fetch)
=============================================================================
