----------------------------- MODULE MCRecords -----------------------------
(* Records that outlive a process, where nothing but safety is asked: the outbox   *)
(* of the runner, the clock of the schedules, the accepted list of pins and the      *)
(* work list of the robots. They share no variable; a behaviour is one of a scene.   *)
EXTENDS Outbox, Ticker, StoragePins, Kartei

CONSTANTS s1, u1

mcSchedules == {s1}
mcSetups == {u1}
mcNone == {}
(* Results of setups are twice as large as the others.                           *)
mcSize == [k \in Keys |-> IF k.kind = "setup" THEN 2 ELSE 1]
mcLists == [seq : {1}, issued : {4, 5}, pins : {{"p"}}]
           \cup [seq : {2}, issued : {5, 7}, pins : {{"p"}}]

VARIABLE scene

mcVars == <<scene, vars, tickVars, storageVars, karteiVars>>
mcInit ==
    /\ scene \in {"outbox", "ticker", "storage pins", "kartei"}
    /\ Init /\ StorageInit
    /\ KarteiInit /\ \A i \in SatzIds : satz[i].amount = CHOOSE v \in Amounts : TRUE
    (* What a scene does not step stays in one state. *)
    /\ TickerInit /\ (scene = "ticker" \/ (line = Absent /\ pinReady))
mcNext ==
    \/ scene = "outbox" /\ Next
       /\ UNCHANGED <<scene, tickVars, storageVars, karteiVars>>
    \/ scene = "ticker" /\ TickerNext
       /\ UNCHANGED <<scene, vars, storageVars, karteiVars>>
    \/ scene = "storage pins" /\ StorageNext
       /\ UNCHANGED <<scene, vars, tickVars, karteiVars>>
    \/ scene = "kartei" /\ KarteiNext
       /\ UNCHANGED <<scene, vars, tickVars, storageVars>>
mcSpec == mcInit /\ [][mcNext]_mcVars
=============================================================================
