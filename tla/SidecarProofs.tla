--------------------------- MODULE SidecarProofs ----------------------------
(***************************************************************************)
(* Proofs about the services beside the two runners: the LinkedIn page,    *)
(* the card index, the bank statements and the agent.  They share nothing  *)
(* but this module.                                                        *)
(***************************************************************************)
EXTENDS PostPool, Workers, Kartei, Ebics, Agent, FiniteSetTheorems, TLAPS

-----------------------------------------------------------------------------
(* PostPool: who is told that nothing was executed is told the truth.      *)

Effects == [aktion : Aktionen, text : Texts \cup {""}]
JobPlaces == {"none", "load", "hash", "begin", "token", "permit", "write", "send", "final", "killed"}
PostJobs == [at : JobPlaces, req : Effects, op : Nat, written : BOOLEAN, wrote : BOOLEAN]
Ends == {"gateway_nicht_erreichbar", "eintrag_ungueltig", "nicht_freigegeben", "schreib_tageslimit",
         "token_abgelaufen", "schreib_http_tageslimit", "schreiben_zeit_ueberschritten", "worker_failed",
         "service_stopping", "source_unavailable", "repeated", "ok"}
PostReplies == Ends \cup {"none", "not started", "awaited", "gone"}
Calls == [req : Effects, answer : PostReplies, notExecuted : BOOLEAN]

PostTypes == postJob \in PostJobs /\ core \in Calls

(* The attempt is noted before what it is about may be sent.                 *)
NotedFirst ==
    /\ postJob.wrote = TRUE => postJob.written = TRUE
    /\ postJob.at = "send" /\ Operation # "video_status" => postJob.written = TRUE
(* Whoever waits has not been told anything; whoever was told that nothing     *)
(* happened was told so by the end of a job that had not written.              *)
ToldAtTheEnd ==
    /\ core.answer = "awaited" => core.notExecuted = FALSE
    /\ core.notExecuted = TRUE /\ core.answer # "not started" => ~PostBusy /\ postJob.wrote = FALSE
Remembered == postJob.at \in {"begin", "token", "permit", "write", "send"} => postJob.req \notin doneOps

PostInv == PostTypes /\ NotedFirst /\ ToldAtTheEnd /\ Remembered

LEMMA WirkungIsEffect == \A a \in Aktionen, t \in Texts : Wirkung(a, t) \in Effects
  BY DEF Wirkung, Effects

LEMMA NoWorkIsJob == NoWork \in PostJobs /\ NoWork.at = "none" /\ NoWork.wrote = FALSE
<1>1. Wirkung("loeschen", "") \in Effects
  BY DEF Wirkung, Effects, Aktionen, Operations
<1>2. \A e \in Effects, b \in BOOLEAN :
        [at |-> "none", req |-> e, op |-> 1, written |-> b, wrote |-> b] \in PostJobs
  BY DEF PostJobs, JobPlaces
<1>3. NoWork \in PostJobs
  BY <1>1, <1>2, Zenon DEF NoWork
<1>4. NoWork.at = "none" /\ NoWork.wrote = FALSE
  BY DEF NoWork
<1> QED BY <1>3, <1>4

LEMMA PostInvInit == PostInit => PostInv
<1> SUFFICES ASSUME PostInit PROVE PostInv
  OBVIOUS
<1>1. Wirkung("loeschen", "") \in Effects
  BY DEF Wirkung, Effects, Aktionen, Operations
<1>2. \A e \in Effects, b \in BOOLEAN : [req |-> e, answer |-> "none", notExecuted |-> b] \in Calls
  BY DEF Calls, PostReplies
<1>3. NoCall \in Calls
  BY <1>1, <1>2, Zenon DEF NoCall
<1>4. NoCall.answer = "none" /\ NoCall.notExecuted = FALSE
  BY DEF NoCall
<1>5. postJob = NoWork /\ core = NoCall
  BY DEF PostInit
<1>6. PostTypes
  BY <1>3, <1>5, NoWorkIsJob DEF PostTypes
<1>7. NotedFirst /\ ToldAtTheEnd /\ Remembered
  BY <1>4, <1>5, NoWorkIsJob DEF NotedFirst, ToldAtTheEnd, Remembered
<1> QED BY <1>6, <1>7 DEF PostInv

(* What an answer does: whoever does not wait hears nothing.                 *)
LEMMA PostAnswerKeeps ==
    ASSUME core \in Calls, NEW code \in Ends, NEW b \in BOOLEAN, PostAnswer(code, b)
    PROVE  /\ core' \in Calls
           /\ core.answer # "awaited" => core' = core
           /\ core.answer = "awaited" => core'.answer = code /\ (core'.notExecuted = TRUE => b = TRUE)
<1> DEFINE told == b /\ code # "nicht_freigegeben"
<1>1. told \in BOOLEAN
  OBVIOUS
<1>2. \A d \in BOOLEAN : [core EXCEPT !.answer = code, !.notExecuted = d] \in Calls
  BY DEF Calls, PostReplies
<1>3. [core EXCEPT !.answer = code, !.notExecuted = told] \in Calls
  BY <1>1, <1>2, Zenon
<1>4. core' = IF core.answer # "awaited" THEN core ELSE [core EXCEPT !.answer = code, !.notExecuted = told]
  BY DEF PostAnswer
<1>5. core.answer = "awaited" => core'.answer = code /\ core'.notExecuted = told
  BY <1>4 DEF Calls
<1> HIDE DEF told
<1>6. core' \in Calls /\ (core.answer # "awaited" => core' = core)
  BY <1>3, <1>4
<1>7. told = TRUE => b = TRUE
  BY DEF told
<1> QED BY <1>5, <1>6, <1>7

(* The end of a job that is on, or of none if nobody waits.                  *)
LEMMA PostEndKeeps ==
    ASSUME PostInv, PostBusy, NEW code \in Ends, NEW b \in BOOLEAN, PostAnswer(code, b),
           postJob' \in PostJobs, postJob'.at = "killed",
           postJob'.wrote = TRUE => postJob'.written = TRUE,
           b = TRUE => postJob'.wrote = FALSE
    PROVE  PostInv'
<1>1. /\ core' \in Calls /\ (core.answer # "awaited" => core' = core)
      /\ core.answer = "awaited" => core'.answer = code /\ (core'.notExecuted = TRUE => b = TRUE)
  BY PostAnswerKeeps DEF PostInv, PostTypes
<1>c. code \notin {"awaited", "not started"}
  BY DEF Ends
<1>2. PostTypes' /\ NotedFirst' /\ Remembered' /\ ~PostBusy'
  BY <1>1 DEF PostTypes, NotedFirst, Remembered, PostBusy
<1>3. ToldAtTheEnd'
  <2>1. CASE core.answer = "awaited"
    BY <1>1, <1>2, <1>c, <2>1 DEF ToldAtTheEnd
  <2>2. CASE core.answer # "awaited"
    BY <1>1, <1>2, <2>2 DEF PostInv, ToldAtTheEnd
  <2> QED BY <2>1, <2>2
<1> QED BY <1>2, <1>3 DEF PostInv

LEMMA FinishKeeps ==
    ASSUME PostInv, PostBusy, NEW code \in Ends, FinishError(code)
    PROVE  PostInv'
<1>1. postJob \in PostJobs
  BY DEF PostInv, PostTypes
<1>2. (~postJob.written) \in BOOLEAN
  OBVIOUS
<1>3. PostAnswer(code, ~postJob.written) /\ postJob' = [postJob EXCEPT !.at = "killed"]
  BY DEF FinishError
<1>4. postJob' \in PostJobs /\ postJob'.at = "killed"
  BY <1>1, <1>3 DEF PostJobs, JobPlaces
<1>5. postJob'.wrote = postJob.wrote /\ postJob'.written = postJob.written
  BY <1>1, <1>3 DEF PostJobs
<1>6. postJob.wrote \in BOOLEAN /\ postJob.written \in BOOLEAN
  BY <1>1 DEF PostJobs
<1>7. postJob'.wrote = TRUE => postJob'.written = TRUE
  BY <1>5 DEF PostInv, NotedFirst
<1>8. (~postJob.written) = TRUE => postJob'.wrote = FALSE
  BY <1>5, <1>6 DEF PostInv, NotedFirst
<1> QED BY <1>2, <1>3, <1>4, <1>7, <1>8, PostEndKeeps DEF Ends

(* A job that is on and goes on; nobody is told anything.                    *)
LEMMA GoesOn ==
    ASSUME PostInv, PostBusy, UNCHANGED core, postJob' \in PostJobs, PostBusy',
           NotedFirst', Remembered'
    PROVE  PostInv'
<1>1. PostTypes'
  BY DEF PostInv, PostTypes
<1>2. ToldAtTheEnd'
  BY DEF PostInv, ToldAtTheEnd
<1> QED BY <1>1, <1>2 DEF PostInv

(* The same with its place as the only change.                              *)
LEMMA JobGoesKeeps ==
    ASSUME PostInv, PostBusy, UNCHANGED <<core, doneOps>>, NEW a \in JobPlaces \ {"none", "killed"}, JobGoes(a),
           a \in {"begin", "token", "permit", "write", "send"} => postJob.req \notin doneOps,
           a = "send" => Operation = "video_status"
    PROVE  PostInv'
<1>1. postJob \in PostJobs /\ postJob' = [postJob EXCEPT !.at = a]
  BY DEF PostInv, PostTypes, JobGoes
<1>2. /\ postJob' \in PostJobs /\ postJob'.at = a /\ postJob'.req = postJob.req /\ postJob'.op = postJob.op
      /\ postJob'.wrote = postJob.wrote /\ postJob'.written = postJob.written
  BY <1>1 DEF PostJobs
<1>3. PostBusy' /\ Remembered'
  BY <1>2 DEF PostBusy, Remembered
<1>4. Operation' = Operation
  BY <1>2 DEF Operation
<1>5. NotedFirst'
  BY <1>2, <1>4 DEF PostInv, NotedFirst
<1> QED BY <1>2, <1>3, <1>5, GoesOn

LEMMA SendKeeps == PostInv /\ Send => PostInv'
<1> SUFFICES ASSUME PostInv, Send PROVE PostInv'
  OBVIOUS
<1> DEFINE ops == Operations[postJob.req.aktion]
           writes == postJob.wrote \/ Operation # "video_status"
           noted == [postJob EXCEPT !.wrote = writes]
<1>1. postJob \in PostJobs /\ postJob.at = "send" /\ PostBusy /\ postJob.req \notin doneOps /\ UNCHANGED doneOps
  BY DEF Send, PostInv, PostTypes, PostBusy, Remembered
<1>2. writes \in BOOLEAN /\ (writes = TRUE => postJob.written = TRUE)
  <2>1. postJob.wrote \in BOOLEAN
    BY <1>1 DEF PostJobs
  <2> QED BY <1>1, <2>1 DEF PostInv, NotedFirst
<1> HIDE DEF writes
<1>3. \A w \in BOOLEAN, n \in Nat, a \in JobPlaces :
        /\ [postJob EXCEPT !.wrote = w, !.at = a, !.op = n] \in PostJobs
        /\ [postJob EXCEPT !.wrote = w, !.at = a] \in PostJobs
  BY <1>1 DEF PostJobs
<1>4. ASSUME NEW a \in {"final", "token", "killed"}
      PROVE  /\ [noted EXCEPT !.at = a] \in PostJobs /\ [noted EXCEPT !.at = a, !.op = @ + 1] \in PostJobs
             /\ \A j \in {[noted EXCEPT !.at = a], [noted EXCEPT !.at = a, !.op = @ + 1]} :
                   /\ j.at = a /\ j.req = postJob.req /\ j.wrote = writes /\ j.written = postJob.written
  <2>1. a \in JobPlaces /\ postJob.op + 1 \in Nat
    BY <1>1 DEF JobPlaces, PostJobs
  <2>2. /\ [noted EXCEPT !.at = a] = [postJob EXCEPT !.wrote = writes, !.at = a]
        /\ [noted EXCEPT !.at = a, !.op = @ + 1] = [postJob EXCEPT !.wrote = writes, !.at = a, !.op = postJob.op + 1]
    BY <1>1 DEF PostJobs
  <2>3. /\ [noted EXCEPT !.at = a] \in PostJobs /\ [noted EXCEPT !.at = a, !.op = @ + 1] \in PostJobs
    BY <1>2, <1>3, <2>1, <2>2, Zenon
  <2>4. \A j \in {[noted EXCEPT !.at = a], [noted EXCEPT !.at = a, !.op = @ + 1]} :
                   /\ j.at = a /\ j.req = postJob.req /\ j.wrote = writes /\ j.written = postJob.written
    BY <1>1 DEF PostJobs
  <2> QED BY <2>3, <2>4
<1>5. CASE UNCHANGED core /\ postJob' \in {[noted EXCEPT !.at = "final"], [noted EXCEPT !.at = "token", !.op = @ + 1]}
  <2>1. /\ postJob' \in PostJobs /\ postJob'.at \in {"final", "token"} /\ postJob'.req = postJob.req
        /\ postJob'.wrote = writes /\ postJob'.written = postJob.written
    BY <1>4, <1>5
  <2>2. PostBusy' /\ Remembered' /\ NotedFirst'
    BY <1>1, <1>2, <2>1 DEF PostBusy, Remembered, NotedFirst
  <2> QED BY <1>1, <1>5, <2>1, <2>2, GoesOn
<1>6. CASE UNCHANGED core /\ JobGoes("token")
  BY <1>1, <1>6, JobGoesKeeps DEF JobPlaces
<1>7. CASE PostAnswer("source_unavailable", ~postJob.written) /\ postJob' = [noted EXCEPT !.at = "killed"]
  <2>1. /\ postJob' \in PostJobs /\ postJob'.at = "killed" /\ postJob'.wrote = writes
        /\ postJob'.written = postJob.written
    BY <1>4, <1>7
  <2>2. (~postJob.written) \in BOOLEAN
    OBVIOUS
  <2>3. postJob'.wrote = TRUE => postJob'.written = TRUE
    BY <1>2, <2>1
  <2>4. (~postJob.written) = TRUE => postJob'.wrote = FALSE
    BY <1>2, <2>1
  <2> QED BY <1>1, <1>7, <2>1, <2>2, <2>3, <2>4, PostEndKeeps DEF Ends
<1> QED BY <1>5, <1>6, <1>7 DEF Send, writes

LEMMA PostRequestKeeps == ASSUME PostInv, NEW a \in Aktionen, NEW t \in Texts, Request(a, t) PROVE PostInv'
<1> DEFINE req == Wirkung(a, t)
<1>1. req \in Effects /\ postJob \in PostJobs /\ UNCHANGED doneOps
  BY WirkungIsEffect DEF PostInv, PostTypes, Request
<1> HIDE DEF req
<1>2. \A x \in {"not started", "awaited"}, b \in BOOLEAN : [req |-> req, answer |-> x, notExecuted |-> b] \in Calls
  BY <1>1 DEF Calls, PostReplies
<1>3. CASE core' = [req |-> req, answer |-> "not started", notExecuted |-> TRUE] /\ UNCHANGED postJob
  <2>1. core' \in Calls
    BY <1>2, <1>3, Zenon
  <2>2. core'.answer = "not started"
    BY <1>3
  <2>3. PostTypes' /\ ToldAtTheEnd'
    BY <1>1, <1>3, <2>1, <2>2 DEF PostTypes, ToldAtTheEnd
  <2>4. NotedFirst' /\ Remembered'
    BY <1>1, <1>3 DEF PostInv, NotedFirst, Remembered, Operation
  <2> QED BY <2>3, <2>4 DEF PostInv
<1>4. CASE /\ core' = [req |-> req, answer |-> "awaited", notExecuted |-> FALSE]
           /\ postJob' = [NoWork EXCEPT !.at = "load", !.req = req]
  <2>1. core' \in Calls
    BY <1>2, <1>4, Zenon
  <2>2. core'.answer = "awaited" /\ core'.notExecuted = FALSE
    BY <1>4
  <2>3. postJob' \in PostJobs /\ postJob'.at = "load"
    BY <1>1, <1>4, NoWorkIsJob DEF PostJobs, JobPlaces
  <2>4. postJob'.wrote = FALSE
    BY <1>4, NoWorkIsJob DEF PostJobs
  <2>5. PostTypes' /\ ToldAtTheEnd' /\ NotedFirst' /\ Remembered'
    BY <2>1, <2>2, <2>3, <2>4 DEF PostTypes, ToldAtTheEnd, NotedFirst, Remembered
  <2> QED BY <2>5 DEF PostInv
<1> QED BY <1>3, <1>4 DEF Request, req

LEMMA PostStepKeeps == PostInv /\ [PostNext]_postVars => PostInv'
<1> SUFFICES ASSUME PostInv, [PostNext]_postVars PROVE PostInv'
  OBVIOUS
<1>T. postJob \in PostJobs /\ core \in Calls
  BY DEF PostInv, PostTypes
<1>1. CASE (\E t \in Texts : Edited(t)) \/ DayTurns \/ UNCHANGED postVars
           \/ (ClosePost /\ ~PostBusy)
  <2>1. UNCHANGED <<postJob, core, doneOps>>
    BY <1>1 DEF Edited, DayTurns, postVars, ClosePost
  <2> QED BY <2>1 DEF PostInv, PostTypes, NotedFirst, ToldAtTheEnd, Remembered, PostBusy, Operation
<1>2. ASSUME NEW a \in Aktionen, NEW t \in Texts, Request(a, t) PROVE PostInv'
  BY <1>2, PostRequestKeeps
<1>3. CASE CallerGone
  <2>1. UNCHANGED <<postJob, doneOps>> /\ core' = [core EXCEPT !.answer = "gone"] /\ core.answer = "awaited"
    BY <1>3 DEF CallerGone
  <2>2. core' \in Calls /\ core'.notExecuted = core.notExecuted /\ core'.answer = "gone"
    BY <1>T, <2>1 DEF Calls, PostReplies
  <2>3. PostTypes' /\ ToldAtTheEnd'
    BY <1>T, <2>1, <2>2 DEF PostInv, PostTypes, ToldAtTheEnd
  <2> QED BY <2>1, <2>3 DEF PostInv, NotedFirst, Remembered, Operation
<1>4. CASE Load
  <2>1. PostBusy /\ UNCHANGED doneOps
    BY <1>4 DEF Load, PostBusy
  <2>2. CASE \E code \in {"gateway_nicht_erreichbar", "eintrag_ungueltig", "nicht_freigegeben"} : FinishError(code)
    BY <2>1, <2>2, FinishKeeps DEF Ends
  <2>3. CASE JobGoes("hash") /\ UNCHANGED core
    BY <2>1, <2>3, JobGoesKeeps DEF JobPlaces
  <2> QED BY <1>4, <2>2, <2>3 DEF Load, GatewayFails, EntryRefused
<1>5. CASE ReportHash
  <2>1. PostBusy /\ UNCHANGED doneOps
    BY <1>5 DEF ReportHash, PostBusy
  <2>2. CASE PostAnswer("repeated", FALSE) /\ JobGoes("killed")
    <3>1. postJob' \in PostJobs /\ postJob'.at = "killed"
      BY <1>T, <2>2 DEF JobGoes, PostJobs, JobPlaces
    <3>2. postJob'.wrote = postJob.wrote /\ postJob'.written = postJob.written
      BY <1>T, <2>2 DEF JobGoes, PostJobs
    <3>3. postJob'.wrote = TRUE => postJob'.written = TRUE
      BY <3>2 DEF PostInv, NotedFirst
    <3> QED BY <2>1, <2>2, <3>1, <3>3, PostEndKeeps DEF Ends
  <2>3. CASE postJob.req \notin doneOps /\ JobGoes("begin") /\ UNCHANGED core
    BY <2>1, <2>3, JobGoesKeeps DEF JobPlaces
  <2> QED BY <1>5, <2>2, <2>3 DEF ReportHash
<1>6. CASE BeginAction \/ GetToken \/ PermitHttp
  <2>1. PostBusy /\ UNCHANGED doneOps /\ postJob.req \notin doneOps
    BY <1>6 DEF BeginAction, GetToken, PermitHttp, PostBusy, PostInv, Remembered
  <2>2. CASE \E code \in {"schreib_tageslimit", "token_abgelaufen", "schreib_http_tageslimit"} : FinishError(code)
    BY <2>1, <2>2, FinishKeeps DEF Ends
  <2>3. CASE UNCHANGED core /\ \E a \in {"token", "permit", "send", "write"} :
                JobGoes(a) /\ (a = "send" => Operation = "video_status")
    BY <2>1, <2>3, JobGoesKeeps DEF JobPlaces
  <2> QED BY <1>6, <2>2, <2>3 DEF BeginAction, GetToken, PermitHttp
<1>7. CASE WriteRequest
  <2>1. postJob' = [postJob EXCEPT !.at = "send", !.written = TRUE] /\ UNCHANGED <<doneOps, core>>
        /\ PostBusy /\ postJob.req \notin doneOps
    BY <1>7 DEF WriteRequest, PostInv, Remembered, PostBusy
  <2>2. postJob' \in PostJobs /\ postJob'.at = "send" /\ postJob'.req = postJob.req
    BY <1>T, <2>1 DEF PostJobs, JobPlaces
  <2>3. postJob'.written = TRUE
    BY <1>T, <2>1 DEF PostJobs
  <2>4. PostBusy' /\ NotedFirst' /\ Remembered'
    BY <2>1, <2>2, <2>3 DEF PostBusy, NotedFirst, Remembered
  <2> QED BY <2>1, <2>2, <2>4, GoesOn
<1>8. CASE Send
  BY <1>8, SendKeeps
<1>9. CASE Confirm
  <2>1. PostBusy /\ PostAnswer("ok", FALSE) /\ JobGoes("killed")
    BY <1>9 DEF Confirm, PostBusy
  <2>2. postJob' \in PostJobs /\ postJob'.at = "killed"
    BY <1>T, <2>1 DEF JobGoes, PostJobs, JobPlaces
  <2>3. postJob'.wrote = postJob.wrote /\ postJob'.written = postJob.written
    BY <1>T, <2>1 DEF JobGoes, PostJobs
  <2>4. postJob'.wrote = TRUE => postJob'.written = TRUE
    BY <2>3 DEF PostInv, NotedFirst
  <2> QED BY <2>1, <2>2, <2>4, PostEndKeeps DEF Ends
<1>10. CASE Deadline \/ JobDies \/ (ClosePost /\ PostBusy)
  <2>1. PostBusy /\ \E code \in {"schreiben_zeit_ueberschritten", "worker_failed", "service_stopping"} : FinishError(code)
    BY <1>10 DEF Deadline, JobDies, ClosePost
  <2> QED BY <2>1, FinishKeeps DEF Ends
<1>11. CASE PostRestart
  <2>1. postJob' = NoWork /\ UNCHANGED core
    BY <1>11 DEF PostRestart
  <2>2. PostTypes' /\ NotedFirst' /\ Remembered'
    BY <1>T, <2>1, NoWorkIsJob DEF PostTypes, NotedFirst, Remembered
  <2>3. ToldAtTheEnd'
    BY <2>1, NoWorkIsJob DEF PostInv, ToldAtTheEnd, PostBusy
  <2> QED BY <2>2, <2>3 DEF PostInv
<1> QED BY <1>1, <1>2, <1>3, <1>4, <1>5, <1>6, <1>7, <1>8, <1>9, <1>10, <1>11 DEF PostNext

(* The inductive invariant: an attempt is noted before it is sent, and who    *)
(* was told that nothing happened was told so at the end of a job that had    *)
(* not written.                                                              *)
THEOREM PostInvariant == PostSpec => []PostInv
  BY PostInvInit, PostStepKeeps, PTL DEF PostSpec

(* Who is told that nothing was executed can rely on it, for every number of  *)
(* requests, upsets and every limit of the day.                               *)
THEOREM NotExecutedHolds == PostSpec => []NotExecutedIsTrue
<1>1. PostInv => NotExecutedIsTrue
  <2> SUFFICES ASSUME PostInv PROVE NotExecutedIsTrue
    OBVIOUS
  <2>1. core.notExecuted \in BOOLEAN /\ postJob.wrote \in BOOLEAN /\ postJob.written \in BOOLEAN
    BY DEF PostInv, PostTypes, PostJobs, Calls
  <2>2. core.notExecuted /\ core.answer # "not started" => ~PostBusy /\ ~postJob.wrote
    BY <2>1 DEF PostInv, ToldAtTheEnd
  <2>3. postJob.wrote => postJob.written
    BY <2>1 DEF PostInv, NotedFirst
  <2> QED BY <2>2, <2>3 DEF NotExecutedIsTrue, PostInv, Remembered
<1> QED BY PostInvariant, <1>1, PTL

-----------------------------------------------------------------------------
(* Workers: the pool of readers and the token they share.                  *)

Serving == {"working", "asking", "permitted"}
ReadPlaces == {"new", "queued", "over"} \cup Serving
ReadStates == [at : ReadPlaces, slot : Workplaces \cup {NoSlot}]
Waiting == {r \in Reads : At(r, {"queued", "working", "asking", "permitted"})}

(* Who is served has a slot, nobody else has one; a slot is free or of one.    *)
PoolInv ==
    /\ read \in [Reads -> ReadStates] /\ available \subseteq Workplaces
    /\ \A r \in Reads : read[r].at \in Serving <=> read[r].slot # NoSlot
    /\ \A i \in Workplaces : (i \in available) <=> (\A r \in Reads : read[r].slot # i)
    /\ \A r, s \in Reads : r # s /\ read[r].slot = read[s].slot => read[r].slot = NoSlot
    /\ pending = Cardinality(Waiting)

(* What the server holds is what LinkedIn gave last, or its answer was lost.   *)
TokenInv ==
    /\ token \in [age : {"fresh", "due", "expired"}, refresh : Nat]
    /\ grant.refresh \in Nat
    /\ grant = [refresh |-> grant.refresh, lost |-> grant.lost]
    /\ grant.lost = TRUE \/ token.refresh = grant.refresh

LEMMA WaitingFinite == IsFiniteSet(Waiting) /\ Cardinality(Waiting) \in Nat
  BY WorkersAssumption, FS_Subset, FS_CardinalityType DEF Waiting

LEMMA PoolInvInit == WorkersInit => PoolInv
<1> SUFFICES ASSUME WorkersInit PROVE PoolInv
  OBVIOUS
<1>1. read = [r \in Reads |-> [at |-> "new", slot |-> NoSlot]] /\ available = Workplaces /\ pending = 0
  BY DEF WorkersInit
<1>2. Waiting = {}
  BY <1>1 DEF Waiting, At
<1>3. read \in [Reads -> ReadStates]
  BY <1>1 DEF ReadStates, ReadPlaces
<1> QED BY <1>1, <1>2, <1>3, FS_EmptySet, WorkersAssumption DEF PoolInv, Serving

(* Its place is all that changes, within those that are served.              *)
LEMMA MoveKeeps ==
    ASSUME PoolInv, NEW r \in Reads, read[r].at \in Serving, NEW a \in Serving, In(r, a),
           UNCHANGED <<available, pending>>
    PROVE  PoolInv'
<1>1. read' = [read EXCEPT ![r].at = a] /\ read \in [Reads -> ReadStates]
  BY DEF In, PoolInv
<1>2. read' \in [Reads -> ReadStates]
  BY <1>1 DEF ReadStates, ReadPlaces
<1>3. \A s \in Reads : read'[s].slot = read[s].slot /\ (read'[s].at \in Serving <=> read[s].at \in Serving)
  BY <1>1 DEF ReadStates
<1>4. \A s \in Reads : s # r => read'[s] = read[s]
  BY <1>1
<1>5. Waiting' = Waiting
  <2>1. read'[r].at = a
    BY <1>1 DEF ReadStates
  <2> QED BY <2>1, <1>4 DEF Waiting, At, Serving
<1> QED BY <1>2, <1>3, <1>5 DEF PoolInv

(* The finally block gives back what the request had.                        *)
LEMMA LeavesKeeps ==
    ASSUME PoolInv, NEW r \in Reads, NEW kills \in BOOLEAN, r \in Waiting, Leaves(r, kills)
    PROVE  PoolInv'
<1>1. /\ read' = [read EXCEPT ![r] = [at |-> "over", slot |-> NoSlot]] /\ read \in [Reads -> ReadStates]
      /\ pending' = pending - 1
  BY DEF Leaves, PoolInv
<1>2. read' \in [Reads -> ReadStates]
  BY <1>1 DEF ReadStates, ReadPlaces
<1>3. /\ read'[r].slot = NoSlot /\ read'[r].at = "over"
      /\ \A s \in Reads : s # r => read'[s] = read[s]
  BY <1>1
<1>4. available' = IF read[r].slot = NoSlot THEN available ELSE available \cup {read[r].slot}
  BY DEF Leaves
<1>5. read[r].slot \in Workplaces \cup {NoSlot}
  BY <1>1 DEF ReadStates
<1>6. Waiting' = Waiting \ {r}
  BY <1>3 DEF Waiting, At
<1>7. pending' = Cardinality(Waiting')
  BY <1>1, <1>6, WaitingFinite, FS_RemoveElement DEF PoolInv
<1>8. \A s \in Reads : read'[s].at \in Serving <=> read'[s].slot # NoSlot
  BY <1>3 DEF PoolInv, Serving
<1>9. \A p, q \in Reads : p # q /\ read'[p].slot = read'[q].slot => read'[p].slot = NoSlot
  BY <1>3 DEF PoolInv
<1>10. ASSUME NEW i \in Workplaces
       PROVE  (i \in available') <=> (\A s \in Reads : read'[s].slot # i)
  <2>1. (i \in available) <=> (\A s \in Reads : read[s].slot # i)
    BY DEF PoolInv
  <2>2. i # NoSlot
    BY WorkersAssumption
  <2>3. CASE i = read[r].slot
    <3>1. i \in available'
      BY <1>4, <2>2, <2>3
    <3>2. ASSUME NEW s \in Reads PROVE read'[s].slot # i
      <4>1. CASE s = r
        BY <1>3, <2>2, <4>1
      <4>2. CASE s # r
        BY <1>3, <2>2, <2>3, <4>2 DEF PoolInv
      <4> QED BY <4>1, <4>2
    <3> QED BY <3>1, <3>2
  <2>4. CASE i # read[r].slot
    <3>1. (i \in available') <=> (i \in available)
      BY <1>4, <2>4
    <3>2. (\A s \in Reads : read'[s].slot # i) <=> (\A s \in Reads : read[s].slot # i)
      BY <1>3, <2>2, <2>4
    <3> QED BY <2>1, <3>1, <3>2
  <2> QED BY <2>3, <2>4
<1>11. available' \subseteq Workplaces
  BY <1>4, <1>5 DEF PoolInv
<1> QED BY <1>2, <1>7, <1>8, <1>9, <1>10, <1>11 DEF PoolInv

LEMMA ArriveKeeps == ASSUME PoolInv, NEW r \in Reads, Arrive(r) PROVE PoolInv'
<1>1. read \in [Reads -> ReadStates] /\ read[r].at = "new" /\ UNCHANGED available
  BY DEF PoolInv, Arrive, At
<1>2. PICK a \in {"over", "queued"} : /\ read' = [read EXCEPT ![r].at = a]
                                      /\ pending' = IF a = "queued" THEN pending + 1 ELSE pending
  BY DEF Arrive, In
<1>3. read' \in [Reads -> ReadStates]
  BY <1>1, <1>2 DEF ReadStates, ReadPlaces
<1>4. read'[r].at = a /\ read'[r].slot = read[r].slot /\ \A s \in Reads : s # r => read'[s] = read[s]
  BY <1>1, <1>2 DEF ReadStates
<1>5. read[r].slot = NoSlot
  BY <1>1 DEF PoolInv, Serving
<1>6. pending' = Cardinality(Waiting')
  <2>1. CASE a = "over"
    <3>1. Waiting' = Waiting
      BY <1>1, <1>4, <2>1 DEF Waiting, At
    <3> QED BY <1>2, <2>1, <3>1 DEF PoolInv
  <2>2. CASE a = "queued"
    <3>1. Waiting' = Waiting \cup {r} /\ r \notin Waiting
      BY <1>1, <1>4, <2>2 DEF Waiting, At
    <3> QED BY <1>2, <2>2, <3>1, WaitingFinite, FS_AddElement DEF PoolInv
  <2> QED BY <2>1, <2>2
<1>7. \A s \in Reads : read'[s].slot = read[s].slot /\ (read'[s].at \in Serving <=> read[s].at \in Serving)
  BY <1>1, <1>4 DEF Serving
<1> QED BY <1>1, <1>3, <1>6, <1>7 DEF PoolInv

LEMMA TakeSlotKeeps ==
    ASSUME PoolInv, NEW r \in Reads, NEW i \in Workplaces, TakeSlot(r, i) PROVE PoolInv'
<1>1. /\ read \in [Reads -> ReadStates] /\ read[r].at = "queued" /\ i \in available
      /\ available' = available \ {i} /\ pending' = pending
      /\ read' = [read EXCEPT ![r] = [at |-> "working", slot |-> i]]
  BY DEF PoolInv, TakeSlot, At
<1>2. read' \in [Reads -> ReadStates]
  BY <1>1 DEF ReadStates, ReadPlaces, Serving
<1>3. read'[r].at = "working" /\ read'[r].slot = i /\ \A s \in Reads : s # r => read'[s] = read[s]
  BY <1>1
<1>4. i # NoSlot /\ \A s \in Reads : read[s].slot # i
  BY <1>1, WorkersAssumption DEF PoolInv
<1>5. Waiting' = Waiting
  BY <1>1, <1>3 DEF Waiting, At
<1>6. \A s \in Reads : read'[s].at \in Serving <=> read'[s].slot # NoSlot
  BY <1>3, <1>4 DEF PoolInv, Serving
<1>7. \A p, q \in Reads : p # q /\ read'[p].slot = read'[q].slot => read'[p].slot = NoSlot
  BY <1>3, <1>4 DEF PoolInv
<1>8. read[r].slot = NoSlot
  BY <1>1 DEF PoolInv, Serving
<1>9. ASSUME NEW j \in Workplaces PROVE (j \in available') <=> (\A s \in Reads : read'[s].slot # j)
  <2>1. (j \in available) <=> (\A s \in Reads : read[s].slot # j)
    BY DEF PoolInv
  <2>2. j # NoSlot
    BY WorkersAssumption
  <2> QED BY <1>1, <1>3, <1>4, <1>8, <2>1, <2>2
<1>10. available' \subseteq Workplaces
  BY <1>1 DEF PoolInv
<1> QED BY <1>1, <1>2, <1>5, <1>6, <1>7, <1>9, <1>10 DEF PoolInv

LEMMA PoolUnchanged == PoolInv /\ UNCHANGED <<read, available, pending>> => PoolInv'
  BY DEF PoolInv, Waiting, At

LEMMA PoolKeeps == PoolInv /\ [WorkersNext]_workersVars => PoolInv'
<1> SUFFICES ASSUME PoolInv, [WorkersNext]_workersVars PROVE PoolInv'
  OBVIOUS
<1>1. ASSUME NEW r \in Reads, ReadStep(r) PROVE PoolInv'
  <2>1. CASE Arrive(r)
    BY <2>1, ArriveKeeps
  <2>2. CASE GivesUp(r)
    <3>1. r \in Waiting /\ Leaves(r, TRUE)
      BY <2>2 DEF GivesUp, Waiting
    <3> QED BY <3>1, LeavesKeeps
  <2>3. CASE AsksToken(r)
    BY <2>3, MoveKeeps DEF AsksToken, At, Serving
  <2>4. CASE AsksPermit(r)
    <3>1. CASE In(r, "working") /\ UNCHANGED <<available, pending>>
      BY <2>4, <3>1, MoveKeeps DEF AsksPermit, At, Serving
    <3>2. CASE Leaves(r, FALSE)
      <4>1. r \in Waiting
        BY <2>4 DEF AsksPermit, Waiting, At
      <4> QED BY <3>2, <4>1, LeavesKeeps
    <3> QED BY <2>4, <3>1, <3>2 DEF AsksPermit
  <2>5. CASE Results(r)
    <3>1. r \in Waiting /\ Leaves(r, FALSE)
      BY <2>5 DEF Results, Waiting, At
    <3> QED BY <3>1, LeavesKeeps
  <2>6. CASE Locks(r)
    BY <2>6, PoolUnchanged DEF Locks
  <2>7. CASE Unlocks(r)
    <3>1. CASE In(r, "permitted") /\ At(r, {"asking"}) /\ UNCHANGED <<available, pending>>
      BY <3>1, MoveKeeps DEF At, Serving
    <3>2. CASE Leaves(r, FALSE) /\ At(r, {"asking"})
      <4>1. r \in Waiting
        BY <3>2 DEF Waiting, At
      <4> QED BY <3>2, <4>1, LeavesKeeps
    <3>3. CASE UNCHANGED <<read, worker, available, pending>>
      BY <3>3, PoolUnchanged
    <3> QED BY <2>7, <3>1, <3>2, <3>3 DEF Unlocks
  <2>8. ASSUME NEW i \in Workplaces, TakeSlot(r, i) PROVE PoolInv'
    BY <2>8, TakeSlotKeeps
  <2>9. ASSUME NEW o \in Outcomes, Exchanged(r, o) PROVE PoolInv'
    BY <2>9, PoolUnchanged DEF Exchanged
  <2> QED BY <1>1, <2>1, <2>2, <2>3, <2>4, <2>5, <2>6, <2>7, <2>8, <2>9 DEF ReadStep
<1>2. ASSUME NEW i \in Workplaces, WorkerDies(i) PROVE PoolInv'
  BY <1>2, PoolUnchanged DEF WorkerDies
<1>3. CASE ClosePool \/ TokenAges \/ UNCHANGED workersVars
  BY <1>3, PoolUnchanged DEF ClosePool, TokenAges, workersVars
<1> QED BY <1>1, <1>2, <1>3 DEF WorkersNext

LEMMA TokenInvInit == WorkersInit => TokenInv
  BY DEF WorkersInit, TokenInv

LEMMA TokenKeeps == TokenInv /\ [WorkersNext]_workersVars => TokenInv'
<1> SUFFICES ASSUME TokenInv, [WorkersNext]_workersVars PROVE TokenInv'
  OBVIOUS
<1>1. CASE UNCHANGED <<token, grant>>
  BY <1>1 DEF TokenInv
<1>2. CASE TokenAges
  <2>1. /\ token'.refresh = token.refresh /\ grant' = grant
        /\ token' \in [age : {"fresh", "due", "expired"}, refresh : Nat]
    BY <1>2 DEF TokenAges, TokenInv
  <2> QED BY <2>1 DEF TokenInv
<1>3. ASSUME NEW r \in Reads, NEW o \in Outcomes, Exchanged(r, o) PROVE TokenInv'
  <2>1. CASE o = "answered"
    <3>1. /\ grant'.refresh = grant.refresh + 1 /\ token' = [age |-> "fresh", refresh |-> grant.refresh + 1]
          /\ grant' = [refresh |-> grant'.refresh, lost |-> grant'.lost]
      BY <1>3, <2>1 DEF Exchanged
    <3> QED BY <3>1 DEF TokenInv
  <2>2. CASE o = "answer lost"
    <3>1. /\ grant'.refresh = grant.refresh + 1 /\ token' = token /\ grant'.lost = TRUE
          /\ grant' = [refresh |-> grant'.refresh, lost |-> grant'.lost]
      BY <1>3, <2>2 DEF Exchanged
    <3> QED BY <3>1 DEF TokenInv
  <2>3. CASE o = "refused"
    BY <1>1, <1>3, <2>3 DEF Exchanged
  <2> QED BY <2>1, <2>2, <2>3 DEF Outcomes
<1>4. ASSUME NEW r \in Reads, ReadStep(r), \A o \in Outcomes : ~Exchanged(r, o) PROVE UNCHANGED <<token, grant>>
  BY <1>4 DEF ReadStep, Arrive, GivesUp, AsksToken, AsksPermit, Results, Locks, Unlocks, TakeSlot, TokenUntouched
<1>5. ASSUME NEW i \in Workplaces, WorkerDies(i) PROVE UNCHANGED <<token, grant>>
  BY <1>5 DEF WorkerDies, TokenUntouched
<1>6. CASE ClosePool \/ UNCHANGED workersVars
  BY <1>1, <1>6 DEF ClosePool, TokenUntouched, workersVars
<1> QED BY <1>1, <1>2, <1>3, <1>4, <1>5, <1>6 DEF WorkersNext

(* The inductive invariant of the pool and that of the tokens.                *)
THEOREM WorkersInvariant == WorkersSpec => [](PoolInv /\ TokenInv)
  BY PoolInvInit, PoolKeeps, TokenInvInit, TokenKeeps, PTL DEF WorkersSpec

(* For any requests, workers and limits: the refresh token is never lost by   *)
(* this side, every slot is free or of one request, who waits is counted.      *)
THEOREM GrantIsKept == WorkersSpec => []GrantKept
<1>1. PoolInv /\ TokenInv => GrantKept
  BY DEF PoolInv, TokenInv, GrantKept, Waiting
<1> QED BY WorkersInvariant, <1>1, PTL

-----------------------------------------------------------------------------
(* Kartei: a record is booked once, for any records, robots and amounts,   *)
(* unless a write fell on a record whose status had changed since it was   *)
(* read.                                                                   *)

Saetze == [status : {Frei, Gesperrt, Verbucht, "fehler"}, amount : Amounts, lauf : Nat, nr : BOOLEAN]
Buchungen == [times : Nat, amount : Amounts]
Haltend == {"clicks", "result", "error", "writing", "failing"}
LaufPlaces == {"over", "list", "next", "lock", "locking"} \cup Haltend
Laeufe == [at : LaufPlaces, kennung : Nat, list : SUBSET SatzIds, id : SatzIds, read : Saetze,
           nr : BOOLEAN, count : Nat]

KarteiTypes ==
    /\ satz \in [SatzIds -> Saetze] /\ gebucht \in [SatzIds -> Buchungen]
    /\ lauf \in [Roboter -> Laeufe] /\ laeufe \in Nat /\ hands \in Nat /\ raced \in SUBSET SatzIds

(* What is free was not booked, what says so was booked, and a booking has   *)
(* the amount that the record shows.                                         *)
BookedAsShown(i) ==
    /\ gebucht[i].times <= 1
    /\ gebucht[i].times > 0 => gebucht[i].amount = satz[i].amount
    /\ satz[i].status = Frei => gebucht[i].times = 0
    /\ satz[i].status = Verbucht => gebucht[i].times = 1 /\ satz[i].nr = TRUE

(* What a run knows of a record that it holds.                                *)
HeldBy(r, i) ==
    LET l == lauf[r] IN
    /\ satz[i].status = Gesperrt
    /\ l.at = "clicks" => gebucht[i].times = 0
    /\ l.at \in {"result", "writing"} => gebucht[i].times = 1
    /\ l.at \in {"clicks", "writing", "failing"} => l.read.amount = satz[i].amount

(* A record that was not written on across a change: one run holds it, and    *)
(* knows its state; nobody touches it meanwhile.                             *)
Sound(i) ==
    /\ BookedAsShown(i)
    /\ \A r \in Roboter : Holds(r, i) => HeldBy(r, i)
    /\ \A r, q \in Roboter : Holds(r, i) /\ Holds(q, i) => r = q

LocksTheFree == \A r \in Roboter : lauf[r].at = "locking" => lauf[r].read.status = Frei

KarteiInv == KarteiTypes /\ LocksTheFree /\ \A i \in SatzIds \ raced : Sound(i)

LEMMA NoLaufIsLauf == NoLauf \in Laeufe /\ NoLauf.at = "over"
<1>1. (CHOOSE i \in SatzIds : TRUE) \in SatzIds /\ (CHOOSE a \in Amounts : TRUE) \in Amounts
  BY KarteiAssumption
<1>2. \A i \in SatzIds, a \in Amounts :
        [at |-> "over", kennung |-> 0, list |-> {}, id |-> i,
         read |-> [status |-> Frei, amount |-> a, lauf |-> 0, nr |-> FALSE],
         nr |-> FALSE, count |-> 0] \in Laeufe
  BY DEF Laeufe, Saetze, LaufPlaces, Frei
<1>3. NoLauf.at = "over"
  BY DEF NoLauf
<1> QED BY <1>1, <1>2, <1>3 DEF NoLauf

LEMMA HoldingPlaces == \A r, i : Holds(r, i) <=> lauf[r].at \in Haltend /\ lauf[r].id = i
  BY DEF Holds, Haltend

LEMMA KarteiInvInit == KarteiInit => KarteiInv
<1> SUFFICES ASSUME KarteiInit PROVE KarteiInv
  OBVIOUS
<1>1. (CHOOSE a \in Amounts : TRUE) \in Amounts
  BY KarteiAssumption
<1>2. gebucht \in [SatzIds -> Buchungen] /\ \A i \in SatzIds : gebucht[i].times = 0
  BY <1>1 DEF KarteiInit, Buchungen
<1>3. satz \in [SatzIds -> Saetze] /\ \A i \in SatzIds : satz[i].status = Frei
  <2>1. ASSUME NEW s \in [status : {Frei}, amount : Amounts, lauf : {0}, nr : {FALSE}]
        PROVE  s \in Saetze /\ s.status = Frei
    <3>1. \A a \in Amounts, b \in BOOLEAN : [status |-> Frei, amount |-> a, lauf |-> 0, nr |-> b] \in Saetze
      BY DEF Saetze
    <3>2. s.amount \in Amounts /\ s = [status |-> Frei, amount |-> s.amount, lauf |-> 0, nr |-> FALSE]
      BY <2>1
    <3> QED BY <3>1, <3>2, Zenon
  <2> QED BY <2>1 DEF KarteiInit
<1>4. lauf \in [Roboter -> Laeufe] /\ \A r \in Roboter : lauf[r].at = "over"
  BY NoLaufIsLauf DEF KarteiInit
<1>5. KarteiTypes
  BY <1>2, <1>3, <1>4 DEF KarteiInit, KarteiTypes
<1>6. \A i \in SatzIds : BookedAsShown(i)
  BY <1>2, <1>3 DEF BookedAsShown, Frei, Verbucht
<1>7. LocksTheFree /\ \A r \in Roboter, i \in SatzIds : ~Holds(r, i)
  BY <1>4 DEF LocksTheFree, Holds
<1> QED BY <1>5, <1>6, <1>7 DEF KarteiInv, Sound

(* A step of one run that only changes its locals: it takes hold of nothing.  *)
LEMMA LaufStep ==
    ASSUME KarteiInv, UNCHANGED <<satz, gebucht, raced, hands>>, laeufe' \in Nat,
           NEW r \in Roboter, NEW l \in Laeufe, LaufGoes(r, l),
           l.at = "locking" => l.read.status = Frei,
           l.at \in Haltend =>
             /\ lauf[r].at \in Haltend /\ l.id = lauf[r].id
             /\ l.at = "clicks" => gebucht[l.id].times = 0
             /\ l.id \notin raced /\ l.at \in {"result", "writing"} => gebucht[l.id].times = 1
             /\ l.at \in {"clicks", "writing", "failing"} => l.read.amount = satz[l.id].amount
    PROVE  KarteiInv'
<1>1. lauf' \in [Roboter -> Laeufe] /\ lauf'[r] = l /\ \A q \in Roboter : q # r => lauf'[q] = lauf[q]
  BY DEF LaufGoes, KarteiInv, KarteiTypes
<1>2. KarteiTypes' /\ LocksTheFree'
  BY <1>1 DEF KarteiInv, KarteiTypes, LocksTheFree
<1>3. \A q \in Roboter, i \in SatzIds : Holds(q, i)' => Holds(q, i)
  <2> SUFFICES ASSUME NEW q \in Roboter, NEW i \in SatzIds, Holds(q, i)' PROVE Holds(q, i)
    OBVIOUS
  <2>0. lauf'[q].at \in Haltend /\ lauf'[q].id = i
    BY DEF Holds, Haltend
  <2>1. CASE q = r
    BY <1>1, <2>0, <2>1, HoldingPlaces
  <2>2. CASE q # r
    BY <1>1, <2>0, <2>2, HoldingPlaces
  <2> QED BY <2>1, <2>2
<1>4. ASSUME NEW i \in SatzIds \ raced, NEW q \in Roboter, Holds(q, i)' PROVE HeldBy(q, i)'
  <2>1. HeldBy(q, i) /\ lauf'[q].at \in Haltend /\ lauf'[q].id = i
    BY <1>3, <1>4 DEF KarteiInv, Sound, Holds, Haltend
  <2>2. CASE q # r
    BY <1>1, <2>1, <2>2 DEF HeldBy
  <2>3. CASE q = r
    BY <1>1, <1>4, <2>1, <2>3 DEF HeldBy
  <2> QED BY <2>2, <2>3
<1>5. \A i \in SatzIds \ raced : BookedAsShown(i)'
  BY DEF KarteiInv, Sound, BookedAsShown
<1>6. \A i \in SatzIds \ raced : Sound(i)'
  BY <1>3, <1>4, <1>5 DEF KarteiInv, Sound
<1> QED BY <1>2, <1>6 DEF KarteiInv

(* An update of its record with the amount that was read: it may arrive or    *)
(* be lost, the run goes on or ends. If nobody changed the status since, the   *)
(* record is as the run knows it.                                            *)
LEMMA UpdateKeeps ==
    ASSUME KarteiInv, NEW r \in Roboter, NEW new \in Saetze, NEW next \in Laeufe, Update(r, new, next),
           new.status # Frei, next.at \in {"over", "next", "clicks"}, next.id \in {lauf[r].id, NoLauf.id},
           LET i == lauf[r].id IN
           i \notin raced /\ satz[i].status = lauf[r].read.status =>
             /\ \A q \in Roboter : q # r => ~Holds(q, i)
             /\ gebucht[i].times > 0 => new.amount = satz[i].amount
             /\ new.status = Verbucht => gebucht[i].times = 1 /\ new.nr = TRUE
             /\ next.at = "clicks" => /\ next.id = i /\ new.status = Gesperrt
                                      /\ gebucht[i].times = 0 /\ next.read.amount = new.amount,
           next.at = "clicks" => next.id = lauf[r].id
    PROVE  KarteiInv'
<1> DEFINE i0 == lauf[r].id
<1>1. i0 \in SatzIds /\ lauf \in [Roboter -> Laeufe] /\ satz \in [SatzIds -> Saetze]
      /\ gebucht \in [SatzIds -> Buchungen]
  BY DEF KarteiInv, KarteiTypes, Laeufe
<1>2. /\ lauf' \in [Roboter -> Laeufe] /\ (lauf'[r] = next \/ lauf'[r].at = "over")
      /\ \A q \in Roboter : q # r => lauf'[q] = lauf[q]
  BY <1>1, NoLaufIsLauf DEF Update, LaufGoes
<1>3. UNCHANGED <<gebucht, laeufe, hands>>
  BY DEF Update
<1>4. \/ satz' = satz /\ raced' = raced /\ lauf'[r].at = "over"
      \/ /\ satz' \in [SatzIds -> Saetze] /\ satz'[i0] = new /\ \A i \in SatzIds : i # i0 => satz'[i] = satz[i]
         /\ raced' = IF satz[i0].status = lauf[r].read.status THEN raced ELSE raced \cup {i0}
  BY <1>1, NoLaufIsLauf DEF Update, LaufGoes
<1>5. KarteiTypes'
  BY <1>1, <1>2, <1>3, <1>4 DEF KarteiInv, KarteiTypes
<1>6. LocksTheFree'
  BY <1>2 DEF KarteiInv, LocksTheFree
<1>7. \A q \in Roboter, i \in SatzIds : Holds(q, i)' => (q # r /\ Holds(q, i)) \/ (q = r /\ i = i0 /\ lauf'[r] = next /\ next.at = "clicks")
  <2> SUFFICES ASSUME NEW q \in Roboter, NEW i \in SatzIds, Holds(q, i)'
               PROVE  (q # r /\ Holds(q, i)) \/ (q = r /\ i = i0 /\ lauf'[r] = next /\ next.at = "clicks")
    OBVIOUS
  <2>1. CASE q # r
    BY <1>2, <2>1 DEF Holds
  <2>2. CASE q = r
    <3>1. lauf'[r].at \in {"clicks", "result", "error", "writing", "failing"} /\ lauf'[r].id = i
      BY <2>2 DEF Holds
    <3>2. lauf'[r] = next /\ next.at = "clicks"
      BY <1>2, <3>1
    <3> QED BY <2>2, <3>1, <3>2
  <2> QED BY <2>1, <2>2
<1>8. ASSUME NEW i \in SatzIds, i \notin raced' PROVE Sound(i)'
  <2>0. i \notin raced /\ Sound(i)
    BY <1>4, <1>8 DEF KarteiInv
  <2>1. CASE i # i0 \/ (satz' = satz /\ lauf'[r].at = "over")
    <3>0. satz'[i] = satz[i] /\ gebucht'[i] = gebucht[i]
      BY <1>3, <1>4, <2>1
    <3>1. BookedAsShown(i)'
      BY <2>0, <3>0 DEF Sound, BookedAsShown
    <3>2. \A q \in Roboter : Holds(q, i)' => q # r /\ Holds(q, i)
      BY <1>7, <2>1
    <3>3. ASSUME NEW q \in Roboter, Holds(q, i)' PROVE HeldBy(q, i)'
      BY <1>2, <2>0, <3>0, <3>2, <3>3 DEF Sound, HeldBy
    <3>4. \A q, p \in Roboter : Holds(q, i)' /\ Holds(p, i)' => q = p
      BY <2>0, <3>2 DEF Sound
    <3> QED BY <3>1, <3>3, <3>4 DEF Sound
  <2>2. CASE i = i0 /\ satz'[i0] = new /\ satz[i0].status = lauf[r].read.status
    <3>1. /\ \A q \in Roboter : q # r => ~Holds(q, i)
          /\ gebucht[i].times > 0 => new.amount = satz[i].amount
          /\ new.status = Verbucht => gebucht[i].times = 1 /\ new.nr = TRUE
          /\ next.at = "clicks" => /\ new.status = Gesperrt
                                   /\ gebucht[i].times = 0 /\ next.read.amount = new.amount
      BY <2>0, <2>2
    <3>2. satz'[i] = new /\ gebucht'[i] = gebucht[i]
      BY <1>3, <2>2
    <3>3. BookedAsShown(i)'
      BY <2>0, <3>1, <3>2 DEF Sound, BookedAsShown
    <3>4. \A q \in Roboter : Holds(q, i)' => q = r /\ lauf'[r] = next /\ next.at = "clicks"
      BY <1>7, <3>1
    <3>5. ASSUME NEW q \in Roboter, Holds(q, i)' PROVE HeldBy(q, i)'
      <4>1. lauf'[q].at = "clicks" /\ lauf'[q].read.amount = new.amount
        BY <3>1, <3>4, <3>5
      <4> QED BY <3>1, <3>2, <3>4, <3>5, <4>1 DEF HeldBy
    <3> QED BY <3>3, <3>4, <3>5 DEF Sound
  <2>3. \/ satz' = satz /\ lauf'[r].at = "over"
        \/ satz'[i0] = new /\ (satz[i0].status = lauf[r].read.status \/ i0 \in raced')
    BY <1>4
  <2> HIDE DEF i0
  <2> QED BY <1>8, <2>1, <2>2, <2>3
<1> QED BY <1>5, <1>6, <1>8 DEF KarteiInv

LEMMA KarteiFacts ==
    ASSUME KarteiInv, NEW r \in Roboter
    PROVE  /\ satz \in [SatzIds -> Saetze] /\ gebucht \in [SatzIds -> Buchungen]
           /\ lauf \in [Roboter -> Laeufe] /\ laeufe \in Nat /\ lauf[r] \in Laeufe /\ lauf[r].id \in SatzIds
           /\ lauf[r].read \in Saetze /\ satz[lauf[r].id] \in Saetze /\ lauf[r].kennung \in Nat
           /\ lauf[r].list \in SUBSET SatzIds
           /\ lauf[r].at \in Haltend /\ lauf[r].id \notin raced =>
                HeldBy(r, lauf[r].id) /\ \A q \in Roboter : q # r => ~Holds(q, lauf[r].id)
<1>1. lauf[r] \in Laeufe /\ lauf[r].id \in SatzIds /\ lauf[r].read \in Saetze /\ lauf[r].kennung \in Nat
      /\ lauf[r].list \in SUBSET SatzIds
  BY DEF KarteiInv, KarteiTypes, Laeufe
<1>2. ASSUME lauf[r].at \in Haltend, lauf[r].id \notin raced
      PROVE  HeldBy(r, lauf[r].id) /\ \A q \in Roboter : q # r => ~Holds(q, lauf[r].id)
  <2>1. Holds(r, lauf[r].id)
    BY <1>2 DEF Holds, Haltend
  <2> QED BY <1>1, <1>2, <2>1 DEF KarteiInv, Sound
<1> QED BY <1>1, <1>2 DEF KarteiInv, KarteiTypes

(* A run that goes on to a place where it holds nothing, or ends.             *)
LEMMA QuietSteps ==
    ASSUME KarteiInv, NEW r \in Roboter, LaufEnds(r) \/ Connects(r) \/ Arbeitsliste(r) \/ NextSatz(r) \/ LockGet(r)
    PROVE  KarteiInv'
<1> USE DEF ListUntouched
<1>T. /\ lauf[r] \in Laeufe /\ laeufe \in Nat /\ satz[lauf[r].id] \in Saetze
      /\ lauf[r].list \in SUBSET SatzIds
  BY KarteiFacts
<1>1. ASSUME NEW l \in Laeufe, LaufGoes(r, l), l.at \in {"over", "list", "next", "lock", "locking"},
             l.at = "locking" => l.read.status = Frei,
             UNCHANGED <<satz, gebucht, raced, hands>>, laeufe' \in Nat
      PROVE  KarteiInv'
  BY <1>1, LaufStep DEF Haltend
<1>2. CASE LaufGoes(r, NoLauf) /\ UNCHANGED <<satz, gebucht, raced, hands, laeufe>>
  BY <1>1, <1>2, <1>T, NoLaufIsLauf
<1>3. CASE Connects(r)
  <2>1. PICK k \in 1 .. laeufe + 1 : LaufGoes(r, [NoLauf EXCEPT !.at = "list", !.kennung = k])
    BY <1>3 DEF Connects
  <2>2. k \in Nat /\ laeufe' \in Nat /\ UNCHANGED <<satz, gebucht, raced, hands>>
    <3>1. k \in Nat
      BY <2>1, <1>T
    <3>2. laeufe' = laeufe + 1 /\ UNCHANGED <<satz, gebucht, raced, hands>>
      BY <1>3 DEF Connects
    <3> QED BY <1>T, <3>1, <3>2
  <2>3. [NoLauf EXCEPT !.at = "list", !.kennung = k] \in Laeufe /\ [NoLauf EXCEPT !.at = "list", !.kennung = k].at = "list"
    BY <2>2, NoLaufIsLauf DEF Laeufe, LaufPlaces
  <2> QED BY <1>1, <2>1, <2>2, <2>3
<1>4. CASE Arbeitsliste(r)
  <2>1. ASSUME NEW found \in SUBSET WithStatus(Frei), LaufGoes(r, [lauf[r] EXCEPT !.at = "next", !.list = found])
        PROVE  KarteiInv'
    <3>1. found \in SUBSET SatzIds
      BY DEF WithStatus
    <3>2. [lauf[r] EXCEPT !.at = "next", !.list = found] \in Laeufe
      BY <3>1, <1>T DEF Laeufe, LaufPlaces
    <3>3. [lauf[r] EXCEPT !.at = "next", !.list = found].at = "next"
      BY <1>T DEF Laeufe
    <3> QED BY <1>1, <1>4, <1>T, <2>1, <3>2, <3>3 DEF Arbeitsliste
  <2> QED BY <1>2, <1>4, <2>1 DEF Arbeitsliste
<1>5. CASE NextSatz(r)
  <2>1. CASE LaufGoes(r, [lauf[r] EXCEPT !.at = "list"])
    <3>1. [lauf[r] EXCEPT !.at = "list"] \in Laeufe /\ [lauf[r] EXCEPT !.at = "list"].at = "list"
      BY <1>T DEF Laeufe, LaufPlaces
    <3> QED BY <1>1, <1>5, <1>T, <2>1, <3>1 DEF NextSatz
  <2>2. ASSUME NEW i \in lauf[r].list, LaufGoes(r, [lauf[r] EXCEPT !.at = "lock", !.id = i, !.list = @ \ {i}])
        PROVE  KarteiInv'
    <3> DEFINE rest == lauf[r].list \ {i}
               l == [lauf[r] EXCEPT !.at = "lock", !.id = i, !.list = rest]
    <3>1. i \in SatzIds /\ rest \in SUBSET SatzIds /\ LaufGoes(r, l)
      BY <1>T, <2>2
    <3> HIDE DEF rest
    <3>2. l \in Laeufe /\ l.at = "lock"
      BY <3>1, <1>T DEF Laeufe, LaufPlaces
    <3> HIDE DEF l
    <3> QED BY <1>1, <1>5, <1>T, <3>1, <3>2 DEF NextSatz
  <2> QED BY <1>5, <2>1, <2>2 DEF NextSatz
<1>6. CASE LockGet(r)
  <2>1. CASE satz[lauf[r].id].status = Frei
    <3> DEFINE l == [lauf[r] EXCEPT !.at = "locking", !.read = satz[lauf[r].id]]
    <3>1. l \in Laeufe /\ l.at = "locking" /\ l.read = satz[lauf[r].id]
      BY <1>T DEF Laeufe, LaufPlaces
    <3>2. LaufGoes(r, l) /\ UNCHANGED <<satz, gebucht, raced, hands, laeufe>>
      BY <1>6, <2>1 DEF LockGet
    <3> HIDE DEF l
    <3> QED BY <1>1, <1>T, <2>1, <3>1, <3>2
  <2> QED BY <1>2, <1>6, <2>1 DEF LockGet
<1> QED BY <1>2, <1>3, <1>4, <1>5, <1>6 DEF LaufEnds

(* Lock-JnptSatz: if the record is still free, nobody holds it.                *)
LEMMA LockStep ==
    ASSUME KarteiInv, NEW r \in Roboter, LockPut(r)
    PROVE  KarteiInv'
<1> DEFINE new == [lauf[r].read EXCEPT !.status = Gesperrt, !.lauf = lauf[r].kennung]
           next == [lauf[r] EXCEPT !.at = "clicks"]
<1>1. new \in Saetze /\ new.status = Gesperrt /\ new.amount = lauf[r].read.amount
  BY KarteiFacts DEF Saetze
<1>2. next \in Laeufe /\ next.at = "clicks" /\ next.id = lauf[r].id /\ next.read = lauf[r].read
  BY KarteiFacts DEF Laeufe, LaufPlaces, Haltend
<1>3. Update(r, new, next) /\ lauf[r].read.status = Frei
  BY DEF LockPut, KarteiInv, LocksTheFree
<1>4. ASSUME lauf[r].id \notin raced, satz[lauf[r].id].status = lauf[r].read.status
      PROVE  gebucht[lauf[r].id].times = 0 /\ \A q \in Roboter : ~Holds(q, lauf[r].id)
  <2>1. Sound(lauf[r].id) /\ satz[lauf[r].id].status = Frei
    BY <1>3, <1>4, KarteiFacts DEF KarteiInv
  <2> QED BY <2>1 DEF Sound, BookedAsShown, HeldBy, Frei, Gesperrt
<1>5. gebucht[lauf[r].id].times \in Nat
  BY KarteiFacts DEF Buchungen
<1>6. new.status # Frei /\ new.status # Verbucht
  BY <1>1 DEF Frei, Gesperrt, Verbucht
<1>7. lauf[r].id \notin raced /\ satz[lauf[r].id].status = lauf[r].read.status =>
        /\ \A q \in Roboter : q # r => ~Holds(q, lauf[r].id)
        /\ gebucht[lauf[r].id].times > 0 => new.amount = satz[lauf[r].id].amount
        /\ gebucht[lauf[r].id].times = 0
  BY <1>4, <1>5
<1> HIDE DEF new, next
<1> QED BY <1>1, <1>2, <1>3, <1>6, <1>7, UpdateKeeps

(* Only who holds a record may write on it, once it was read again.           *)
LEMMA GetSteps ==
    ASSUME KarteiInv, NEW r \in Roboter, ErgebnisGet(r) \/ FehlerGet(r)
    PROVE  KarteiInv'
<1> USE DEF ListUntouched
<1>0. UNCHANGED <<satz, gebucht, laeufe, raced, hands>> /\ laeufe \in Nat /\ lauf[r].at \in {"result", "error"}
  BY KarteiFacts DEF ErgebnisGet, FehlerGet
<1>1. CASE LaufGoes(r, NoLauf)
  BY <1>0, <1>1, NoLaufIsLauf, LaufStep DEF Haltend
<1>2. ASSUME NEW at \in {"writing", "failing"}, LaufGoes(r, [lauf[r] EXCEPT !.at = at, !.read = satz[lauf[r].id]]),
             at = "writing" => lauf[r].at = "result"
      PROVE  KarteiInv'
  <2> DEFINE l == [lauf[r] EXCEPT !.at = at, !.read = satz[lauf[r].id]]
  <2>1. l \in Laeufe /\ l.at = at /\ l.id = lauf[r].id /\ l.read = satz[lauf[r].id]
    BY KarteiFacts DEF Laeufe, LaufPlaces, Haltend
  <2>2. lauf[r].id \notin raced /\ at = "writing" => gebucht[lauf[r].id].times = 1
    BY <1>0, <1>2, KarteiFacts DEF HeldBy, Haltend
  <2>3. LaufGoes(r, l)
    BY <1>2
  <2> HIDE DEF l
  <2> QED BY <1>0, <2>1, <2>2, <2>3, LaufStep DEF Haltend
<1> QED BY <1>1, <1>2 DEF ErgebnisGet, FehlerGet

LEMMA PutSteps ==
    ASSUME KarteiInv, NEW r \in Roboter, ErgebnisPut(r) \/ FehlerPut(r)
    PROVE  KarteiInv'
<1>1. Weiter(lauf[r]) \in Laeufe /\ Weiter(lauf[r]).at \in {"over", "next"}
      /\ Weiter(lauf[r]).id \in {lauf[r].id, NoLauf.id}
  <2> DEFINE on == [lauf[r] EXCEPT !.at = "next", !.count = @ + 1, !.nr = FALSE]
  <2>1. on \in Laeufe /\ on.at = "next" /\ on.id = lauf[r].id
    <3>1. \A b \in BOOLEAN, n \in Nat : [lauf[r] EXCEPT !.at = "next", !.count = n, !.nr = b] \in Laeufe
      BY KarteiFacts DEF Laeufe, LaufPlaces
    <3>2. lauf[r].count + 1 \in Nat
      BY KarteiFacts DEF Laeufe
    <3>3. on \in Laeufe
      BY <3>1, <3>2, Zenon
    <3> QED BY KarteiFacts, <3>3 DEF Laeufe
  <2>2. Weiter(lauf[r]) \in {NoLauf, on}
    BY DEF Weiter
  <2> HIDE DEF on
  <2> QED BY <2>1, <2>2, NoLaufIsLauf
<1>2. ASSUME lauf[r].id \notin raced
      PROVE  /\ \A q \in Roboter : q # r => ~Holds(q, lauf[r].id)
             /\ lauf[r].read.amount = satz[lauf[r].id].amount
             /\ ErgebnisPut(r) => gebucht[lauf[r].id].times = 1
  BY <1>2, KarteiFacts DEF ErgebnisPut, FehlerPut, HeldBy, Haltend
<1>3. CASE ErgebnisPut(r)
  <2> DEFINE new == [lauf[r].read EXCEPT !.status = Verbucht, !.nr = TRUE]
  <2>1. new \in Saetze /\ new.status = Verbucht /\ new.amount = lauf[r].read.amount /\ new.nr = TRUE
    BY KarteiFacts DEF Saetze
  <2>2. Update(r, new, Weiter(lauf[r]))
    BY <1>3 DEF ErgebnisPut
  <2> HIDE DEF new
  <2> QED BY <1>1, <1>2, <1>3, <2>1, <2>2, UpdateKeeps DEF Frei, Verbucht
<1>4. CASE FehlerPut(r)
  <2> DEFINE new == [lauf[r].read EXCEPT !.status = "fehler"]
  <2>1. new \in Saetze /\ new.status = "fehler" /\ new.amount = lauf[r].read.amount
    BY KarteiFacts DEF Saetze
  <2>2. Update(r, new, Weiter(lauf[r]))
    BY <1>4 DEF FehlerPut
  <2> HIDE DEF new
  <2> QED BY <1>1, <1>2, <1>4, <2>1, <2>2, UpdateKeeps DEF Frei, Verbucht
<1> QED BY <1>3, <1>4

(* The clicks: what a run alone holds was not booked yet.                      *)
LEMMA ClickStep ==
    ASSUME KarteiInv, NEW r \in Roboter, Klickfolge(r)
    PROVE  KarteiInv'
<1> DEFINE i0 == lauf[r].id
           booked == [gebucht EXCEPT ![i0] = [times |-> @.times + 1, amount |-> lauf[r].read.amount]]
<1>T. /\ i0 \in SatzIds /\ satz \in [SatzIds -> Saetze] /\ gebucht \in [SatzIds -> Buchungen]
      /\ lauf \in [Roboter -> Laeufe] /\ lauf[r] \in Laeufe /\ lauf[r].at = "clicks"
      /\ UNCHANGED <<satz, laeufe, raced, hands>>
  BY KarteiFacts DEF Klickfolge
<1>1. /\ booked \in [SatzIds -> Buchungen] /\ booked[i0].times = gebucht[i0].times + 1
      /\ booked[i0].amount = lauf[r].read.amount
      /\ \A i \in SatzIds : i # i0 => booked[i] = gebucht[i]
  <2>1. gebucht[i0].times + 1 \in Nat /\ lauf[r].read.amount \in Amounts
    BY <1>T DEF Buchungen, Laeufe, Saetze
  <2> QED BY <1>T, <2>1 DEF Buchungen
<1>2. PICK at \in {"result", "error"}, nr \in BOOLEAN :
         /\ lauf' = [lauf EXCEPT ![r] = [lauf[r] EXCEPT !.at = at, !.nr = nr]]
         /\ gebucht' \in {booked, gebucht} /\ (at = "result" => gebucht' = booked)
  BY DEF Klickfolge, LaufGoes
<1>3. /\ lauf' \in [Roboter -> Laeufe] /\ lauf'[r].at = at /\ lauf'[r].id = i0
      /\ \A q \in Roboter : q # r => lauf'[q] = lauf[q]
  BY <1>2, <1>T DEF Laeufe, LaufPlaces, Haltend
<1> HIDE DEF booked
<1>4. KarteiTypes' /\ LocksTheFree'
  BY <1>1, <1>2, <1>3, <1>T DEF KarteiInv, KarteiTypes, LocksTheFree
<1>5. \A q \in Roboter, i \in SatzIds : Holds(q, i)' <=> Holds(q, i)
  <2>1. ASSUME NEW q \in Roboter, NEW i \in SatzIds PROVE Holds(q, i)' <=> Holds(q, i)
    <3>1. CASE q = r
      BY <1>T, <1>2, <1>3, <3>1 DEF Holds
    <3>2. CASE q # r
      BY <1>3, <3>2 DEF Holds
    <3> QED BY <3>1, <3>2
  <2> QED BY <2>1
<1>6. ASSUME NEW i \in SatzIds \ raced PROVE Sound(i)'
  <2>0. Sound(i)
    BY DEF KarteiInv
  <2>1. CASE i # i0
    <3>0. satz'[i] = satz[i] /\ gebucht'[i] = gebucht[i]
      BY <1>1, <1>2, <1>T, <2>1
    <3>1. BookedAsShown(i)'
      BY <2>0, <3>0 DEF Sound, BookedAsShown
    <3>2. ASSUME NEW q \in Roboter, Holds(q, i)' PROVE HeldBy(q, i)'
      <4>1. Holds(q, i) /\ q # r
        BY <1>5, <2>1, <3>2 DEF Holds
      <4> QED BY <1>3, <2>0, <3>0, <4>1 DEF Sound, HeldBy
    <3> QED BY <1>5, <2>0, <3>1, <3>2 DEF Sound
  <2>2. CASE i = i0
    <3>0. Holds(r, i) /\ HeldBy(r, i)
      BY <1>T, <2>0, <2>2 DEF Sound, Holds
    <3>1. satz[i].status = Gesperrt /\ gebucht[i].times = 0 /\ lauf[r].read.amount = satz[i].amount
      BY <1>T, <3>0 DEF HeldBy
    <3>2. BookedAsShown(i)'
      BY <1>1, <1>2, <1>T, <2>0, <2>2, <3>1 DEF Sound, BookedAsShown, Frei, Gesperrt, Verbucht
    <3>3. ASSUME NEW q \in Roboter, Holds(q, i)' PROVE HeldBy(q, i)'
      <4>1. q = r
        BY <1>5, <2>0, <3>0, <3>3 DEF Sound
      <4> QED BY <1>1, <1>2, <1>3, <1>T, <2>2, <3>1, <4>1 DEF HeldBy
    <3> QED BY <1>5, <2>0, <3>2, <3>3 DEF Sound
  <2> QED BY <2>1, <2>2
<1> QED BY <1>4, <1>6, <1>T DEF KarteiInv

(* People: a record they touch is free, or no run holds it.                   *)
LEMMA HandsKeep ==
    ASSUME KarteiInv, NEW i \in SatzIds,
           BooksByHand(i) \/ LooksInto(i) \/ (\E a \in Amounts : Corrects(i, a))
    PROVE  KarteiInv'
<1>T. /\ satz \in [SatzIds -> Saetze] /\ gebucht \in [SatzIds -> Buchungen]
      /\ lauf \in [Roboter -> Laeufe] /\ hands' \in Nat /\ UNCHANGED <<lauf, laeufe, raced>>
  BY DEF KarteiInv, KarteiTypes, BooksByHand, LooksInto, Corrects, Hand
<1>1. /\ satz' \in [SatzIds -> Saetze] /\ gebucht' \in [SatzIds -> Buchungen]
      /\ \A j \in SatzIds : j # i => satz'[j] = satz[j] /\ gebucht'[j] = gebucht[j]
  <2>1. CASE BooksByHand(i)
    <3>1. satz' = [satz EXCEPT ![i] = [satz[i] EXCEPT !.status = Verbucht, !.nr = TRUE]]
      BY <1>T, <2>1 DEF BooksByHand
    <3>2. [satz[i] EXCEPT !.status = Verbucht, !.nr = TRUE] \in Saetze
      BY <1>T DEF Saetze
    <3>3. [times |-> gebucht[i].times + 1, amount |-> satz[i].amount] \in Buchungen
      BY <1>T DEF Saetze, Buchungen
    <3>4. gebucht' = [gebucht EXCEPT ![i] = [times |-> gebucht[i].times + 1, amount |-> satz[i].amount]]
      BY <1>T, <2>1 DEF BooksByHand
    <3> QED BY <1>T, <3>1, <3>2, <3>3, <3>4
  <2>2. CASE LooksInto(i)
    <3> DEFINE new == [satz[i] EXCEPT !.status = IF gebucht[i].times > 0 THEN Verbucht ELSE Frei,
                                      !.nr = gebucht[i].times > 0]
    <3>1. satz' = [satz EXCEPT ![i] = new] /\ gebucht' = gebucht
      BY <1>T, <2>2 DEF LooksInto
    <3>2. \A b \in BOOLEAN : [satz[i] EXCEPT !.status = IF b THEN Verbucht ELSE Frei, !.nr = b] \in Saetze
      BY <1>T DEF Saetze
    <3>3. (gebucht[i].times > 0) \in BOOLEAN
      BY <1>T DEF Buchungen
    <3>4. new \in Saetze
      BY <3>2, <3>3, Zenon
    <3> HIDE DEF new
    <3> QED BY <1>T, <3>1, <3>4
  <2>3. ASSUME NEW a \in Amounts, Corrects(i, a)
        PROVE  /\ satz' \in [SatzIds -> Saetze] /\ gebucht' \in [SatzIds -> Buchungen]
               /\ \A j \in SatzIds : j # i => satz'[j] = satz[j] /\ gebucht'[j] = gebucht[j]
    BY <1>T, <2>3 DEF Corrects, Saetze
  <2> QED BY <2>1, <2>2, <2>3
<1>2. ASSUME BookedAsShown(i) PROVE BookedAsShown(i)'
  <2>1. BookedAsShown(i)
    BY <1>2
  <2>2. CASE BooksByHand(i)
    <3>1. /\ gebucht'[i].times = gebucht[i].times + 1 /\ gebucht'[i].amount = satz[i].amount
          /\ satz'[i].amount = satz[i].amount /\ satz'[i].status = Verbucht /\ satz'[i].nr = TRUE
          /\ satz[i].status = Frei
      BY <1>T, <2>2 DEF BooksByHand, Saetze, Buchungen
    <3> QED BY <2>1, <3>1 DEF BookedAsShown, Frei, Verbucht
  <2>3. CASE LooksInto(i)
    <3>1. /\ gebucht'[i] = gebucht[i] /\ satz'[i].amount = satz[i].amount
          /\ satz'[i].status = IF gebucht[i].times > 0 THEN Verbucht ELSE Frei
          /\ gebucht[i].times > 0 => satz'[i].nr = TRUE
      BY <1>T, <2>3 DEF LooksInto, Saetze
    <3>2. gebucht[i].times \in Nat
      BY <1>T DEF Buchungen
    <3> QED BY <2>1, <3>1, <3>2 DEF BookedAsShown, Frei, Verbucht
  <2>4. ASSUME NEW a \in Amounts, Corrects(i, a) PROVE BookedAsShown(i)'
    <3>1. /\ gebucht'[i] = gebucht[i] /\ satz'[i].status = Frei /\ satz[i].status = Frei
      BY <1>T, <2>4 DEF Corrects, Saetze
    <3> QED BY <2>1, <3>1 DEF BookedAsShown, Frei, Verbucht
  <2> QED BY <2>2, <2>3, <2>4
<1>3. ASSUME NEW j \in SatzIds \ raced PROVE Sound(j)'
  <2>0. Sound(j) /\ \A q \in Roboter : Holds(q, j)' <=> Holds(q, j)
    BY <1>T DEF KarteiInv, Holds
  <2>1. CASE j # i
    <3>1. satz'[j] = satz[j] /\ gebucht'[j] = gebucht[j]
      BY <1>1, <2>1
    <3>2. BookedAsShown(j)'
      BY <2>0, <3>1 DEF Sound, BookedAsShown
    <3>3. \A q \in Roboter : Holds(q, j) => HeldBy(q, j)'
      BY <1>T, <2>0, <3>1 DEF Sound, HeldBy
    <3> QED BY <2>0, <3>2, <3>3 DEF Sound
  <2>2. CASE j = i
    <3>1. \A q \in Roboter : ~Holds(q, i)
      <4>1. CASE LooksInto(i)
        BY <4>1 DEF LooksInto
      <4>2. CASE satz[i].status = Frei
        BY <2>0, <2>2, <4>2 DEF Sound, HeldBy, Frei, Gesperrt
      <4> QED BY <4>1, <4>2 DEF BooksByHand, Corrects
    <3>2. BookedAsShown(i)'
      BY <1>2, <2>0, <2>2 DEF Sound
    <3> QED BY <2>0, <2>2, <3>1, <3>2 DEF Sound
  <2> QED BY <2>1, <2>2
<1>4. KarteiTypes' /\ LocksTheFree'
  BY <1>1, <1>T DEF KarteiInv, KarteiTypes, LocksTheFree
<1> QED BY <1>3, <1>4, <1>T DEF KarteiInv

(* The inductive invariant: a record that was not written on across a change  *)
(* is booked as it shows, one run at most holds it, and knows its state.       *)
THEOREM KarteiInvariant == KarteiSpec => []KarteiInv
<1>1. KarteiInv /\ UNCHANGED karteiVars => KarteiInv'
  <2> SUFFICES ASSUME KarteiInv, UNCHANGED karteiVars PROVE KarteiInv'
    OBVIOUS
  <2> USE DEF karteiVars
  <2>1. KarteiTypes' /\ LocksTheFree'
    BY DEF KarteiInv, KarteiTypes, LocksTheFree
  <2>2. \A i \in SatzIds \ raced : Sound(i)'
    BY DEF KarteiInv, Sound, HeldBy, Holds, BookedAsShown
  <2> QED BY <2>1, <2>2 DEF KarteiInv
<1>2. ASSUME KarteiInv, NEW r \in Roboter, LaufNext(r) PROVE KarteiInv'
  BY <1>2, QuietSteps, LockStep, GetSteps, PutSteps, ClickStep DEF LaufNext
<1>3. KarteiInv /\ [KarteiNext]_karteiVars => KarteiInv'
  BY <1>1, <1>2, HandsKeep DEF KarteiNext
<1> QED BY KarteiInvInit, <1>3, PTL DEF KarteiSpec

(* Unless a write fell on a record whose status had changed since it was read,  *)
(* nothing is booked twice, and what says verbucht was booked with the amount   *)
(* it shows: for any number of robots and people.                              *)
THEOREM KarteiBooksOnce == KarteiSpec => []BookedOnce
<1>1. KarteiInv => BookedOnce
  BY DEF KarteiInv, BookedOnce, Sound, BookedAsShown
<1> QED BY KarteiInvariant, <1>1, PTL

-----------------------------------------------------------------------------
(* Ebics: keys of the bank that were compared with its letter are not      *)
(* given up for others, unless init.php writes back a file it had loaded   *)
(* before, and no statement is lost unless two fetches choose one name.    *)

Genuine(k) == k.x # Foreign /\ k.e # Foreign
KeyPairs == [x : {NoAbruf, Foreign} \cup {BankKeys[i] : i \in 1..Len(BankKeys)},
             e : {NoAbruf, Foreign} \cup {BankKeys[i] : i \in 1..Len(BankKeys)}]
HpbPlaces == {"fetched", "save", "rename"}
Keyrings == [file : {"none", "whole", "broken"}, bank : KeyPairs]
InitRuns == [at : {"idle", "sends"}, bank : KeyPairs]

KeysTypes ==
    /\ bankKeys \in 1..Len(BankKeys)
    /\ keyring \in Keyrings /\ init \in InitRuns
    /\ hpb = [at |-> hpb.at, mode |-> hpb.mode, delivered |-> hpb.delivered, old |-> hpb.old, exit |-> hpb.exit]
    /\ hpb.at \in HpbPlaces \cup {"idle"}
    /\ hpb.at \in HpbPlaces => hpb.delivered \in KeyPairs /\ hpb.delivered # NoKeys

(* A first fetch has no keys before it; keys that are taken over are those of *)
(* the letter; only a damaged file has lost the keys of the bank again, and   *)
(* none is damaged while init.php sends.                                      *)
KeysOrder ==
    /\ hpb.at \in HpbPlaces /\ hpb.mode = "erstabruf" =>
         keyring.bank = NoKeys /\ backups \subseteq {NoKeys}
    /\ hpb.at \in {"save", "rename"} /\ hpb.mode # "erstabruf" => Genuine(hpb.delivered)
    /\ keyring.file # "broken" /\ keyring.bank = NoKeys => backups \subseteq {NoKeys}
    /\ init.at = "sends" => keyring.file = "whole"
    /\ \A b \in backups \ {NoKeys} : Genuine(b) => Genuine(keyring.bank)
KeysInv == KeysTypes /\ ("keys" \notin crossed => KeysOrder)

LEMMA LetterIsGenuine ==
    ASSUME bankKeys \in 1..Len(BankKeys)
    PROVE  Letter \in KeyPairs /\ Genuine(Letter) /\ Letter.x # NoAbruf
  BY EbicsAssumption DEF Letter, KeyPairs, Genuine

LEMMA NoKeysIsGenuine == NoKeys \in KeyPairs /\ Genuine(NoKeys)
  BY DEF NoKeys, KeyPairs, Genuine, NoAbruf, Foreign

LEMMA KeysInvInit == EbicsInit => KeysInv
<1> SUFFICES ASSUME EbicsInit PROVE KeysInv
  OBVIOUS
<1>1. bankKeys = 1 /\ bankKeys \in 1..Len(BankKeys) /\ backups = {} /\ hpb = NoHpb /\ init = NoInit
  BY EbicsAssumption DEF EbicsInit
<1>2. keyring \in Keyrings /\ init \in InitRuns /\ init.at = "idle"
  <2>1. NoKeys \in KeyPairs /\ Letter \in KeyPairs
    BY <1>1, LetterIsGenuine, NoKeysIsGenuine
  <2>2. keyring = [file |-> "none", bank |-> NoKeys] \/ keyring = [file |-> "whole", bank |-> Letter]
    BY Zenon DEF EbicsInit
  <2> QED BY <1>1, <2>1, <2>2 DEF Keyrings, InitRuns, NoInit
<1>3. /\ hpb = [at |-> hpb.at, mode |-> hpb.mode, delivered |-> hpb.delivered, old |-> hpb.old, exit |-> hpb.exit]
      /\ hpb.at = "idle"
  BY <1>1 DEF NoHpb
<1> QED BY <1>1, <1>2, <1>3 DEF KeysInv, KeysTypes, KeysOrder, HpbPlaces

LEMMA KeysKeep == KeysInv /\ [EbicsNext]_ebicsVars => KeysInv'
<1> SUFFICES ASSUME KeysInv, [EbicsNext]_ebicsVars PROVE KeysInv'
  OBVIOUS
<1>g. KeysTypes /\ ("keys" \notin crossed => KeysOrder)
  BY DEF KeysInv
<1>i. /\ NoHpb = [at |-> NoHpb.at, mode |-> NoHpb.mode, delivered |-> NoHpb.delivered, old |-> NoHpb.old,
                  exit |-> NoHpb.exit]
      /\ NoHpb.at = "idle"
  BY DEF NoHpb
<1>n. NoInit \in InitRuns /\ NoInit.at = "idle"
  BY NoKeysIsGenuine DEF NoInit, InitRuns
<1>e. \A n : LET h == [NoHpb EXCEPT !.exit = n] IN
               /\ h = [at |-> h.at, mode |-> h.mode, delivered |-> h.delivered, old |-> h.old, exit |-> h.exit]
               /\ h.at = "idle"
  BY DEF NoHpb
<1>1. ASSUME hpb' = [NoHpb EXCEPT !.exit = 0] \/ \E n \in {1, 2, 4, 5} : hpb' = [NoHpb EXCEPT !.exit = n],
             UNCHANGED <<keyring, backups, init, bankKeys, crossed>>
      PROVE  KeysInv'
  <2>1. /\ hpb' = [at |-> hpb'.at, mode |-> hpb'.mode, delivered |-> hpb'.delivered, old |-> hpb'.old,
                   exit |-> hpb'.exit]
        /\ hpb'.at = "idle"
    BY <1>1, <1>e
  <2> QED BY <1>1, <1>g, <2>1 DEF KeysInv, KeysTypes, KeysOrder, HpbPlaces
<1>2. ASSUME UNCHANGED <<keyring, backups, hpb, init, bankKeys>>, "keys" \in crossed => "keys" \in crossed'
      PROVE  KeysInv'
  BY <1>2, <1>g DEF KeysInv, KeysTypes, KeysOrder
<1>3. CASE ChangeKeys
  <2>1. bankKeys' \in 1..Len(BankKeys) /\ UNCHANGED <<keyring, backups, hpb, init, crossed>>
    BY <1>3, <1>g, EbicsAssumption DEF ChangeKeys, KeysTypes
  <2> QED BY <2>1, <1>g DEF KeysInv, KeysTypes, KeysOrder
<1>4. CASE InitKeys
  <2>1. UNCHANGED <<backups, hpb, bankKeys, crossed>> /\ init.at = "idle"
    BY <1>4 DEF InitKeys
  <2>2. CASE /\ keyring.file = "none" /\ keyring' = [keyring EXCEPT !.file = "whole"]
             /\ init' = [NoInit EXCEPT !.at = "sends"]
    <3>1. /\ keyring' \in Keyrings /\ keyring'.bank = keyring.bank /\ keyring'.file = "whole"
          /\ init' \in InitRuns
      BY <1>g, <1>n, <2>2 DEF KeysTypes, Keyrings, InitRuns
    <3> QED BY <1>g, <2>1, <2>2, <3>1 DEF KeysInv, KeysTypes, KeysOrder
  <2>3. CASE keyring' = [keyring EXCEPT !.file = "broken"] /\ UNCHANGED init
    <3>1. keyring' \in Keyrings /\ keyring'.bank = keyring.bank /\ keyring'.file = "broken"
      BY <1>g, <2>3 DEF KeysTypes, Keyrings
    <3> QED BY <1>g, <2>1, <2>3, <3>1 DEF KeysInv, KeysTypes, KeysOrder
  <2>4. CASE keyring.file = "whole" /\ UNCHANGED keyring /\ init' = [at |-> "sends", bank |-> keyring.bank]
    <3>1. init' \in InitRuns
      BY <1>g, <2>4 DEF KeysTypes, Keyrings, InitRuns
    <3> QED BY <1>g, <2>1, <2>4, <3>1 DEF KeysInv, KeysTypes, KeysOrder
  <2> QED BY <1>4, <2>2, <2>3, <2>4 DEF InitKeys
<1>5. CASE InitSends
  <2>1. UNCHANGED <<backups, hpb, bankKeys>> /\ init.at = "sends" /\ init' = NoInit
    BY <1>5 DEF InitSends
  <2>2. CASE UNCHANGED <<keyring, crossed>>
    BY <1>g, <1>n, <2>1, <2>2 DEF KeysInv, KeysTypes, KeysOrder
  <2>3. CASE /\ keyring' = [file |-> "whole", bank |-> init.bank]
             /\ crossed' = IF init.bank = keyring.bank THEN crossed ELSE crossed \cup {"keys"}
    <3>1. keyring' \in Keyrings /\ keyring'.bank = init.bank /\ keyring'.file = "whole"
      BY <1>g, <2>3 DEF KeysTypes, Keyrings, InitRuns
    <3>2. KeysTypes'
      BY <1>g, <1>n, <2>1, <3>1 DEF KeysTypes
    <3>3. CASE init.bank = keyring.bank
      BY <1>g, <1>n, <2>1, <2>3, <3>1, <3>2, <3>3 DEF KeysInv, KeysOrder
    <3>4. CASE init.bank # keyring.bank
      BY <2>3, <3>2, <3>4 DEF KeysInv
    <3> QED BY <3>3, <3>4
  <2>4. CASE keyring' = [file |-> "broken", bank |-> NoKeys] /\ UNCHANGED crossed
    <3>1. keyring' \in Keyrings /\ keyring'.bank = NoKeys /\ keyring'.file = "broken"
      BY <2>4, NoKeysIsGenuine DEF Keyrings
    <3> QED BY <1>g, <1>n, <2>1, <2>4, <3>1, NoKeysIsGenuine DEF KeysInv, KeysTypes, KeysOrder
  <2> QED BY <1>5, <2>2, <2>3, <2>4 DEF InitSends
<1>6. CASE HpbChecks
  <2>1. UNCHANGED <<keyring, backups, init, bankKeys, crossed>> /\ hpb.at = "fetched"
    BY <1>6 DEF HpbChecks
  <2>2. CASE \E n \in {0, 4, 5} : hpb' = [NoHpb EXCEPT !.exit = n]
    BY <1>1, <2>1, <2>2
  <2>3. CASE /\ hpb.mode = "erstabruf" \/ UebernahmePruefen(Letter, hpb.delivered)
             /\ hpb' = [hpb EXCEPT !.at = "save"]
    <3>1. /\ hpb'.at = "save" /\ hpb'.mode = hpb.mode /\ hpb'.delivered = hpb.delivered
          /\ hpb' = [at |-> hpb'.at, mode |-> hpb'.mode, delivered |-> hpb'.delivered, old |-> hpb'.old,
                     exit |-> hpb'.exit]
      BY <1>g, <2>3 DEF KeysTypes
    <3>2. hpb.mode # "erstabruf" => Genuine(hpb.delivered)
      BY <1>g, <2>3, LetterIsGenuine DEF KeysTypes, UebernahmePruefen
    <3> QED BY <1>g, <2>1, <3>1, <3>2 DEF KeysInv, KeysTypes, KeysOrder, HpbPlaces
  <2> QED BY <1>6, <2>2, <2>3 DEF HpbChecks
<1>7. CASE HpbBackup
  <2>1. /\ hpb.at = "save" /\ backups' = backups \cup {keyring.bank} /\ hpb' = [hpb EXCEPT !.at = "rename"]
        /\ UNCHANGED <<keyring, init, bankKeys, crossed>>
    BY <1>7 DEF HpbBackup
  <2>2. /\ hpb'.at = "rename" /\ hpb'.mode = hpb.mode /\ hpb'.delivered = hpb.delivered
        /\ hpb' = [at |-> hpb'.at, mode |-> hpb'.mode, delivered |-> hpb'.delivered, old |-> hpb'.old,
                   exit |-> hpb'.exit]
    BY <1>g, <2>1 DEF KeysTypes
  <2> QED BY <1>g, <2>1, <2>2 DEF KeysInv, KeysTypes, KeysOrder, HpbPlaces
<1>8. CASE HpbRename
  <2>1. /\ hpb.at = "rename" /\ keyring' = [file |-> "whole", bank |-> hpb.delivered] /\ hpb' = NoHpb
        /\ UNCHANGED <<backups, init, bankKeys, crossed>>
    BY <1>8 DEF HpbRename
  <2>2. /\ keyring' \in Keyrings /\ keyring'.bank = hpb.delivered /\ keyring'.file = "whole"
        /\ hpb.delivered # NoKeys
    BY <1>g, <2>1 DEF KeysTypes, Keyrings, HpbPlaces
  <2>3. KeysOrder => \A b \in backups \ {NoKeys} : Genuine(b) => Genuine(hpb.delivered)
    <3>1. CASE hpb.mode = "erstabruf"
      BY <2>1, <3>1 DEF KeysOrder, HpbPlaces
    <3>2. CASE hpb.mode # "erstabruf"
      BY <2>1, <3>2 DEF KeysOrder
    <3> QED BY <3>1, <3>2
  <2> QED BY <1>g, <1>i, <2>1, <2>2, <2>3 DEF KeysInv, KeysTypes, KeysOrder, HpbPlaces
<1>9. CASE HpbFails
  BY <1>1, <1>9 DEF HpbFails
<1>10. ASSUME NEW m \in {"erstabruf", "pruefen", "uebernehmen"}, NEW a \in Answers, HpbStart(m, a) PROVE KeysInv'
  <2>1. UNCHANGED <<keyring, backups, init, bankKeys, crossed>> /\ keyring.file = "whole"
    BY <1>10 DEF HpbStart
  <2>2. CASE hpb' = [NoHpb EXCEPT !.exit = 1]
    BY <1>1, <2>1, <2>2
  <2>3. CASE /\ hpb' = [at |-> "fetched", mode |-> m, delivered |-> a, old |-> keyring.bank, exit |-> 0]
             /\ m = "erstabruf" => keyring.bank = NoKeys
    <3>1. /\ hpb'.at = "fetched" /\ hpb'.mode = m /\ hpb'.delivered = a
          /\ hpb' = [at |-> hpb'.at, mode |-> hpb'.mode, delivered |-> hpb'.delivered, old |-> hpb'.old,
                     exit |-> hpb'.exit]
      BY <2>3
    <3>2. Letter \in KeyPairs /\ Letter.x # NoAbruf
      BY <1>g, LetterIsGenuine DEF KeysTypes
    <3>3. a \in KeyPairs /\ a # NoKeys
      <4>1. a.x # NoAbruf
        BY <3>2 DEF Answers, Foreign, NoAbruf
      <4>2. NoKeys.x = NoAbruf
        BY DEF NoKeys
      <4>3. a \in KeyPairs
        BY <3>2 DEF Answers, KeyPairs
      <4> QED BY <4>1, <4>2, <4>3
    <3> QED BY <1>g, <2>1, <2>3, <3>1, <3>3 DEF KeysInv, KeysTypes, KeysOrder, HpbPlaces
  <2> QED BY <1>10, <2>2, <2>3 DEF HpbStart
<1>11. ASSUME NEW r \in Abrufe, FetchStep(r) PROVE KeysInv'
  <2>1. KeysUntouched
    BY <1>11 DEF FetchStep, Order, Place, WriteTeil, Rename, Undo, Killed, Start, Receipt
  <2>2. crossed' = crossed \/ crossed' = crossed \cup {"names"}
    <3>1. CASE Place(r)
      BY <3>1 DEF Place
    <3>2. CASE ~Place(r)
      BY <1>11, <3>2 DEF FetchStep, Order, WriteTeil, Rename, Undo, Killed, Start, Receipt
    <3> QED BY <3>1, <3>2
  <2> QED BY <1>2, <2>1, <2>2 DEF KeysUntouched
<1>12. ASSUME NEW s \in Statements, Issue(s) PROVE KeysInv'
  BY <1>2, <1>12 DEF Issue, KeysUntouched
<1>13. CASE UNCHANGED ebicsVars
  BY <1>2, <1>13 DEF ebicsVars
<1> QED BY <1>3, <1>4, <1>5, <1>6, <1>7, <1>8, <1>9, <1>10, <1>11, <1>12, <1>13 DEF EbicsNext, FetchNext, KeysNext

(* What a run of fetch.php knows at each of its places, given the directory    *)
(* and the hidden files: what it has to store covers what it has fetched; the    *)
(* files before the present one are its own; the name it has found is free and    *)
(* its hidden file is whole. Its own files are those it may still remove.         *)
Pieces == Statements \cup {NoAbruf}
Dirs == [Paths -> Pieces]
FetchPlaces == {"idle", "order", "place", "write", "rename", "undo", "receipt"}
AbrufKind == [at : FetchPlaces, window : BOOLEAN, keys : KeyPairs, order : SUBSET Statements,
              todo : Seq(Statements), i : Nat \ {0}, path : Paths \cup {<<1, 1>>},
              written : SUBSET Paths, ok : BOOLEAN, exit : Nat]
AbrufShape(f) == f \in AbrufKind /\ (f.at \in {"idle", "order"} => f.written = {} /\ f.i = 1)
Own(f) == IF f.at \in {"place", "write", "rename", "undo"} THEN f.written ELSE {}
Named(f) == f.at \in {"write", "rename"}
Covers(f) == /\ Len(f.todo) <= Cardinality(Statements)
             /\ \A s \in f.order \ Unreadable : \E j \in 1..Len(f.todo) : f.todo[j] = s
StoredUpTo(f, dir) ==
    /\ f.i <= Len(f.todo) + 1
    /\ \A j \in 1..Len(f.todo) : j < f.i => \E p \in f.written : dir[p] = f.todo[j]
NameIsFree(f, dir) == f.i <= Len(f.todo) /\ f.path \in Paths /\ dir[f.path] = NoAbruf
RunFits(f, dir, hidden) ==
    /\ f.at \in {"place", "write", "rename"} => Covers(f) /\ StoredUpTo(f, dir)
    /\ Named(f) => NameIsFree(f, dir)
    /\ f.at = "rename" => hidden[f.path] = f.todo[f.i]
    /\ \A p \in Own(f) : dir[p] # NoAbruf

(* A statement lies where no run removes it.                                     *)
Safe(s, dir, runs) == \E p \in Paths : dir[p] = s /\ \A r \in Abrufe : p \notin Own(runs[r])
FetchTypes ==
    /\ shelf \in Dirs /\ teil \in Dirs /\ bankNew \subseteq Statements /\ bankDone \subseteq Statements
    /\ abruf = [r \in Abrufe |-> abruf[r]]
    /\ \A r \in Abrufe : AbrufShape(abruf[r])
(* What runs that overlap owe each other, while no two have chosen one name.       *)
Apart(runs) ==
    \A q, r \in Abrufe : q # r =>
      /\ Own(runs[q]) \cap Own(runs[r]) = {}
      /\ ~(Named(runs[q]) /\ Named(runs[r]) /\ runs[q].path = runs[r].path)
Delivered(done, dir, runs) == \A s \in done \ Unreadable : Safe(s, dir, runs)
Receiptable(f, dir, runs) ==
    f.at = "receipt" /\ f.ok = TRUE => \A s \in f.order \ Unreadable : Safe(s, dir, runs)
FetchInv ==
    /\ FetchTypes /\ Apart(abruf) /\ Delivered(bankDone, shelf, abruf)
    /\ \A r \in Abrufe : RunFits(abruf[r], shelf, teil) /\ Receiptable(abruf[r], shelf, abruf)

LEMMA RestingShape ==
    Resting \in AbrufKind /\ Resting.at = "idle" /\ Resting.written = {} /\ Resting.i = 1
<1>1. NoKeys \in KeyPairs /\ <<>> \in Seq(Statements)
  BY DEF NoKeys, KeyPairs
<1>2. Resting \in AbrufKind
  BY <1>1 DEF AbrufKind, Resting, FetchPlaces
<1> QED BY <1>2 DEF Resting

LEMMA RestingFits ==
    ASSUME NEW code \in Nat
    PROVE  LET g == [Resting EXCEPT !.exit = code] IN
           AbrufShape(g) /\ g.at = "idle" /\ g.written = {}
BY RestingShape DEF AbrufShape, AbrufKind

(* What a run may touch: its own files, and the name it has chosen, which no other  *)
(* run has. So the others keep what they know.                                    *)
MayTouch(f) == IF Named(f) THEN Own(f) \cup {f.path} ELSE Own(f)
LEMMA RunGoes ==
    ASSUME FetchInv, NEW r \in Abrufe, NEW g, abruf' = [abruf EXCEPT ![r] = g],
           AbrufShape(g), RunFits(g, shelf', teil'),
           shelf' \in Dirs, teil' \in Dirs, bankNew' \subseteq Statements, bankDone' \subseteq Statements,
           \A p \in Paths : p \notin MayTouch(abruf[r]) => shelf'[p] = shelf[p],
           \A p \in Paths : ~(Named(abruf[r]) /\ p = abruf[r].path) => teil'[p] = teil[p],
           Own(g) \subseteq MayTouch(abruf[r]),
           Named(g) => \/ Named(abruf[r]) /\ g.path = abruf[r].path
                       \/ \A q \in Abrufe \ {r} : Named(abruf[q]) => abruf[q].path # g.path,
           \A s \in bankDone' \ Unreadable : s \in bankDone \/ Safe(s, shelf, abruf),
           g.at = "receipt" /\ g.ok = TRUE =>
             \A s \in g.order \ Unreadable : \E p \in Own(abruf[r]) : shelf'[p] = s
    PROVE  FetchInv'
<1> DEFINE f == abruf[r]
<1>1. /\ abruf' = [q \in Abrufe |-> abruf'[q]] /\ abruf'[r] = g
      /\ \A q \in Abrufe \ {r} : abruf'[q] = abruf[q]
  BY DEF FetchInv, FetchTypes
<1>2. FetchTypes'
  BY <1>1 DEF FetchInv, FetchTypes
<1>3. \A q \in Abrufe : AbrufShape(abruf[q]) /\ RunFits(abruf[q], shelf, teil)
  BY DEF FetchInv, FetchTypes
<1>4. \A q \in Abrufe : Own(abruf[q]) \subseteq Paths
  BY <1>3 DEF AbrufShape, AbrufKind, Own
<1>5. Named(f) => f.path \in Paths /\ shelf[f.path] = NoAbruf
  BY <1>3 DEF RunFits, NameIsFree
<1>6. \A q \in Abrufe \ {r} : Own(abruf[q]) \cap MayTouch(f) = {}
  <2> SUFFICES ASSUME NEW q \in Abrufe \ {r}, NEW p \in Own(abruf[q]) PROVE p \notin MayTouch(f)
    OBVIOUS
  <2>1. p \notin Own(f)
    BY DEF FetchInv, Apart
  <2>2. shelf[p] # NoAbruf
    BY <1>3 DEF RunFits
  <2> QED BY <1>5, <2>1, <2>2 DEF MayTouch
<1>7. Apart(abruf')
  <2>1. \A q \in Abrufe \ {r} : Own(abruf[q]) \cap Own(g) = {}
    BY <1>6
  <2>2. \A q \in Abrufe \ {r} : ~(Named(abruf[q]) /\ Named(g) /\ abruf[q].path = g.path)
    BY DEF FetchInv, Apart
  <2> SUFFICES ASSUME NEW q \in Abrufe, NEW o \in Abrufe, q # o
               PROVE  /\ Own(abruf'[q]) \cap Own(abruf'[o]) = {}
                      /\ ~(Named(abruf'[q]) /\ Named(abruf'[o]) /\ abruf'[q].path = abruf'[o].path)
    BY DEF Apart
  <2>3. CASE q = r
    BY <1>1, <2>1, <2>2, <2>3
  <2>4. CASE o = r
    BY <1>1, <2>1, <2>2, <2>4
  <2>5. CASE q # r /\ o # r
    BY <1>1, <2>5 DEF FetchInv, Apart
  <2> QED BY <2>3, <2>4, <2>5
<1>8. ASSUME NEW s \in Statements, Safe(s, shelf, abruf) PROVE Safe(s, shelf', abruf')
  <2>1. PICK p \in Paths : shelf[p] = s /\ \A q \in Abrufe : p \notin Own(abruf[q])
    BY <1>8 DEF Safe
  <2>2. shelf[p] # NoAbruf
    BY <2>1, EbicsAssumption
  <2>3. p \notin MayTouch(f)
    BY <1>5, <2>1, <2>2 DEF MayTouch
  <2> QED BY <1>1, <2>1, <2>3 DEF Safe
<1>9. Delivered(bankDone', shelf', abruf')
  <2>1. \A s \in bankDone' \ Unreadable : Safe(s, shelf, abruf) /\ s \in Statements
    BY DEF FetchInv, Delivered
  <2> QED BY <1>8, <2>1 DEF Delivered
<1>10. ASSUME NEW q \in Abrufe PROVE Receiptable(abruf'[q], shelf', abruf')
  <2>1. CASE q # r
    <3>1. abruf'[q] = abruf[q] /\ abruf[q].order \subseteq Statements
      BY <1>1, <1>3, <2>1 DEF AbrufShape, AbrufKind
    <3>2. Receiptable(abruf[q], shelf, abruf)
      BY DEF FetchInv
    <3> QED BY <1>8, <3>1, <3>2 DEF Receiptable
  <2>2. CASE q = r
    <3> SUFFICES ASSUME g.at = "receipt", g.ok = TRUE, NEW s \in g.order \ Unreadable
                 PROVE  Safe(s, shelf', abruf')
      BY <1>1, <2>2 DEF Receiptable
    <3>1. PICK p \in Own(f) : shelf'[p] = s
      OBVIOUS
    <3>2. Own(g) = {} /\ p \in Paths
      BY <1>4 DEF Own
    <3>3. p \in MayTouch(f)
      BY DEF MayTouch
    <3>4. \A o \in Abrufe \ {r} : p \notin Own(abruf[o])
      BY <1>6, <3>3
    <3> QED BY <1>1, <3>1, <3>2, <3>4 DEF Safe
  <2> QED BY <2>1, <2>2
<1>11. ASSUME NEW q \in Abrufe PROVE RunFits(abruf'[q], shelf', teil')
  <2>1. CASE q = r
    BY <1>1, <2>1
  <2>2. CASE q # r
    <3> DEFINE h == abruf[q]
    <3>1. abruf'[q] = h /\ RunFits(h, shelf, teil) /\ AbrufShape(h)
      BY <1>1, <1>3, <2>2
    <3>2. \A p \in Own(h) : p \in Paths /\ shelf'[p] = shelf[p]
      BY <1>4, <1>6, <2>2
    <3>3. Named(h) => /\ h.path \in Paths /\ shelf[h.path] = NoAbruf
                      /\ ~(Named(f) /\ h.path = f.path)
      BY <2>2, <3>1 DEF RunFits, NameIsFree, FetchInv, Apart
    <3>4. Named(h) => h.path \notin Own(f)
      BY <1>3, <3>3 DEF RunFits
    <3>5. Named(h) => shelf'[h.path] = shelf[h.path] /\ teil'[h.path] = teil[h.path]
      BY <3>3, <3>4 DEF MayTouch
    <3>6. h.at \in {"place", "write", "rename"} => Own(h) = h.written
      BY DEF Own
    <3>7. h.at = "rename" => Named(h)
      BY DEF Named
    <3> HIDE DEF f, h
    <3> QED BY <3>1, <3>2, <3>5, <3>6, <3>7 DEF RunFits, StoredUpTo, NameIsFree
  <2> QED BY <2>1, <2>2
<1> QED BY <1>1, <1>2, <1>7, <1>9, <1>10, <1>11 DEF FetchInv

(* A run that ends leaves the directory as it is.                                *)
LEMMA RunEnds ==
    ASSUME FetchInv, NEW r \in Abrufe, NEW code \in Nat, ExitsWith(r, code),
           UNCHANGED <<shelf, teil, bankNew, bankDone>>
    PROVE  FetchInv'
<1> DEFINE g == [Resting EXCEPT !.exit = code]
<1>1. AbrufShape(g) /\ g.at = "idle" /\ g.written = {} /\ abruf' = [abruf EXCEPT ![r] = g]
  BY RestingFits DEF ExitsWith, EbicsGoes
<1> HIDE DEF g
<1>2. RunFits(g, shelf', teil') /\ Own(g) = {} /\ ~Named(g)
  BY <1>1 DEF RunFits, Own, Named
<1> QED BY <1>1, <1>2, RunGoes DEF FetchInv, FetchTypes

(* A run whose step touches no file, and that has no more files than before.        *)
LEMMA RunThinks ==
    ASSUME FetchInv, NEW r \in Abrufe, NEW g, EbicsGoes(r, g), AbrufShape(g),
           UNCHANGED <<shelf, bankNew, bankDone>>, teil' \in Dirs, RunFits(g, shelf', teil'),
           \A p \in Paths : ~(Named(abruf[r]) /\ p = abruf[r].path) => teil'[p] = teil[p],
           Own(g) \subseteq Own(abruf[r]), g.at # "receipt",
           Named(g) => \/ Named(abruf[r]) /\ g.path = abruf[r].path
                       \/ \A q \in Abrufe \ {r} : Named(abruf[q]) => abruf[q].path # g.path
    PROVE  FetchInv'
<1>1. Own(g) \subseteq MayTouch(abruf[r]) /\ abruf' = [abruf EXCEPT ![r] = g]
  BY DEF MayTouch, EbicsGoes
<1>2. shelf' \in Dirs /\ bankNew' \subseteq Statements /\ bankDone' \subseteq Statements
  BY DEF FetchInv, FetchTypes
<1> QED BY <1>1, <1>2, RunGoes

LEMMA StartShelves ==
    ASSUME FetchInv, keyring.bank \in KeyPairs,
           NEW r \in Abrufe, NEW window \in BOOLEAN, NEW ok \in BOOLEAN, Start(r, window, ok)
    PROVE  FetchInv'
<1>1. UNCHANGED <<shelf, teil, bankNew, bankDone>>
  BY DEF Start
<1> DEFINE g == [Resting EXCEPT !.at = "order", !.window = window, !.keys = keyring.bank]
<1>3. CASE EbicsGoes(r, g)
  <2>1. AbrufShape(g) /\ g.at = "order" /\ g.written = {}
    BY RestingShape DEF AbrufShape, AbrufKind, FetchPlaces
  <2>2. EbicsGoes(r, g)
    BY <1>3
  <2> HIDE DEF g
  <2>3. RunFits(g, shelf', teil') /\ Own(g) = {} /\ ~Named(g)
    BY <2>1 DEF RunFits, Own, Named
  <2>4. teil' \in Dirs
    BY <1>1 DEF FetchInv, FetchTypes
  <2> QED BY <1>1, <2>1, <2>2, <2>3, <2>4, RunThinks
<1>4. CASE ExitsWith(r, 1)
  BY <1>1, <1>4, RunEnds
<1>5. EbicsGoes(r, g) \/ ExitsWith(r, 1)
  BY DEF Start
<1> HIDE DEF g
<1> QED BY <1>3, <1>4, <1>5

LEMMA OrderShelves ==
    ASSUME FetchInv, NEW r \in Abrufe, Order(r)
    PROVE  FetchInv'
<1> DEFINE f == abruf[r]
<1>1. f.at = "order"
  BY DEF Order
<1>2. UNCHANGED <<shelf, teil, bankNew, bankDone>>
  BY DEF Order
<1>3. ASSUME NEW set \in Offered(r), NEW todo \in Orders(Inhalte(set)),
             EbicsGoes(r, [f EXCEPT !.at = "place", !.order = set, !.todo = todo])
      PROVE  FetchInv'
  <2> DEFINE g == [f EXCEPT !.at = "place", !.order = set, !.todo = todo]
             n == Cardinality(Inhalte(set))
  <2>1. set \subseteq Statements /\ Inhalte(set) \subseteq Statements
    BY DEF Offered, Inhalte, FetchInv, FetchTypes
  <2>2. n \in Nat /\ n <= Cardinality(Statements)
    BY <2>1, EbicsAssumption, FS_Subset, FS_CardinalityType
  <2>3. todo \in [1..n -> Inhalte(set)] /\ \A s \in Inhalte(set) : \E i \in DOMAIN todo : todo[i] = s
    BY DEF Orders
  <2> HIDE DEF n
  <2>4. todo \in Seq(Statements) /\ Len(todo) = n
    BY <2>1, <2>2, <2>3
  <2>5. /\ AbrufShape(f) /\ f.written = {} /\ f.i = 1
    BY <1>1 DEF FetchInv, FetchTypes, AbrufShape
  <2>e. EbicsGoes(r, g)
    BY <1>3
  <2> HIDE DEF f
  <2>6. AbrufShape(g) /\ g.at = "place" /\ g.order = set /\ g.todo = todo /\ g.i = 1 /\ g.written = {}
    BY <2>1, <2>4, <2>5 DEF AbrufShape, AbrufKind, FetchPlaces
  <2> HIDE DEF g
  <2>7. Covers(g) /\ StoredUpTo(g, shelf')
    BY <2>2, <2>3, <2>4, <2>6 DEF Covers, StoredUpTo, Inhalte
  <2>8. RunFits(g, shelf', teil') /\ Own(g) = {} /\ ~Named(g)
    BY <2>6, <2>7 DEF RunFits, Own, Named
  <2>9. teil' \in Dirs
    BY <1>2 DEF FetchInv, FetchTypes
  <2> QED BY <1>2, <2>e, <2>6, <2>8, <2>9, RunThinks
<1>4. \/ \E code \in Nat : ExitsWith(r, code)
      \/ \E set \in Offered(r) : \E todo \in Orders(Inhalte(set)) :
           EbicsGoes(r, [f EXCEPT !.at = "place", !.order = set, !.todo = todo])
  BY DEF Order
<1> QED BY <1>1, <1>2, <1>3, <1>4, RunEnds

(* To give up the files of a run does not need the directory.                    *)
LEMMA UndoesShelves ==
    ASSUME FetchInv, NEW r \in Abrufe, Undoes(r), abruf[r].at \in {"place", "write", "rename"},
           UNCHANGED <<shelf, bankNew, bankDone>>, teil' \in Dirs,
           \A p \in Paths : ~(Named(abruf[r]) /\ p = abruf[r].path) => teil'[p] = teil[p]
    PROVE  FetchInv'
<1> DEFINE f == abruf[r]
           g == [f EXCEPT !.at = "undo"]
<1>1. EbicsGoes(r, g)
  BY DEF Undoes
<1>2. AbrufShape(f) /\ Own(f) = f.written /\ \A p \in Own(f) : shelf[p] # NoAbruf
  BY DEF FetchInv, FetchTypes, RunFits, Own
<1>t. \A p \in Paths : ~(Named(f) /\ p = f.path) => teil'[p] = teil[p]
  OBVIOUS
<1>u. f = abruf[r]
  OBVIOUS
<1> HIDE DEF f
<1>3. AbrufShape(g) /\ g.at = "undo" /\ g.written = f.written
  BY <1>2 DEF AbrufShape, AbrufKind, FetchPlaces
<1> HIDE DEF g
<1>4. RunFits(g, shelf', teil') /\ Own(g) = Own(f) /\ ~Named(g)
  BY <1>2, <1>3 DEF RunFits, Own, Named
<1> QED BY <1>1, <1>3, <1>4, <1>u, RunThinks

LEMMA PlaceShelves ==
    ASSUME FetchInv, NEW r \in Abrufe, Place(r), "names" \notin crossed'
    PROVE  FetchInv'
<1> DEFINE f == abruf[r]
<1>1. f.at = "place"
  BY DEF Place
<1>2. UNCHANGED <<shelf, teil, bankNew, bankDone>> /\ teil' \in Dirs /\ shelf' \in Dirs
  BY DEF Place, FetchInv, FetchTypes
<1>3. AbrufShape(f) /\ RunFits(f, shelf, teil) /\ Own(f) = f.written
  BY <1>1 DEF FetchInv, FetchTypes, Own
<1>4. Covers(f) /\ StoredUpTo(f, shelf)
  BY <1>1, <1>3 DEF RunFits
<1>u. f = abruf[r]
  OBVIOUS
<1>5. CASE f.i > Len(f.todo) /\ EbicsGoes(r, [f EXCEPT !.at = "receipt"])
  <2> DEFINE g == [f EXCEPT !.at = "receipt"]
  <2>1. abruf' = [abruf EXCEPT ![r] = g]
    BY <1>5 DEF EbicsGoes
  <2>s. \A s \in f.order \ Unreadable : \E p \in f.written : shelf[p] = s
    <3>1. \A j \in 1..Len(f.todo) : j < f.i
      BY <1>3, <1>5 DEF AbrufShape, AbrufKind
    <3> QED BY <1>4, <3>1 DEF Covers, StoredUpTo
  <2> HIDE DEF f
  <2>2. AbrufShape(g) /\ g.at = "receipt" /\ g.order = f.order
    BY <1>1, <1>3 DEF AbrufShape, AbrufKind, FetchPlaces
  <2> HIDE DEF g
  <2>3. RunFits(g, shelf', teil') /\ Own(g) = {} /\ ~Named(g)
    BY <2>2 DEF RunFits, Own, Named
  <2>4. \A s \in g.order \ Unreadable : \E p \in Own(abruf[r]) : shelf'[p] = s
    BY <1>2, <1>3, <1>u, <2>s, <2>2
  <2> QED BY <1>2, <2>1, <2>2, <2>3, <2>4, RunGoes DEF FetchInv, FetchTypes
<1>6. CASE Undoes(r)
  BY <1>1, <1>2, <1>6, UndoesShelves
<1>7. ASSUME f.i <= Len(f.todo), NEW n \in Free(f.i),
             EbicsGoes(r, [f EXCEPT !.at = "write", !.path = <<f.i, n>>]),
             ~\E q \in Abrufe \ {r} : Chosen(q, <<f.i, n>>)
      PROVE  FetchInv'
  <2> DEFINE at == <<f.i, n>>
             g == [f EXCEPT !.at = "write", !.path = at]
  <2>1. EbicsGoes(r, g)
    BY <1>7
  <2>2. f.i \in 1..Cardinality(Statements)
    BY <1>3, <1>4, <1>7, FS_CardinalityType, EbicsAssumption DEF Covers, AbrufShape, AbrufKind
  <2>3. at \in Paths /\ shelf[at] = NoAbruf
    BY <1>7, <2>2 DEF Free, Paths
  <2>4. \A q \in Abrufe \ {r} : Named(abruf[q]) => abruf[q].path # at
    BY <1>7 DEF Chosen, Named
  <2>5. f.i <= Len(f.todo)
    BY <1>7
  <2> HIDE DEF f, at
  <2>6. /\ AbrufShape(g) /\ g.at = "write" /\ g.written = f.written
        /\ g.todo = f.todo /\ g.i = f.i /\ g.order = f.order /\ g.path = at
    BY <1>1, <1>3, <2>3 DEF AbrufShape, AbrufKind, FetchPlaces
  <2> HIDE DEF g
  <2>7. Own(g) = Own(f)
    BY <1>3, <2>6 DEF Own
  <2>8. RunFits(g, shelf', teil')
    BY <1>2, <1>3, <1>4, <2>3, <2>5, <2>6, <2>7 DEF RunFits, Covers, StoredUpTo, NameIsFree
  <2> QED BY <1>2, <1>u, <2>1, <2>4, <2>6, <2>7, <2>8, RunThinks
<1>8. ASSUME NEW n \in Free(f.i),
             crossed' = IF \E q \in Abrufe \ {r} : Chosen(q, <<f.i, n>>)
                        THEN crossed \cup {"names"} ELSE crossed
      PROVE  ~\E q \in Abrufe \ {r} : Chosen(q, <<f.i, n>>)
  BY <1>8
<1> QED BY <1>5, <1>6, <1>7, <1>8 DEF Place

LEMMA WriteShelves ==
    ASSUME FetchInv, NEW r \in Abrufe, WriteTeil(r)
    PROVE  FetchInv'
<1> DEFINE f == abruf[r]
<1>1. f.at = "write" /\ Named(f)
  BY DEF WriteTeil, Named
<1>2. UNCHANGED <<shelf, bankNew, bankDone>>
  BY DEF WriteTeil
<1>3. AbrufShape(f) /\ RunFits(f, shelf, teil) /\ shelf \in Dirs /\ teil \in Dirs
  BY DEF FetchInv, FetchTypes
<1>u. f = abruf[r]
  OBVIOUS
<1>4. CASE teil' = [teil EXCEPT ![f.path] = f.todo[f.i]] /\ EbicsGoes(r, [f EXCEPT !.at = "rename"])
  <2> DEFINE g == [f EXCEPT !.at = "rename"]
  <2>1. EbicsGoes(r, g)
    BY <1>4
  <2> HIDE DEF f
  <2>2. /\ AbrufShape(g) /\ g.at = "rename" /\ g.written = f.written
        /\ g.todo = f.todo /\ g.i = f.i /\ g.order = f.order /\ g.path = f.path
    BY <1>1, <1>3 DEF AbrufShape, AbrufKind, FetchPlaces
  <2>3. Covers(f) /\ StoredUpTo(f, shelf) /\ NameIsFree(f, shelf) /\ \A p \in Own(f) : shelf[p] # NoAbruf
    BY <1>1, <1>3 DEF RunFits
  <2>4. f.todo[f.i] \in Statements
    BY <1>3, <2>3 DEF AbrufShape, AbrufKind, NameIsFree
  <2>5. /\ teil' \in Dirs /\ teil'[f.path] = f.todo[f.i]
        /\ \A p \in Paths : p # f.path => teil'[p] = teil[p]
    BY <1>3, <1>4, <2>3, <2>4 DEF Dirs, Pieces, NameIsFree
  <2> HIDE DEF g
  <2>6. Own(g) = Own(f) /\ Named(g)
    BY <1>1, <2>2 DEF Own, Named
  <2>7. RunFits(g, shelf', teil')
    BY <1>2, <2>2, <2>3, <2>5, <2>6 DEF RunFits, Covers, StoredUpTo, NameIsFree
  <2> QED BY <1>1, <1>2, <1>u, <2>1, <2>2, <2>5, <2>6, <2>7, RunThinks
<1>5. CASE Undoes(r) /\ UNCHANGED teil
  BY <1>1, <1>2, <1>3, <1>5, UndoesShelves
<1> QED BY <1>4, <1>5 DEF WriteTeil

LEMMA RenameShelves ==
    ASSUME FetchInv, NEW r \in Abrufe, Rename(r)
    PROVE  FetchInv'
<1> DEFINE f == abruf[r]
<1>1. f.at = "rename" /\ Named(f) /\ Own(f) = f.written
  BY DEF Rename, Named, Own
<1>2. UNCHANGED <<bankNew, bankDone>>
  BY DEF Rename
<1>3. AbrufShape(f) /\ RunFits(f, shelf, teil) /\ shelf \in Dirs /\ teil \in Dirs
  BY DEF FetchInv, FetchTypes
<1>4. /\ Covers(f) /\ StoredUpTo(f, shelf) /\ NameIsFree(f, shelf) /\ teil[f.path] = f.todo[f.i]
      /\ \A p \in f.written : shelf[p] # NoAbruf
  BY <1>1, <1>3 DEF RunFits
<1>5. teil' = [teil EXCEPT ![f.path] = NoAbruf]
  BY DEF Rename
<1>6. teil' \in Dirs /\ \A p \in Paths : p # f.path => teil'[p] = teil[p]
  BY <1>3, <1>5 DEF Dirs, Pieces
<1>u. f = abruf[r]
  OBVIOUS
<1>7. CASE Undoes(r) /\ UNCHANGED shelf
  BY <1>1, <1>2, <1>6, <1>7, UndoesShelves
<1>8. CASE /\ shelf' = [shelf EXCEPT ![f.path] = teil[f.path]]
           /\ EbicsGoes(r, [f EXCEPT !.at = "place", !.i = @ + 1, !.written = @ \cup {f.path}])
  <2> DEFINE p == f.path
             s == f.todo[f.i]
             n == f.i + 1
             w == f.written \cup {p}
             g == [f EXCEPT !.at = "place", !.i = n, !.written = w]
  <2>1. abruf' = [abruf EXCEPT ![r] = g]
    BY <1>8 DEF EbicsGoes
  <2>3. f.todo \in Seq(Statements) /\ f.i \in 1..Len(f.todo) /\ f.written \subseteq Paths
    BY <1>3, <1>4 DEF AbrufShape, AbrufKind, NameIsFree
  <2>4. p \in Paths /\ s \in Statements /\ shelf[p] = NoAbruf /\ NoAbruf \notin Statements
    BY <1>4, <2>3, EbicsAssumption DEF NameIsFree
  <2>5. shelf' = [shelf EXCEPT ![p] = s]
    BY <1>4, <1>8
  <2>m. MayTouch(f) = w
    BY <1>1 DEF MayTouch
  <2> HIDE DEF f, p, s
  <2>n. f \in AbrufKind /\ n \in Nat \ {0} /\ w \in SUBSET Paths
    BY <1>3, <2>3, <2>4 DEF AbrufShape, AbrufKind
  <2> HIDE DEF n, w
  <2>6. /\ AbrufShape(g) /\ g.at = "place" /\ g.written = w
        /\ g.todo = f.todo /\ g.i = n /\ g.order = f.order
    BY <2>n DEF AbrufShape, AbrufKind, FetchPlaces
  <2> USE DEF n, w
  <2> HIDE DEF g
  <2>7. /\ shelf' \in Dirs /\ shelf'[p] = s
        /\ \A q \in Paths : q # p => shelf'[q] = shelf[q]
    BY <1>3, <2>4, <2>5 DEF Dirs, Pieces
  <2>8. StoredUpTo(g, shelf')
    <3>1. \A j \in 1..Len(f.todo) : j < f.i + 1 => j < f.i \/ j = f.i
      BY <2>3
    <3>2. f.i + 1 <= Len(f.todo) + 1
      BY <2>3
    <3>3. \A q \in f.written : q \in Paths /\ shelf'[q] = shelf[q]
      BY <1>4, <2>3, <2>4, <2>7
    <3>4. \A j \in 1..Len(f.todo) : j < f.i => \E q \in w : shelf'[q] = f.todo[j]
      BY <1>4, <3>3 DEF StoredUpTo
    <3>5. \A j \in 1..Len(f.todo) : j = f.i => \E q \in w : shelf'[q] = f.todo[j]
      BY <2>7 DEF s
    <3> QED BY <2>6, <3>1, <3>2, <3>4, <3>5 DEF StoredUpTo
  <2>9. Covers(g)
    BY <1>4, <2>6 DEF Covers
  <2>o. Own(g) = w /\ ~Named(g)
    BY <2>6 DEF Own, Named
  <2>p. \A q \in w : shelf'[q] # NoAbruf
    BY <1>4, <2>3, <2>4, <2>7
  <2>10. RunFits(g, shelf', teil')
    BY <2>6, <2>8, <2>9, <2>o, <2>p DEF RunFits
  <2>t. \A q \in Paths : q \notin MayTouch(f) => shelf'[q] = shelf[q]
    BY <2>7, <2>m
  <2>v. \A q \in Paths : ~(Named(f) /\ q = f.path) => teil'[q] = teil[q]
    BY <1>1, <1>6
  <2>x. Own(g) \subseteq MayTouch(f) /\ g.at # "receipt"
    BY <2>6, <2>m, <2>o
  <2>b. bankNew' \subseteq Statements /\ bankDone' \subseteq Statements
    BY <1>2 DEF FetchInv, FetchTypes
  <2>d. \A t \in bankDone' \ Unreadable : t \in bankDone
    BY <1>2
  <2> HIDE DEF n, w
  <2> QED BY <1>6, <1>u, <2>1, <2>6, <2>7, <2>o, <2>10, <2>t, <2>v, <2>x, <2>b, <2>d, RunGoes
<1> QED BY <1>7, <1>8 DEF Rename

LEMMA UndoShelves ==
    ASSUME FetchInv, NEW r \in Abrufe, Undo(r)
    PROVE  FetchInv'
<1> DEFINE f == abruf[r]
<1>1. f.at = "undo" /\ Own(f) = f.written /\ ~Named(f) /\ MayTouch(f) = f.written
  BY DEF Undo, Own, Named, MayTouch
<1>2. UNCHANGED <<teil, bankNew, bankDone>> /\ bankNew \subseteq Statements /\ bankDone \subseteq Statements
  BY DEF Undo, FetchInv, FetchTypes
<1>3. AbrufShape(f) /\ shelf \in Dirs /\ teil \in Dirs
  BY DEF FetchInv, FetchTypes
<1>4. PICK stuck \in SUBSET f.written :
         shelf' = [p \in Paths |-> IF p \in f.written \ stuck THEN NoAbruf ELSE shelf[p]]
  BY DEF Undo
<1>5. shelf' \in Dirs /\ \A p \in Paths : p \notin MayTouch(f) => shelf'[p] = shelf[p]
  BY <1>1, <1>3, <1>4 DEF Dirs, Pieces
<1> DEFINE no == FALSE
           g == [f EXCEPT !.at = "receipt", !.ok = no]
<1>6. abruf' = [abruf EXCEPT ![r] = g]
  BY DEF Undo, EbicsGoes
<1>8. no \in BOOLEAN /\ no # TRUE
  OBVIOUS
<1>u. f = abruf[r]
  OBVIOUS
<1> HIDE DEF f, no
<1>9. AbrufShape(g) /\ g.at = "receipt" /\ g.ok = no
  BY <1>1, <1>3, <1>8 DEF AbrufShape, AbrufKind, FetchPlaces
<1> HIDE DEF g
<1>10. RunFits(g, shelf', teil') /\ Own(g) = {} /\ ~Named(g) /\ g.ok # TRUE
  BY <1>8, <1>9 DEF RunFits, Own, Named
<1> QED BY <1>2, <1>3, <1>5, <1>6, <1>9, <1>10, <1>u, RunGoes

LEMMA ReceiptShelves ==
    ASSUME FetchInv, NEW r \in Abrufe, NEW arrives \in BOOLEAN, NEW answered \in BOOLEAN,
           Receipt(r, arrives, answered)
    PROVE  FetchInv'
<1> DEFINE f == abruf[r]
<1>1. f.at = "receipt"
  BY DEF Receipt
<1>2. UNCHANGED <<shelf, teil>> /\ shelf' \in Dirs /\ teil' \in Dirs
  BY DEF Receipt, FetchInv, FetchTypes
<1>3. AbrufShape(f) /\ Receiptable(f, shelf, abruf) /\ f.order \subseteq Statements
  BY DEF FetchInv, FetchTypes, AbrufShape, AbrufKind
<1>4. bankNew' \subseteq Statements /\ bankDone' \subseteq Statements
  <2>1. bankDone' = bankDone \/ bankDone' = bankDone \cup f.order
    BY DEF Receipt
  <2>2. bankNew' = bankNew \/ bankNew' = bankNew \ f.order
    BY DEF Receipt
  <2> QED BY <1>3, <2>1, <2>2 DEF FetchInv, FetchTypes
<1>5. \A s \in bankDone' \ Unreadable : s \in bankDone \/ Safe(s, shelf, abruf)
  <2>2. CASE f.ok = TRUE
    <3>1. \A s \in f.order \ Unreadable : Safe(s, shelf, abruf)
      BY <1>1, <1>3, <2>2 DEF Receiptable
    <3>2. bankDone' = bankDone \/ bankDone' = bankDone \cup f.order
      BY DEF Receipt
    <3> QED BY <3>1, <3>2
  <2>3. CASE f.ok # TRUE
    <3>1. bankDone' = IF arrives /\ f.ok THEN bankDone \cup f.order ELSE bankDone
      BY DEF Receipt
    <3>2. ~ f.ok
      BY <1>3, <2>3 DEF AbrufShape, AbrufKind
    <3>3. bankDone' = bankDone
      BY <3>1, <3>2
    <3> QED BY <3>3
  <2> QED BY <2>2, <2>3
<1>6. PICK code \in Nat : ExitsWith(r, code)
  BY DEF Receipt
<1> DEFINE g == [Resting EXCEPT !.exit = code]
<1>7. AbrufShape(g) /\ g.at = "idle" /\ g.written = {} /\ abruf' = [abruf EXCEPT ![r] = g]
  BY <1>6, RestingFits DEF ExitsWith, EbicsGoes
<1> HIDE DEF f, g
<1>8. RunFits(g, shelf', teil') /\ Own(g) = {} /\ ~Named(g)
  BY <1>7 DEF RunFits, Own, Named
<1> QED BY <1>2, <1>4, <1>5, <1>7, <1>8, RunGoes

(* The bank and the other tools leave the directory and the runs alone.           *)
LEMMA IssueShelves ==
    ASSUME FetchInv, UNCHANGED <<shelf, teil, abruf, bankDone>>, bankNew' \subseteq Statements
    PROVE  FetchInv'
BY DEF FetchInv, FetchTypes

LEMMA FetchInvInit == EbicsInit => FetchInv
<1> SUFFICES ASSUME EbicsInit PROVE FetchInv
  OBVIOUS
<1>1. /\ \A r \in Abrufe : abruf[r] = Resting
      /\ abruf = [r \in Abrufe |-> abruf[r]]
      /\ bankNew = {} /\ bankDone = {} /\ shelf \in Dirs /\ teil \in Dirs
  BY DEF EbicsInit, Dirs, Pieces
<1>2. /\ AbrufShape(Resting) /\ RunFits(Resting, shelf, teil) /\ Own(Resting) = {} /\ ~Named(Resting)
      /\ Receiptable(Resting, shelf, abruf)
  BY RestingShape DEF AbrufShape, RunFits, Own, Named, Receiptable
<1>3. FetchTypes
  BY <1>1, <1>2 DEF FetchTypes
<1>4. Apart(abruf) /\ Delivered(bankDone, shelf, abruf)
  BY <1>1, <1>2 DEF Apart, Delivered
<1> QED BY <1>1, <1>2, <1>3, <1>4 DEF FetchInv

LEMMA FetchKeeps ==
    ASSUME FetchInv, "names" \notin crossed', keyring.bank \in KeyPairs, [EbicsNext]_ebicsVars
    PROVE  FetchInv'
<1>1. ASSUME NEW s \in Statements, Issue(s) PROVE FetchInv'
  BY <1>1, IssueShelves DEF Issue, FetchInv, FetchTypes
<1>2. CASE FetchUntouched
  BY <1>2, IssueShelves DEF FetchUntouched, FetchInv, FetchTypes
<1>3. CASE ChangeKeys \/ KeysNext
  <2>1. FetchUntouched
    BY <1>3 DEF KeysNext, ChangeKeys, InitKeys, InitSends, HpbChecks, HpbBackup, HpbRename, HpbFails, HpbStart
  <2> QED BY <1>2, <2>1
<1>4. ASSUME NEW r \in Abrufe, FetchStep(r) PROVE FetchInv'
  <2>1. CASE Killed(r)
    BY <2>1, RunEnds DEF Killed
  <2>2. ASSUME NEW window \in BOOLEAN, NEW ok \in BOOLEAN, Start(r, window, ok) PROVE FetchInv'
    BY <2>2, StartShelves
  <2>3. ASSUME NEW arrives \in BOOLEAN, NEW answered \in BOOLEAN, Receipt(r, arrives, answered)
        PROVE  FetchInv'
    BY <2>3, ReceiptShelves
  <2> QED BY <1>4, <2>1, <2>2, <2>3, OrderShelves, PlaceShelves, WriteShelves, RenameShelves, UndoShelves
          DEF FetchStep
<1>5. CASE UNCHANGED ebicsVars
  BY <1>2, <1>5 DEF ebicsVars, FetchUntouched
<1> QED BY <1>1, <1>3, <1>4, <1>5 DEF EbicsNext, FetchNext

LEMMA CrossedStays == [EbicsNext]_ebicsVars => ("names" \in crossed => "names" \in crossed')
<1>1. ASSUME NEW r \in Abrufe, FetchStep(r) PROVE "names" \in crossed => "names" \in crossed'
  <2>1. CASE Place(r)
    BY <2>1 DEF Place
  <2>2. CASE ~Place(r)
    BY <1>1, <2>2 DEF FetchStep, Order, WriteTeil, Rename, Undo, Killed, Start, Receipt
  <2> QED BY <2>1, <2>2
<1>2. CASE KeysNext \/ ChangeKeys
  BY <1>2 DEF KeysNext, ChangeKeys, InitKeys, InitSends, HpbChecks, HpbBackup, HpbRename, HpbFails, HpbStart
<1>3. ASSUME NEW s \in Statements, Issue(s) PROVE "names" \in crossed => "names" \in crossed'
  BY <1>3 DEF Issue
<1> QED BY <1>1, <1>2, <1>3 DEF EbicsNext, FetchNext, ebicsVars

(* Keys of the bank and statements both keep, whatever fails, is lost or is       *)
(* killed and however many runs overlap: what two runs that chose one name, or an  *)
(* init.php that wrote older keys back, may lose is all that is ever lost.         *)
THEOREM EbicsIsKept == EbicsSpec => []EbicsKeeps
<1> DEFINE Both == KeysInv /\ ("names" \notin crossed => FetchInv)
<1>1. EbicsInit => Both
  BY KeysInvInit, FetchInvInit
<1>2. Both /\ [EbicsNext]_ebicsVars => Both'
  <2>1. KeysInv => keyring.bank \in KeyPairs
    BY DEF KeysInv, KeysTypes, Keyrings
  <2> QED BY <2>1, KeysKeep, FetchKeeps, CrossedStays
<1>3. Both => EbicsKeeps
  <2>1. KeysInv => ("keys" \notin crossed => KeysProved)
    BY DEF KeysInv, KeysOrder, KeysProved, Genuine
  <2>2. FetchInv => StatementsKept
    BY DEF FetchInv, Delivered, Safe, StatementsKept
  <2> QED BY <2>1, <2>2 DEF EbicsKeeps
<1> HIDE DEF Both
<1> QED BY <1>1, <1>2, <1>3, PTL DEF EbicsSpec

-----------------------------------------------------------------------------
(* Agent: what is sent to the model is a conversation it accepts, and what *)
(* comes out of it was answered by the model.                              *)

AnyCall == [name : Offers \cup {"unknown"}, id : {1, 2}, object : BOOLEAN]
AnyBlock == {"text", "image", "odd image", "resource", "placeholder"}
AnyResult == [id : {1, 2}, failed : BOOLEAN, content : Seq(AnyBlock)]
Stops == {"end_turn", "max_tokens", "content_filter", "tool_use"}
TurnMessage == [role : {"assistant"}, stop : Stops, calls : Seq(AnyCall)]
ToolMessage == [role : {"tool"}, results : Seq(AnyResult)]
Message == TurnMessage \cup ToolMessage

(* Every turn but the last is followed by its results, call by call; what results   *)
(* contain passes the check of the next request.                                  *)
Answering(calls, results) ==
    /\ Len(calls) = Len(results)
    /\ \A k \in 1..Len(calls) : calls[k].id = results[k].id
Chained(t) ==
    \A i \in 1..Len(t) : i + 1 <= Len(t) /\ t[i].role = "assistant"
                           => t[i + 1].role = "tool" /\ Answering(t[i].calls, t[i + 1].results)
AllShown(rs, p) == \A j \in 1..Len(rs) : \A b \in 1..Len(rs[j].content) : rs[j].content[b] \in Blocks(p)
Shown(t, p) == \A i \in 1..Len(t) : t[i].role = "tool" => AllShown(t[i].results, p)
NoneFailed(rs) == \A r \in 1..Len(rs) : ~rs[r].failed

(* Before a turn the last word is that of the tools, and the runner knows whether   *)
(* one of them failed.                                                            *)
BeforeTurn ==
    talk # <<>> => /\ talk[Len(talk)].role = "tool"
                   /\ agent.lastStepFailed = FALSE => NoneFailed(talk[Len(talk)].results)
(* In a tool step, results and calls to go make up the calls of the turn.          *)
InStep ==
    /\ talk # <<>> /\ talk[Len(talk)].role = "assistant"
    /\ Len(agent.results) + Len(agent.todo) = Len(talk[Len(talk)].calls)
    /\ \A i \in 1..Len(agent.results) : agent.results[i].id = talk[Len(talk)].calls[i].id
    /\ \A i \in 1..Len(agent.todo) : agent.todo[i] = talk[Len(talk)].calls[Len(agent.results) + i]
    /\ agent.stepFailed = FALSE => NoneFailed(agent.results)
    /\ agent.at = "calling" => agent.todo # <<>>

Places == {"connecting", "listing", "loop", "asking", "calls", "calling", "over"}
AgentShape(a) ==
    /\ a = [at |-> a.at, protocol |-> a.protocol, pages |-> a.pages, allowed |-> a.allowed, schemas |-> a.schemas,
            steps |-> a.steps, toolCalls |-> a.toolCalls, todo |-> a.todo, results |-> a.results,
            stepFailed |-> a.stepFailed, lastStepFailed |-> a.lastStepFailed]
    /\ a.at \in Places /\ a.protocol \in Protocols /\ a.steps \in 0..MaxSteps /\ a.toolCalls \in 0..MaxToolCalls
    /\ a.todo \in Seq(AnyCall) /\ a.results \in Seq(AnyResult)
    /\ a.stepFailed \in BOOLEAN /\ a.lastStepFailed \in BOOLEAN

SaidOk(t) ==
    /\ t # <<>> /\ t[Len(t)].role = "assistant" /\ t[Len(t)].stop = "end_turn"
    /\ Len(t) > 1 => NoneFailed(t[Len(t) - 1].results) /\ t[Len(t) - 1].role = "tool"
AgentInv ==
    /\ AgentShape(agent) /\ talk \in Seq(Message) /\ agentCtx \in {"live", "wall", "cancelled"}
    /\ Chained(talk) /\ Shown(talk, agent.protocol) /\ AllShown(agent.results, agent.protocol)
    /\ agent.at \in {"connecting", "listing", "loop", "asking"} => BeforeTurn
    /\ agent.at \in {"calls", "calling"} => InStep
    /\ agent.at # "over" => denied = FALSE
    /\ agent.at = "over" => /\ denied = TRUE => stepVerdict.end = "revoked"
                            /\ stepVerdict.end = "ok" => agentCtx = "live" /\ SaidOk(talk)

LEMMA AppendedTo ==
    ASSUME NEW S, NEW s \in Seq(S), NEW x \in S
    PROVE  /\ Append(s, x) \in Seq(S) /\ Len(Append(s, x)) = Len(s) + 1 /\ Len(s) \in Nat
           /\ \A i \in 1..Len(s) : Append(s, x)[i] = s[i]
           /\ Append(s, x)[Len(s) + 1] = x
  OBVIOUS
LEMMA HeadTakenOff ==
    ASSUME NEW S, NEW s \in Seq(S), s # <<>>
    PROVE  /\ Tail(s) \in Seq(S) /\ Len(s) \in Nat \ {0} /\ Len(Tail(s)) = Len(s) - 1
           /\ \A i \in 1..(Len(s) - 1) : Tail(s)[i] = s[i + 1]
           /\ Head(s) = s[1] /\ s[1] \in S
  OBVIOUS
LEMMA NoneThere ==
    ASSUME NEW S
    PROVE  <<>> \in Seq(S) /\ Len(<<>>) = 0 /\ (\A s \in Seq(S) : Len(s) \in Nat /\ (Len(s) = 0 <=> s = <<>>))
  OBVIOUS

LEMMA AgentInvInit == AgentInit => AgentInv
<1> SUFFICES ASSUME AgentInit PROVE AgentInv
  OBVIOUS
<1>1. /\ agent \in [at : {"connecting"}, protocol : Protocols, pages : {0},
                    allowed : {{}}, schemas : {TRUE}, steps : {0}, toolCalls : {0},
                    todo : {<<>>}, results : {<<>>}, stepFailed : {FALSE}, lastStepFailed : {FALSE}]
      /\ talk = <<>> /\ denied = FALSE /\ agentCtx = "live"
  BY DEF AgentInit
<1>2. /\ agent.at = "connecting" /\ agent.protocol \in Protocols /\ agent.steps = 0 /\ agent.toolCalls = 0
      /\ agent.todo = <<>> /\ agent.results = <<>>
      /\ agent.stepFailed \in BOOLEAN /\ agent.lastStepFailed \in BOOLEAN
      /\ agent = [at |-> agent.at, protocol |-> agent.protocol, pages |-> agent.pages, allowed |-> agent.allowed,
                  schemas |-> agent.schemas, steps |-> agent.steps, toolCalls |-> agent.toolCalls,
                  todo |-> agent.todo, results |-> agent.results,
                  stepFailed |-> agent.stepFailed, lastStepFailed |-> agent.lastStepFailed]
  BY <1>1
<1>3. AgentShape(agent)
  BY <1>2, NoneThere, AgentAssumption DEF AgentShape, Places
<1>4. Chained(talk) /\ Shown(talk, agent.protocol) /\ AllShown(agent.results, agent.protocol) /\ BeforeTurn
  BY <1>1, <1>2 DEF Chained, Shown, AllShown, BeforeTurn
<1> QED BY <1>1, <1>2, <1>3, <1>4, NoneThere DEF AgentInv

(* The end of a run, with what is in the conversation then.                        *)
LEMMA EndKeeps ==
    ASSUME AgentInv, NEW end, NEW detail, NEW refused \in BOOLEAN, Closes(end, detail, refused),
           agent.at # "over", UNCHANGED agentCtx, denied = TRUE => refused = TRUE,
           talk' \in Seq(Message), Chained(talk'), Shown(talk', agent.protocol),
           end = "ok" /\ refused = FALSE => SaidOk(talk')
    PROVE  AgentInv'
<1>1. /\ agent' = [agent EXCEPT !.at = "over"] /\ denied' = refused
      /\ stepVerdict' = Told(end, detail, refused)
  BY DEF Closes
<1>2. /\ AgentShape(agent') /\ agent'.at = "over" /\ agent'.protocol = agent.protocol
      /\ agent'.results = agent.results
  BY <1>1 DEF AgentInv, AgentShape, Places
<1>3. denied' = TRUE => stepVerdict'.end = "revoked"
  BY <1>1 DEF Told
<1>4. ASSUME stepVerdict'.end = "ok"
      PROVE  agentCtx' = "live" /\ SaidOk(talk')
  <2>1. refused = FALSE
    BY <1>1, <1>4 DEF Told
  <2>2. agentCtx # "wall" /\ agentCtx # "cancelled"
    BY <1>1, <1>4, <2>1 DEF Told
  <2>3. stepVerdict' = [end |-> end, detail |-> detail]
    BY <1>1, <2>1, <2>2 DEF Told
  <2>4. end = "ok"
    BY <1>4, <2>3
  <2> QED BY <2>1, <2>2, <2>4 DEF AgentInv
<1> QED BY <1>2, <1>3, <1>4 DEF AgentInv

(* The end of a run that says nothing more.                                        *)
LEMMA QuietEnd ==
    ASSUME AgentInv, NEW end, NEW detail, end # "ok", agent.at # "over", UNCHANGED talk,
           \/ Finish(end, detail)
           \/ Closes(end, detail, TRUE) /\ UNCHANGED agentCtx
    PROVE  AgentInv'
<1>1. talk' \in Seq(Message) /\ Chained(talk') /\ Shown(talk', agent.protocol)
  BY DEF AgentInv
<1>2. CASE Finish(end, detail)
  <2>1. denied = FALSE /\ Closes(end, detail, denied) /\ UNCHANGED agentCtx
    BY <1>2 DEF AgentInv, Finish
  <2>2. denied \in BOOLEAN
    BY <2>1
  <2> QED BY <1>1, <2>1, <2>2, EndKeeps
<1>3. CASE Closes(end, detail, TRUE) /\ UNCHANGED agentCtx
  <2>1. TRUE \in BOOLEAN
    OBVIOUS
  <2> QED BY <1>1, <1>3, <2>1, EndKeeps
<1> QED BY <1>2, <1>3

(* Steps of the run before the model's turn.                                       *)
LEMMA BeforeTurnKeeps ==
    ASSUME AgentInv,
           \/ RequestFails \/ RunRefused \/ Connected \/ ListedBadly \/ Ask
           \/ \E n \in Offers, object, more \in BOOLEAN : Listed(n, object, more)
           \/ \E d \in Declines : Declined(d)
    PROVE  AgentInv'
<1>G. ASSUME NEW a, agent' = a, AgentShape(a), a.protocol = agent.protocol, a.results = agent.results,
             a.at \in {"connecting", "listing", "loop", "asking"},
             agent.at \in {"connecting", "listing", "loop", "asking"},
             a.lastStepFailed = agent.lastStepFailed,
             UNCHANGED <<talk, agentCtx, denied, stepVerdict>>
      PROVE  AgentInv'
  BY <1>G DEF AgentInv, BeforeTurn
<1>S. AgentShape(agent)
  BY DEF AgentInv
<1>1. CASE RequestFails
  BY <1>1, QuietEnd DEF RequestFails, Waits
<1>2. CASE RunRefused
  BY <1>2, QuietEnd DEF RunRefused, Waits
<1>3. CASE Connected
  <2>1. agent.at = "connecting" /\ agent' = [agent EXCEPT !.at = "listing"]
        /\ UNCHANGED <<talk, agentCtx, denied, stepVerdict>>
    BY <1>3 DEF Connected, AgentGoes
  <2>2. LET a == agent' IN /\ AgentShape(a) /\ a.at = "listing" /\ a.protocol = agent.protocol
                           /\ a.results = agent.results /\ a.lastStepFailed = agent.lastStepFailed
    BY <1>S, <2>1 DEF AgentShape, Places
  <2> QED BY <1>G, <2>1, <2>2
<1>4. CASE ListedBadly
  BY <1>4, QuietEnd DEF ListedBadly
<1>5. ASSUME NEW n \in Offers, NEW object \in BOOLEAN, NEW more \in BOOLEAN, Listed(n, object, more)
      PROVE  AgentInv'
  <2>1. CASE Finish("error", "gateway")
    BY <1>5, <2>1, QuietEnd DEF Listed
  <2>2. CASE AgentGoes([agent EXCEPT !.allowed = @ \cup {n}, !.pages = @ + 1, !.schemas = @ /\ object,
                                     !.at = IF more THEN "listing" ELSE "loop"])
    <3> DEFINE al == agent.allowed \cup {n}
               pa == agent.pages + 1
               sc == agent.schemas /\ object
               at == IF more THEN "listing" ELSE "loop"
    <3>1. agent' = [agent EXCEPT !.allowed = al, !.pages = pa, !.schemas = sc, !.at = at]
          /\ UNCHANGED <<agentCtx, denied, stepVerdict>>
      BY <2>2 DEF AgentGoes
    <3>2. at \in {"listing", "loop"} /\ agent.at = "listing" /\ talk' = talk
      BY <1>5 DEF Listed
    <3> HIDE DEF al, pa, sc, at
    <3>3. LET a == agent' IN /\ AgentShape(a) /\ a.at = at /\ a.protocol = agent.protocol
                             /\ a.results = agent.results /\ a.lastStepFailed = agent.lastStepFailed
      BY <1>S, <3>1, <3>2 DEF AgentShape, Places
    <3> QED BY <1>G, <3>1, <3>2, <3>3
  <2> QED BY <1>5, <2>1, <2>2 DEF Listed
<1>6. CASE Ask
  <2>1. /\ agent.at = "loop" /\ talk' = talk
        /\ \/ Finish("limit", "steps") \/ Finish("cancelled", "") \/ Finish("error", "rejected")
           \/ agent.steps < MaxSteps /\ AgentGoes([agent EXCEPT !.at = "asking", !.steps = @ + 1])
    BY <1>6 DEF Ask
  <2>2. CASE Finish("limit", "steps")
    BY <2>1, <2>2, QuietEnd
  <2>3. CASE Finish("cancelled", "")
    BY <2>1, <2>3, QuietEnd
  <2>4. CASE Finish("error", "rejected")
    BY <2>1, <2>4, QuietEnd
  <2>5. CASE agent.steps < MaxSteps /\ AgentGoes([agent EXCEPT !.at = "asking", !.steps = @ + 1])
    <3> DEFINE st == agent.steps + 1
    <3>1. agent' = [agent EXCEPT !.at = "asking", !.steps = st] /\ UNCHANGED <<agentCtx, denied, stepVerdict>>
      BY <2>5 DEF AgentGoes
    <3>2. st \in 0..MaxSteps
      <4>1. agent.steps \in 0..MaxSteps
        BY <1>S DEF AgentShape
      <4> QED BY <2>5, <4>1, AgentAssumption
    <3> HIDE DEF st
    <3>3. LET a == agent' IN /\ AgentShape(a) /\ a.at = "asking" /\ a.protocol = agent.protocol
                             /\ a.results = agent.results /\ a.lastStepFailed = agent.lastStepFailed
      BY <1>S, <3>1, <3>2 DEF AgentShape, Places
    <3> QED BY <1>G, <2>1, <3>1, <3>3
  <2> QED BY <2>1, <2>2, <2>3, <2>4, <2>5
<1>7. ASSUME NEW d \in Declines, Declined(d) PROVE AgentInv'
  <2>1. d.end # "ok"
    <3>1. \A e \in {[end |-> "limit", detail |-> x] : x \in {"tokens_in", "gateway"}} : e.end # "ok"
      OBVIOUS
    <3>2. \A e \in {[end |-> x, detail |-> ""] : x \in {"cancelled", "revoked"}} : e.end # "ok"
      <4> TAKE e \in {[end |-> x, detail |-> ""] : x \in {"cancelled", "revoked"}}
      <4>1. PICK x \in {"cancelled", "revoked"} : e = [end |-> x, detail |-> ""]
        OBVIOUS
      <4>2. e.end = x
        BY <4>1
      <4>3. x # "ok"
        OBVIOUS
      <4> QED BY <4>2, <4>3
    <3>3. \A e \in {[end |-> "error", detail |-> x] : x \in {"provider", "rejected"}} : e.end # "ok"
      OBVIOUS
    <3> QED BY <3>1, <3>2, <3>3, Zenon DEF Declines
  <2> QED BY <1>7, <2>1, QuietEnd DEF Declined
<1> QED BY <1>1, <1>2, <1>3, <1>4, <1>5, <1>6, <1>7

(* The calls of a turn as the two protocols allow them.                            *)
LEMMA TurnsAreCalls ==
    ASSUME NEW p \in Protocols, NEW t \in Turns(p)
    PROVE  t.stop \in Stops /\ t.calls \in Seq(AnyCall)
<1>1. ToolCalls(p) \subseteq AnyCall
  BY DEF ToolCalls, AnyCall
<1>2. CASE t \in [stop : {"end_turn", "max_tokens", "content_filter", "tool_use"},
                  calls : {<<>>} \cup {<<c>> : c \in ToolCalls(p)}]
  <2>1. t.stop \in Stops /\ (t.calls = <<>> \/ \E c \in ToolCalls(p) : t.calls = <<c>>)
    BY <1>2 DEF Stops
  <2>2. \A c \in AnyCall : <<c>> \in Seq(AnyCall)
    OBVIOUS
  <2> QED BY <1>1, <2>1, <2>2, NoneThere
<1>3. CASE t \in [stop : {"tool_use"}, calls : {cs \in [1..2 -> ToolCalls(p)] : cs[2].object}]
  <2>1. t.stop \in Stops /\ t.calls \in [1..2 -> ToolCalls(p)]
    BY <1>3 DEF Stops
  <2>2. t.calls \in [1..2 -> AnyCall]
    BY <1>1, <2>1
  <2>3. t.calls \in Seq(AnyCall)
    <3>1. \A cs : cs \in [1..2 -> AnyCall] => cs = <<cs[1], cs[2]>> /\ cs[1] \in AnyCall /\ cs[2] \in AnyCall
      OBVIOUS
    <3>2. \A c, d \in AnyCall : <<c, d>> \in Seq(AnyCall)
      OBVIOUS
    <3> DEFINE c == t.calls[1]
               d == t.calls[2]
    <3>3. t.calls = <<c, d>> /\ c \in AnyCall /\ d \in AnyCall
      BY <2>2, <3>1, Zenon
    <3> HIDE DEF c, d
    <3>4. <<c, d>> \in Seq(AnyCall)
      BY <3>2, <3>3, Zenon
    <3> QED BY <3>3, <3>4, Zenon
  <2> QED BY <2>1, <2>3
<1> QED BY <1>2, <1>3 DEF Turns

(* A turn is appended; it ends the run or begins a tool step.                      *)
LEMMA TurnKeeps ==
    ASSUME AgentInv, NEW t \in Turns(agent.protocol), TurnArrives(t)
    PROVE  AgentInv'
<1> DEFINE m == [role |-> "assistant", stop |-> t.stop, calls |-> t.calls]
<1>1. /\ agent.at = "asking" /\ agentCtx = "live" /\ talk' = Append(talk, m)
      /\ AgentShape(agent) /\ talk \in Seq(Message) /\ agent.protocol \in Protocols /\ denied = FALSE
      /\ BeforeTurn
  BY DEF TurnArrives, AgentInv, AgentShape
<1>2. t.stop \in Stops /\ t.calls \in Seq(AnyCall)
  BY <1>1, TurnsAreCalls
<1>3. m \in Message /\ m.role = "assistant" /\ m.stop = t.stop /\ m.calls = t.calls
  BY <1>2 DEF Message, TurnMessage
<1> HIDE DEF m
<1>4. /\ talk' \in Seq(Message) /\ Len(talk') = Len(talk) + 1 /\ Len(talk) \in Nat
      /\ \A i \in 1..Len(talk) : talk'[i] = talk[i]
      /\ talk'[Len(talk) + 1] = m
  BY <1>1, <1>3, AppendedTo
<1>5. Chained(talk')
  <2> SUFFICES ASSUME NEW i \in 1..Len(talk'), i + 1 <= Len(talk'), talk'[i].role = "assistant"
               PROVE  talk'[i + 1].role = "tool" /\ Answering(talk'[i].calls, talk'[i + 1].results)
    BY DEF Chained
  <2>1. i \in 1..Len(talk) /\ talk'[i] = talk[i]
    BY <1>4
  <2>2. CASE i + 1 <= Len(talk)
    <3>1. i + 1 \in 1..Len(talk)
      BY <2>1, <2>2, <1>4
    <3> QED BY <1>4, <2>1, <2>2, <3>1 DEF AgentInv, Chained
  <2>3. CASE ~(i + 1 <= Len(talk))
    <3>1. i = Len(talk) /\ talk # <<>>
      BY <1>1, <1>4, <2>1, <2>3, NoneThere
    <3> QED BY <1>1, <2>1, <3>1 DEF BeforeTurn
  <2> QED BY <2>2, <2>3
<1>6. Shown(talk', agent.protocol)
  <2>1. \A i \in 1..Len(talk') : i \in 1..Len(talk) \/ i = Len(talk) + 1
    BY <1>4
  <2> QED BY <1>3, <1>4, <2>1 DEF AgentInv, Shown
<1>7. talk' # <<>> /\ talk'[Len(talk')] = m /\ (Len(talk') > 1 => talk # <<>> /\ talk'[Len(talk') - 1] = talk[Len(talk)])
  <2>1. Len(talk') # 0 /\ Len(talk') = Len(talk) + 1
    BY <1>4
  <2>2. Len(talk) > 0 => talk # <<>> /\ Len(talk) \in 1..Len(talk)
    BY <1>1, <1>4, NoneThere
  <2>3. talk' # <<>>
    BY <1>4, <2>1, NoneThere
  <2> QED BY <1>4, <2>1, <2>2, <2>3
<1>8. ASSUME NEW end, NEW detail, end # "ok", Finish(end, detail)
      PROVE  AgentInv'
  BY <1>1, <1>4, <1>5, <1>6, <1>8, EndKeeps DEF Finish
<1>9. CASE t.stop = "end_turn" /\ t.calls = <<>> /\ agent.lastStepFailed = FALSE /\ Finish("ok", "")
  <2>1. SaidOk(talk')
    BY <1>1, <1>3, <1>7, <1>9 DEF SaidOk, BeforeTurn
  <2> QED BY <1>1, <1>4, <1>5, <1>6, <1>9, <2>1, EndKeeps DEF Finish
<1>10. CASE t.stop = "tool_use" /\ t.calls # <<>>
            /\ AgentGoes([agent EXCEPT !.at = "calls", !.todo = t.calls, !.results = <<>>, !.stepFailed = FALSE])
  <2> DEFINE no == FALSE
             rs == <<>>
  <2>1. agent' = [agent EXCEPT !.at = "calls", !.todo = t.calls, !.results = rs, !.stepFailed = no]
        /\ UNCHANGED <<agentCtx, denied, stepVerdict>>
    BY <1>10 DEF AgentGoes
  <2>2. no \in BOOLEAN /\ rs \in Seq(AnyResult) /\ Len(rs) = 0 /\ \A i \in 1..Len(rs) : FALSE
    BY NoneThere
  <2> HIDE DEF no, rs
  <2>3. /\ AgentShape(agent') /\ agent'.at = "calls" /\ agent'.protocol = agent.protocol
        /\ agent'.results = rs /\ agent'.todo = t.calls
    BY <1>1, <1>2, <2>1, <2>2 DEF AgentShape, Places
  <2>4. AllShown(agent'.results, agent.protocol) /\ NoneFailed(agent'.results)
    BY <2>2, <2>3 DEF AllShown, NoneFailed
  <2>5. InStep'
    <3>1. Len(rs) + Len(t.calls) = Len(t.calls) /\ \A i \in 1..Len(t.calls) : Len(rs) + i = i
      <4>1. Len(t.calls) \in Nat
        BY <1>2
      <4> QED BY <2>2, <4>1
    <3> QED BY <1>3, <1>7, <2>2, <2>3, <2>4, <3>1 DEF InStep
  <2> QED BY <1>1, <1>4, <1>5, <1>6, <2>1, <2>3, <2>4, <2>5 DEF AgentInv
<1> QED BY <1>1, <1>8, <1>9, <1>10 DEF TurnArrives, AgentShape

LEMMA JustOne ==
    ASSUME NEW S, NEW x \in S
    PROVE  <<x>> \in Seq(S) /\ Len(<<x>>) = 1 /\ DOMAIN <<x>> = 1..1 /\ <<x>>[1] = x /\ <<x>> # <<>>
  OBVIOUS
LEMMA OnlyOne ==
    ASSUME NEW y PROVE [i \in 1..1 |-> y] = <<y>>
  OBVIOUS

(* Either adapter turns whatever a tool returns into blocks its protocol knows.      *)
LEMMA ContentIsShown ==
    ASSUME NEW p \in Protocols, NEW content \in Contents
    PROVE  /\ Projection(p, content) \in Seq(AnyBlock)
           /\ \A b \in 1..Len(Projection(p, content)) : Projection(p, content)[b] \in Blocks(p)
<1>1. Kept(p) \subseteq AnyBlock /\ "placeholder" \in AnyBlock /\ "placeholder" \in Blocks(p) /\ Kept(p) \subseteq Blocks(p)
  BY DEF Kept, AnyBlock, Blocks
<1>2. ASSUME NEW y \in AnyBlock, y \in Blocks(p), Projection(p, content) = <<y>>
      PROVE  /\ Projection(p, content) \in Seq(AnyBlock)
             /\ \A b \in 1..Len(Projection(p, content)) : Projection(p, content)[b] \in Blocks(p)
  <2>1. <<y>> \in Seq(AnyBlock) /\ Len(<<y>>) = 1 /\ <<y>>[1] = y
    BY JustOne, Zenon
  <2>2. \A b \in 1..1 : b = 1
    OBVIOUS
  <2>3. \A b \in 1..Len(<<y>>) : <<y>>[b] \in Blocks(p)
    BY <1>2, <2>1, <2>2, Zenon
  <2> QED BY <1>2, <2>1, <2>3, Zenon
<1>3. CASE content = <<>>
  <2>1. Projection(p, content) = <<"placeholder">>
    BY <1>3 DEF Projection
  <2> DEFINE y == "placeholder"
  <2>2. y \in AnyBlock /\ y \in Blocks(p) /\ Projection(p, content) = <<y>>
    BY <1>1, <2>1
  <2> HIDE DEF y
  <2> QED BY <1>2, <2>2, Zenon
<1>4. CASE content # <<>>
  <2> DEFINE Given == {"text", "image", "odd image", "resource"}
  <2>1. PICK b \in Given : content = <<b>>
    BY <1>4, Zenon DEF Contents
  <2> HIDE DEF Given
  <2>2. content # <<>> /\ DOMAIN content = 1..1 /\ content[1] = b
    BY <2>1, JustOne, Zenon
  <2> DEFINE y == IF content[1] \in Kept(p) THEN content[1] ELSE "placeholder"
  <2>3. y \in AnyBlock /\ y \in Blocks(p)
    BY <1>1, Zenon
  <2>4. Projection(p, content) = [i \in 1..1 |-> IF content[i] \in Kept(p) THEN content[i] ELSE "placeholder"]
    BY <2>2, Zenon DEF Projection
  <2>5. [i \in 1..1 |-> IF content[i] \in Kept(p) THEN content[i] ELSE "placeholder"] = [i \in 1..1 |-> y]
    <3>1. \A i \in 1..1 : i = 1
      OBVIOUS
    <3> HIDE DEF y
    <3>2. \A i \in 1..1 : (IF content[i] \in Kept(p) THEN content[i] ELSE "placeholder") = y
      BY <3>1, Zenon DEF y
    <3> QED BY <3>2
  <2> HIDE DEF y
  <2>6. [i \in 1..1 |-> y] = <<y>>
    BY OnlyOne
  <2>7. Projection(p, content) = <<y>>
    BY <2>4, <2>5, <2>6, Zenon
  <2> QED BY <1>2, <2>3, <2>7, Zenon
<1> QED BY <1>3, <1>4

(* A result is added for the call it belongs to.                                   *)
LEMMA ResultKeeps ==
    ASSUME AgentInv, agent.at \in {"calls", "calling"}, agent.todo # <<>>,
           NEW r \in AnyResult, r.id = Head(agent.todo).id,
           \A b \in 1..Len(r.content) : r.content[b] \in Blocks(agent.protocol),
           AgentShape(agent'), agent'.at = "calls", agent'.protocol = agent.protocol,
           agent'.todo = Tail(agent.todo), agent'.results = Append(agent.results, r),
           agent'.stepFailed = FALSE => agent.stepFailed = FALSE /\ ~r.failed,
           UNCHANGED <<talk, agentCtx, denied, stepVerdict>>
    PROVE  AgentInv'
<1>1. /\ agent.results \in Seq(AnyResult) /\ agent.todo \in Seq(AnyCall)
      /\ talk \in Seq(Message) /\ InStep /\ denied = FALSE
  BY DEF AgentInv, AgentShape
<1> DEFINE n == Len(agent.results)
           last == talk[Len(talk)]
<1>2. /\ agent'.results \in Seq(AnyResult) /\ Len(agent'.results) = n + 1 /\ n \in Nat
      /\ \A i \in 1..n : agent'.results[i] = agent.results[i]
      /\ agent'.results[n + 1] = r
  BY <1>1, AppendedTo
<1>3. /\ agent'.todo \in Seq(AnyCall) /\ Len(agent.todo) \in Nat \ {0} /\ Len(agent'.todo) = Len(agent.todo) - 1
      /\ \A i \in 1..(Len(agent.todo) - 1) : agent'.todo[i] = agent.todo[i + 1]
      /\ Head(agent.todo) = agent.todo[1]
  BY <1>1, HeadTakenOff
<1>4. \A i \in 1..Len(agent'.results) : i \in 1..n \/ i = n + 1
  BY <1>2
<1>5. AllShown(agent'.results, agent.protocol)
  BY <1>2, <1>4 DEF AgentInv, AllShown
<1>6. /\ n + Len(agent.todo) = Len(last.calls)
      /\ \A i \in 1..n : agent.results[i].id = last.calls[i].id
      /\ \A i \in 1..Len(agent.todo) : agent.todo[i] = last.calls[n + i]
      /\ agent.stepFailed = FALSE => NoneFailed(agent.results)
      /\ talk # <<>> /\ last.role = "assistant"
  BY <1>1 DEF InStep
<1> HIDE DEF last, n
<1>7. Len(agent'.results) + Len(agent'.todo) = Len(last.calls)
  <2>1. Len(agent'.results) = n + 1 /\ Len(agent'.todo) = Len(agent.todo) - 1 /\ n \in Nat /\ Len(agent.todo) \in Nat
    BY <1>2, <1>3
  <2>2. \A a, b \in Nat : (a + 1) + (b - 1) = a + b
    OBVIOUS
  <2>3. (n + 1) + (Len(agent.todo) - 1) = n + Len(agent.todo)
    BY <2>1, <2>2, Zenon
  <2> QED BY <1>6, <2>1, <2>3, Zenon
<1>8. agent.todo[1] = last.calls[n + 1]
  <2>1. 1 \in 1..Len(agent.todo)
    BY <1>3
  <2> QED BY <1>6, <2>1
<1>9. \A i \in 1..Len(agent'.results) : agent'.results[i].id = last.calls[i].id
  BY <1>2, <1>3, <1>4, <1>6, <1>8
<1>10. ASSUME NEW i \in 1..Len(agent'.todo)
       PROVE  agent'.todo[i] = last.calls[(n + 1) + i]
  <2>1. i \in 1..(Len(agent.todo) - 1) /\ i + 1 \in 1..Len(agent.todo)
    BY <1>3
  <2>2. n + (i + 1) = (n + 1) + i
    BY <1>2, <2>1
  <2> QED BY <1>3, <1>6, <2>1, <2>2
<1>11. agent'.stepFailed = FALSE => NoneFailed(agent'.results)
  BY <1>2, <1>4, <1>6 DEF NoneFailed
<1>12. InStep'
  <2>1. last = talk'[Len(talk')] /\ talk' = talk /\ Len(agent'.results) = n + 1
    BY <1>2 DEF last
  <2> QED BY <1>6, <1>7, <1>9, <1>10, <1>11, <2>1 DEF InStep
<1> QED BY <1>1, <1>5, <1>12 DEF AgentInv

LEMMA CallKeeps == ASSUME AgentInv, CallTool PROVE AgentInv'
<1> DEFINE c == Head(agent.todo)
           tc == agent.toolCalls + 1
           r == [id |-> c.id, failed |-> TRUE, content |-> <<"text">>]
<1>1. /\ AgentShape(agent) /\ agent.at = "calls" /\ agent.todo # <<>> /\ talk' = talk
      /\ agent.todo \in Seq(AnyCall) /\ agent.results \in Seq(AnyResult) /\ agent.toolCalls \in 0..MaxToolCalls
      /\ agent.protocol \in Protocols
  BY DEF AgentInv, AgentShape, CallTool
<1>2. \/ \E d \in {"rejected", "tool_calls", ""}, e \in {"error", "limit", "cancelled"} : Finish(e, d)
      \/ agent.toolCalls < MaxToolCalls /\ AgentGoes([agent EXCEPT !.toolCalls = tc, !.at = "calling"])
      \/ agent.toolCalls < MaxToolCalls
         /\ AgentGoes([agent EXCEPT !.toolCalls = tc, !.todo = Tail(@), !.stepFailed = TRUE,
                               !.results = Append(@, r)])
  BY DEF CallTool
<1>3. agent.toolCalls < MaxToolCalls => tc \in 0..MaxToolCalls
  BY <1>1, AgentAssumption
<1>4. c \in AnyCall /\ c.id \in {1, 2} /\ Tail(agent.todo) \in Seq(AnyCall)
  <2>1. c \in AnyCall /\ Tail(agent.todo) \in Seq(AnyCall)
    BY <1>1, HeadTakenOff
  <2> HIDE DEF c
  <2>2. c.id \in {1, 2}
    BY <2>1 DEF AnyCall
  <2> QED BY <2>1, <2>2
<1>5. r \in AnyResult /\ r.id = c.id /\ r.failed = TRUE /\ r.content = <<"text">>
  <2>1. <<"text">> \in Seq(AnyBlock)
    <3>1. "text" \in AnyBlock
      BY DEF AnyBlock
    <3> QED BY <3>1, JustOne, Zenon
  <2> DEFINE x == <<"text">>
             yes == TRUE
  <2>2. x \in Seq(AnyBlock) /\ yes \in BOOLEAN
    BY <2>1
  <2> HIDE DEF x, yes
  <2>3. [id |-> c.id, failed |-> yes, content |-> x] \in AnyResult
    BY <1>4, <2>2 DEF AnyResult
  <2> QED BY <2>3 DEF x, yes
<1>6. \A b \in 1..Len(r.content) : r.content[b] \in Blocks(agent.protocol)
  <2>1. "text" \in Blocks(agent.protocol)
    BY DEF Blocks, Kept
  <2>2. Len(<<"text">>) = 1 /\ <<"text">>[1] = "text" /\ \A b \in 1..1 : b = 1
    OBVIOUS
  <2> HIDE DEF r
  <2> QED BY <1>5, <2>1, <2>2
<1> HIDE DEF r, tc
<1>7. CASE \E d \in {"rejected", "tool_calls", ""}, e \in {"error", "limit", "cancelled"} : Finish(e, d)
  <2>1. PICK d \in {"rejected", "tool_calls", ""}, e \in {"error", "limit", "cancelled"} : Finish(e, d)
    BY <1>7
  <2>2. e # "ok" /\ agent.at # "over" /\ UNCHANGED talk
    BY <1>1
  <2> QED BY <2>1, <2>2, QuietEnd
<1>8. CASE agent.toolCalls < MaxToolCalls /\ AgentGoes([agent EXCEPT !.toolCalls = tc, !.at = "calling"])
  <2>1. agent' = [agent EXCEPT !.toolCalls = tc, !.at = "calling"] /\ UNCHANGED <<talk, agentCtx, denied, stepVerdict>>
    BY <1>1, <1>8 DEF AgentGoes
  <2>2. /\ AgentShape(agent') /\ agent'.at = "calling" /\ agent'.protocol = agent.protocol /\ agent'.todo = agent.todo
        /\ agent'.results = agent.results /\ agent'.stepFailed = agent.stepFailed
    BY <1>1, <1>3, <1>8, <2>1 DEF AgentShape, Places
  <2>3. InStep /\ denied = FALSE
    BY <1>1 DEF AgentInv
  <2>4. InStep'
    BY <1>1, <2>1, <2>2, <2>3 DEF InStep
  <2> QED BY <2>1, <2>2, <2>3, <2>4 DEF AgentInv
<1>9. CASE agent.toolCalls < MaxToolCalls
           /\ AgentGoes([agent EXCEPT !.toolCalls = tc, !.todo = Tail(@), !.stepFailed = TRUE, !.results = Append(@, r)])
  <2> DEFINE tail == Tail(agent.todo)
             rs == Append(agent.results, r)
             yes == TRUE
  <2>1. agent' = [agent EXCEPT !.toolCalls = tc, !.todo = tail, !.stepFailed = yes, !.results = rs]
        /\ UNCHANGED <<talk, agentCtx, denied, stepVerdict>>
    BY <1>1, <1>9 DEF AgentGoes
  <2>2. rs \in Seq(AnyResult) /\ tail \in Seq(AnyCall) /\ yes \in BOOLEAN /\ yes # FALSE
    BY <1>1, <1>4, <1>5, AppendedTo
  <2> HIDE DEF tail, rs, yes
  <2>3. /\ AgentShape(agent') /\ agent'.at = "calls" /\ agent'.protocol = agent.protocol /\ agent'.todo = tail
        /\ agent'.results = rs /\ agent'.stepFailed = yes
    BY <1>1, <1>3, <1>9, <2>1, <2>2 DEF AgentShape, Places
  <2>4. agent'.todo = Tail(agent.todo) /\ agent'.results = Append(agent.results, r)
    BY <2>3 DEF tail, rs
  <2>5. r \in AnyResult /\ r.id = Head(agent.todo).id /\ agent.at \in {"calls", "calling"}
    BY <1>1, <1>5
  <2>6. agent'.stepFailed = FALSE => agent.stepFailed = FALSE /\ ~r.failed
    BY <2>2, <2>3
  <2> QED BY <1>1, <1>6, <2>1, <2>3, <2>4, <2>5, <2>6, ResultKeeps
<1> QED BY <1>2, <1>7, <1>8, <1>9

LEMMA AnswerKeeps ==
    ASSUME AgentInv, NEW content \in Contents, NEW failing \in BOOLEAN, ToolAnswers(content, failing)
    PROVE  AgentInv'
<1> DEFINE c == Head(agent.todo)
           shown == Projection(agent.protocol, content)
           r == [id |-> c.id, failed |-> failing, content |-> shown]
           fl == agent.stepFailed \/ failing
           tail == Tail(agent.todo)
           rs == Append(agent.results, r)
<1>1. /\ AgentShape(agent) /\ agent.at = "calling" /\ talk' = talk /\ InStep
      /\ agent.todo \in Seq(AnyCall) /\ agent.results \in Seq(AnyResult)
      /\ agent.protocol \in Protocols /\ agent.stepFailed \in BOOLEAN
  BY DEF AgentInv, AgentShape, ToolAnswers
<1>2. agent.todo # <<>>
  BY <1>1 DEF InStep
<1>3. agent' = [agent EXCEPT !.at = "calls", !.todo = tail, !.stepFailed = fl, !.results = rs]
      /\ UNCHANGED <<talk, agentCtx, denied, stepVerdict>>
  BY DEF ToolAnswers, AgentGoes
<1>4. shown \in Seq(AnyBlock) /\ \A b \in 1..Len(shown) : shown[b] \in Blocks(agent.protocol)
  BY <1>1, ContentIsShown
<1>5. fl \in BOOLEAN /\ (fl = FALSE => agent.stepFailed = FALSE /\ failing = FALSE)
  BY <1>1
<1>6. c \in AnyCall /\ c.id \in {1, 2} /\ tail \in Seq(AnyCall)
  <2>1. c \in AnyCall /\ tail \in Seq(AnyCall)
    BY <1>1, <1>2, HeadTakenOff
  <2> HIDE DEF c
  <2>2. c.id \in {1, 2}
    BY <2>1 DEF AnyCall
  <2> QED BY <2>1, <2>2
<1> HIDE DEF shown, fl, c
<1>7. r \in AnyResult /\ r.id = c.id /\ r.failed = failing /\ r.content = shown
  BY <1>4, <1>6 DEF AnyResult
<1> HIDE DEF r
<1>8. rs \in Seq(AnyResult)
  BY <1>1, <1>7, AppendedTo
<1> HIDE DEF rs, tail
<1>9. /\ AgentShape(agent') /\ agent'.at = "calls" /\ agent'.protocol = agent.protocol /\ agent'.todo = tail
      /\ agent'.results = rs /\ agent'.stepFailed = fl
  BY <1>1, <1>3, <1>5, <1>6, <1>8 DEF AgentShape, Places
<1>10. agent'.todo = Tail(agent.todo) /\ agent'.results = Append(agent.results, r)
  BY <1>9 DEF tail, rs
<1>11. r.id = Head(agent.todo).id /\ \A b \in 1..Len(r.content) : r.content[b] \in Blocks(agent.protocol)
  BY <1>4, <1>7 DEF c
<1>12. agent'.stepFailed = FALSE => agent.stepFailed = FALSE /\ ~r.failed
  BY <1>5, <1>7, <1>9
<1> QED BY <1>1, <1>2, <1>3, <1>7, <1>9, <1>10, <1>11, <1>12, ResultKeeps

(* The results of a tool step become a message.                                    *)
LEMMA StepEndKeeps == ASSUME AgentInv, StepEnds PROVE AgentInv'
<1> DEFINE m == [role |-> "tool", results |-> agent.results]
           last == talk[Len(talk)]
<1>1. /\ AgentShape(agent) /\ agent.at = "calls" /\ agent.todo = <<>> /\ talk' = Append(talk, m)
      /\ InStep /\ denied = FALSE /\ talk \in Seq(Message) /\ agent.results \in Seq(AnyResult)
      /\ agent.stepFailed \in BOOLEAN
  BY DEF AgentInv, AgentShape, StepEnds
<1>2. agent' = [agent EXCEPT !.at = "loop", !.lastStepFailed = agent.stepFailed]
      /\ UNCHANGED <<agentCtx, denied, stepVerdict>>
  BY DEF StepEnds, AgentGoes
<1>3. /\ AgentShape(agent') /\ agent'.at = "loop" /\ agent'.protocol = agent.protocol
      /\ agent'.results = agent.results /\ agent'.lastStepFailed = agent.stepFailed
  BY <1>1, <1>2 DEF AgentShape, Places
<1>4. m \in Message /\ m.role = "tool" /\ m.results = agent.results
  BY <1>1 DEF Message, ToolMessage
<1> HIDE DEF m
<1>5. /\ talk' \in Seq(Message) /\ Len(talk') = Len(talk) + 1 /\ Len(talk) \in Nat
      /\ \A i \in 1..Len(talk) : talk'[i] = talk[i]
      /\ talk'[Len(talk) + 1] = m
  BY <1>1, <1>4, AppendedTo
<1>6. Answering(last.calls, agent.results) /\ (agent.stepFailed = FALSE => NoneFailed(agent.results))
  <2>1. Len(agent.results) \in Nat /\ Len(agent.todo) = 0
    BY <1>1, NoneThere
  <2>2. Len(agent.results) + Len(agent.todo) = Len(last.calls)
        /\ \A i \in 1..Len(agent.results) : agent.results[i].id = last.calls[i].id
    BY <1>1 DEF InStep
  <2>3. Len(agent.results) = Len(last.calls)
    <3>1. \A a \in Nat : a + 0 = a
      OBVIOUS
    <3> QED BY <2>1, <2>2, <3>1, Zenon
  <2> HIDE DEF last
  <2> QED BY <1>1, <2>2, <2>3 DEF Answering, InStep
<1>7. Chained(talk')
  <2> SUFFICES ASSUME NEW i \in 1..Len(talk'), i + 1 <= Len(talk'), talk'[i].role = "assistant"
               PROVE  talk'[i + 1].role = "tool" /\ Answering(talk'[i].calls, talk'[i + 1].results)
    BY DEF Chained
  <2>1. i \in 1..Len(talk) /\ talk'[i] = talk[i]
    BY <1>5
  <2>2. CASE i + 1 <= Len(talk)
    <3>1. i + 1 \in 1..Len(talk)
      BY <2>1, <2>2, <1>5
    <3> QED BY <1>5, <2>1, <2>2, <3>1 DEF AgentInv, Chained
  <2>3. CASE ~(i + 1 <= Len(talk))
    <3>1. i = Len(talk)
      BY <1>5, <2>1, <2>3
    <3>2. talk'[i + 1] = m /\ talk'[i] = last
      BY <1>5, <2>1, <3>1
    <3> HIDE DEF last
    <3> QED BY <1>4, <1>6, <3>2
  <2> QED BY <2>2, <2>3
<1>8. Shown(talk', agent.protocol)
  <2>1. \A i \in 1..Len(talk') : i \in 1..Len(talk) \/ i = Len(talk) + 1
    BY <1>5
  <2> QED BY <1>4, <1>5, <2>1 DEF AgentInv, Shown
<1>9. BeforeTurn'
  BY <1>3, <1>4, <1>5, <1>6 DEF BeforeTurn
<1> QED BY <1>1, <1>2, <1>3, <1>5, <1>7, <1>8, <1>9 DEF AgentInv

LEMMA AgentInvNext == AgentInv /\ [AgentNext]_agentVars => AgentInv'
<1> SUFFICES ASSUME AgentInv, [AgentNext]_agentVars PROVE AgentInv'
  OBVIOUS
<1>P. AgentShape(agent) /\ agent.protocol \in Protocols
  BY DEF AgentInv, AgentShape
<1>1. CASE RequestFails \/ RunRefused \/ Connected \/ ListedBadly \/ Ask
  BY <1>1, BeforeTurnKeeps
<1>2. CASE \E n \in Offers, object, more \in BOOLEAN : Listed(n, object, more)
  BY <1>2, BeforeTurnKeeps
<1>3. CASE \E d \in Declines : Declined(d)
  BY <1>3, BeforeTurnKeeps
<1>4. CASE \E t \in Turns(agent.protocol) : TurnArrives(t)
  BY <1>4, TurnKeeps
<1>5. CASE CallTool
  BY <1>5, CallKeeps
<1>6. CASE \E c \in Contents, f \in BOOLEAN : ToolAnswers(c, f)
  BY <1>6, AnswerKeeps
<1>7. CASE StepEnds
  BY <1>7, StepEndKeeps
<1>8. CASE WallEnds \/ RunCancelled
  <2>1. agent.at # "over" /\ agentCtx' \in {"wall", "cancelled"} /\ UNCHANGED <<agent, talk, denied, stepVerdict>>
    BY <1>8 DEF WallEnds, RunCancelled
  <2> QED BY <2>1 DEF AgentInv, BeforeTurn, InStep
<1>9. CASE UNCHANGED agentVars
  <2>1. UNCHANGED <<agent, talk, agentCtx, denied, stepVerdict>>
    BY <1>9 DEF agentVars
  <2> QED BY <2>1 DEF AgentInv, BeforeTurn, InStep
<1> QED BY <1>1, <1>2, <1>3, <1>4, <1>5, <1>6, <1>7, <1>8, <1>9 DEF AgentNext

(* Where the run is, what it has asked, what it was answered and what it told    *)
(* belong together, whatever the model and the tools answer.                      *)
THEOREM AgentInvariant == AgentSpec => []AgentInv
<1> QED BY AgentInvInit, AgentInvNext, PTL DEF AgentSpec

LEMMA SameIds ==
    ASSUME NEW calls \in Seq(AnyCall), NEW results \in Seq(AnyResult), Answering(calls, results)
    PROVE  [k \in DOMAIN calls |-> calls[k].id] = [k \in DOMAIN results |-> results[k].id]
<1>1. DOMAIN calls = 1..Len(calls) /\ DOMAIN results = 1..Len(results)
  OBVIOUS
<1>2. DOMAIN calls = DOMAIN results /\ \A k \in DOMAIN calls : calls[k].id = results[k].id
  BY <1>1 DEF Answering
<1> QED BY <1>2

LEMMA AgentInvSound == AgentInv => AgentSound
<1> SUFFICES ASSUME AgentInv PROVE AgentSound
  OBVIOUS
<1>1. /\ AgentShape(agent) /\ talk \in Seq(Message) /\ Len(talk) \in Nat /\ DOMAIN talk = 1..Len(talk)
      /\ Chained(talk) /\ Shown(talk, agent.protocol)
  BY DEF AgentInv
<1>2. \A i \in 1..Len(talk) : talk[i] \in Message
  BY <1>1
<1>3. \A m \in Message : /\ m.role = "assistant" => m.calls \in Seq(AnyCall)
                         /\ m.role = "tool" => m.results \in Seq(AnyResult)
  BY DEF Message, TurnMessage, ToolMessage
<1>4. \A rs \in Seq(AnyResult) : DOMAIN rs = 1..Len(rs) /\ \A j \in 1..Len(rs) : rs[j] \in AnyResult
  OBVIOUS
<1>5. AgentTellsTruth
  <2> SUFFICES ASSUME agent.at = "over"
               PROVE  /\ denied = TRUE => stepVerdict.end = "revoked"
                      /\ stepVerdict.end = "ok" =>
                           /\ agentCtx = "live"
                           /\ talk # <<>> /\ talk[Len(talk)].role = "assistant" /\ talk[Len(talk)].stop = "end_turn"
                           /\ Len(talk) > 1 => \A x \in DOMAIN talk[Len(talk) - 1].results :
                                                 ~talk[Len(talk) - 1].results[x].failed
    BY Zenon DEF AgentTellsTruth
  <2>1. denied = TRUE => stepVerdict.end = "revoked"
    BY DEF AgentInv
  <2>2. ASSUME stepVerdict.end = "ok" PROVE agentCtx = "live" /\ SaidOk(talk)
    BY <2>2 DEF AgentInv
  <2>3. ASSUME SaidOk(talk), Len(talk) > 1
        PROVE  \A x \in DOMAIN talk[Len(talk) - 1].results : ~talk[Len(talk) - 1].results[x].failed
    <3> DEFINE j == Len(talk) - 1
    <3>1. j \in 1..Len(talk)
      BY <1>1, <2>3
    <3>2. NoneFailed(talk[j].results) /\ talk[j].role = "tool"
      BY <2>3 DEF SaidOk
    <3> HIDE DEF j
    <3>3. talk[j].results \in Seq(AnyResult)
      BY <1>2, <1>3, <3>1, <3>2
    <3>4. DOMAIN talk[j].results = 1..Len(talk[j].results)
      BY <1>4, <3>3
    <3>5. \A x \in DOMAIN talk[j].results : ~talk[j].results[x].failed
      BY <3>2, <3>4 DEF NoneFailed
    <3> QED BY <3>5 DEF j
  <2> QED BY <2>1, <2>2, <2>3 DEF SaidOk
<1>6. Validate(agent.protocol, talk, TRUE)
  <2> SUFFICES ASSUME NEW i \in DOMAIN talk, talk[i].role = "tool", NEW j \in DOMAIN talk[i].results,
                      NEW b \in DOMAIN talk[i].results[j].content
               PROVE  talk[i].results[j].content[b] \in Blocks(agent.protocol)
    BY DEF Validate
  <2>1. i \in 1..Len(talk) /\ talk[i].results \in Seq(AnyResult)
    BY <1>1, <1>2, <1>3
  <2>2. j \in 1..Len(talk[i].results) /\ talk[i].results[j] \in AnyResult
    BY <1>4, <2>1
  <2>3. b \in 1..Len(talk[i].results[j].content)
    <3>1. talk[i].results[j].content \in Seq(AnyBlock)
      BY <2>2 DEF AnyResult
    <3> QED BY <3>1
  <2> QED BY <1>1, <2>1, <2>2, <2>3 DEF Shown, AllShown
<1>7. ASSUME agent.at = "asking", NEW i \in DOMAIN talk, talk[i].role = "assistant"
      PROVE  /\ i < Len(talk) /\ talk[i + 1].role = "tool"
             /\ [k \in DOMAIN talk[i].calls |-> talk[i].calls[k].id]
                = [k \in DOMAIN talk[i + 1].results |-> talk[i + 1].results[k].id]
  <2>1. BeforeTurn /\ i \in 1..Len(talk)
    BY <1>1, <1>7 DEF AgentInv
  <2>2. talk # <<>> /\ talk[Len(talk)].role = "tool"
    BY <1>1, <2>1 DEF BeforeTurn
  <2>3. "tool" # "assistant"
    OBVIOUS
  <2>4. i # Len(talk)
    BY <1>7, <2>2, <2>3
  <2>5. i < Len(talk) /\ i + 1 <= Len(talk) /\ i + 1 \in 1..Len(talk)
    BY <1>1, <2>1, <2>4
  <2>6. talk[i + 1].role = "tool" /\ Answering(talk[i].calls, talk[i + 1].results)
    BY <1>1, <1>7, <2>1, <2>5 DEF Chained
  <2>7. talk[i].calls \in Seq(AnyCall) /\ talk[i + 1].results \in Seq(AnyResult)
    BY <1>2, <1>3, <1>7, <2>1, <2>5, <2>6
  <2> QED BY <2>5, <2>6, <2>7, SameIds
<1>8. agent.steps <= MaxSteps /\ agent.toolCalls <= MaxToolCalls
  BY <1>1, AgentAssumption DEF AgentShape
<1>9. TalkIsWhole
  BY <1>6, <1>7, <1>8 DEF TalkIsWhole
<1> QED BY <1>5, <1>9 DEF AgentSound

(* "ok" is only said of a run whose model ended its turn and whose last tool step    *)
(* did not fail, and every request carries the answers to all calls.               *)
THEOREM AgentIsSound == AgentSpec => []AgentSound
<1> QED BY AgentInvariant, AgentInvSound, PTL

=============================================================================
