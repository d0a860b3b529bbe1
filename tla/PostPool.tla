------------------------------ MODULE PostPool ------------------------------
(* The write path of linkedin-seite. The core sends one approved action of    *)
(* one entry; a spawned job reads the entry, compares the hash of its whole    *)
(* effect with the approval, and then carries out the action in several        *)
(* requests to LinkedIn (external). Before each step it asks the server        *)
(* process, which counts, remembers that a write may have begun, and tells     *)
(* the core in the end whether nothing at all can have happened.               *)
EXTENDS Naturals, Sequences, FiniteSets

CONSTANTS Texts,          \* what a human may write into the entry
          ActionsPerDay,  \* WRITE_ACTIONS_PER_DAY, 5 in the source
          HttpPerDay,     \* WRITE_HTTP_PER_DAY, 45 in the source
          MaxRequests,    \* bound on requests of the core
          MaxPostUpsets   \* bound on jobs that die, on days and on restarts

VARIABLES
    entry,      \* the record in the Redaktionsplan
    postJob,    \* WritePool.job, see NoWork
    doneOps,       \* WritePool.done: effects with a confirmed result
    counted,    \* the counters of the day: actions and http
    closing,    \* WritePool.closed
    core,       \* the last request of the core and its answer
    page,       \* LinkedIn: the text shown by the post, and if one is shown
    requests, postUpsets

postVars == <<entry, postJob, doneOps, counted, closing, core, page, requests, postUpsets>>

(* The requests of an action, in order; init and upload belong to a picture,   *)
(* status is the only one that does not write.                                 *)
Operations == [posten |-> <<"video_init", "upload", "video_status", "post_create">>,
               bearbeiten |-> <<"post_update">>, loeschen |-> <<"post_delete">>]
Aktionen == DOMAIN Operations
Wirkung(action, text) == [aktion |-> action, text |-> IF action = "loeschen" THEN "" ELSE text]

NoWork == [at |-> "none", req |-> Wirkung("loeschen", ""), op |-> 1, written |-> FALSE,
           wrote |-> FALSE]
NoCall == [req |-> Wirkung("loeschen", ""), answer |-> "none", notExecuted |-> FALSE]

PostInit ==
    /\ entry \in Texts /\ postJob = NoWork /\ doneOps = {} /\ closing = FALSE
    /\ counted = [actions |-> 0, http |-> 0] /\ core = NoCall
    /\ page = [text |-> "", shown |-> TRUE] /\ requests = 0 /\ postUpsets = 0

PostBusy == postJob.at \notin {"none", "killed"}

(* The answer of the errors middleware: the result of the job, or an error     *)
(* with the mark that nothing was executed, which a refused approval never      *)
(* carries.                                                                     *)
PostAnswer(code, notExecuted) ==
    core' = IF core.answer # "awaited" THEN core
            ELSE [core EXCEPT !.answer = code,
                              !.notExecuted = notExecuted /\ code # "nicht_freigegeben"]
(* _finish_error and _kill: nothing runs between them. *)
FinishError(code) ==
    /\ PostAnswer(code, ~postJob.written)
    /\ postJob' = [postJob EXCEPT !.at = "killed"]
JobGoes(a) == postJob' = [postJob EXCEPT !.at = a]

(* A human edits the entry, and approves what it says now; the core sends the   *)
(* approved effect. While a job runs the answer is schreiben_belegt; a request  *)
(* after close starts nothing either.                                           *)
Edited(t) ==
    /\ t # entry /\ entry' = t
    /\ UNCHANGED <<postJob, doneOps, counted, closing, core, page, requests, postUpsets>>
Request(action, text) ==
    LET req == Wirkung(action, text) IN
    /\ requests < MaxRequests /\ requests' = requests + 1
    /\ core.answer # "awaited"
    /\ \/ /\ (PostBusy \/ closing)
          /\ core' = [req |-> req, answer |-> "not started", notExecuted |-> TRUE]
          /\ UNCHANGED postJob
       \/ /\ ~PostBusy /\ ~closing
          /\ core' = [req |-> req, answer |-> "awaited", notExecuted |-> FALSE]
          /\ postJob' = [NoWork EXCEPT !.at = "load", !.req = req]
    /\ UNCHANGED <<entry, doneOps, counted, closing, page, postUpsets>>
(* The core, or the connection to it, gives up; the job goes on. *)
CallerGone ==
    /\ core.answer = "awaited" /\ core' = [core EXCEPT !.answer = "gone"]
    /\ UNCHANGED <<entry, postJob, doneOps, counted, closing, page, requests, postUpsets>>

(* The gateway (the core's tools for the entry and its media) fails, or answers *)
(* with something else than this entry and these files.                          *)
GatewayFails == FinishError("gateway_nicht_erreichbar")
(* An entry, a format or the bytes of a medium that the action does not allow.   *)
EntryRefused == FinishError("eintrag_ungueltig")
(* PostAdapter._laden and the comparison of the hash. *)
Load ==
    /\ postJob.at = "load"
    /\ \/ GatewayFails
       \/ EntryRefused
       \/ Wirkung(postJob.req.aktion, entry) # postJob.req /\ FinishError("nicht_freigegeben")
       \/ Wirkung(postJob.req.aktion, entry) = postJob.req /\ JobGoes("hash") /\ UNCHANGED core
    /\ UNCHANGED <<entry, doneOps, counted, closing, page, requests, postUpsets>>
(* report_hash: a confirmed result of the same effect is given again. *)
ReportHash ==
    /\ postJob.at = "hash"
    /\ \/ postJob.req \in doneOps /\ PostAnswer("repeated", FALSE) /\ JobGoes("killed")
       \/ postJob.req \notin doneOps /\ JobGoes("begin") /\ UNCHANGED core
    /\ UNCHANGED <<entry, doneOps, counted, closing, page, requests, postUpsets>>

BeginAction ==
    /\ postJob.at = "begin"
    /\ \/ /\ counted.actions < ActionsPerDay /\ JobGoes("token") /\ UNCHANGED core
          /\ counted' = [counted EXCEPT !.actions = @ + 1]
       \/ /\ counted.actions = ActionsPerDay /\ FinishError("schreib_tageslimit")
          /\ UNCHANGED counted
    /\ UNCHANGED <<entry, doneOps, closing, page, requests, postUpsets>>
GetToken ==
    /\ postJob.at = "token"
    /\ FinishError("token_abgelaufen") \/ (JobGoes("permit") /\ UNCHANGED core)
    /\ UNCHANGED <<entry, doneOps, counted, closing, page, requests, postUpsets>>
Operation == Operations[postJob.req.aktion][postJob.op]
PermitHttp ==
    /\ postJob.at = "permit"
    /\ \/ /\ counted.http < HttpPerDay /\ UNCHANGED core
          /\ counted' = [counted EXCEPT !.http = @ + 1]
          /\ JobGoes(IF Operation = "video_status" THEN "send" ELSE "write")
       \/ /\ counted.http = HttpPerDay /\ FinishError("schreib_http_tageslimit")
          /\ UNCHANGED counted
    /\ UNCHANGED <<entry, doneOps, closing, page, requests, postUpsets>>
(* Deviation: the attempt is not noted before the job may send. *)
WriteRequestLate ==
    /\ postJob.at = "write" /\ JobGoes("send")
    /\ UNCHANGED <<entry, doneOps, counted, closing, core, page, requests, postUpsets>>
(* _schreiben: the server notes the attempt before the job may send. *)
WriteRequest ==
    /\ postJob.at = "write"
    /\ postJob' = [postJob EXCEPT !.at = "send", !.written = TRUE]
    /\ UNCHANGED <<entry, doneOps, counted, closing, core, page, requests, postUpsets>>

Shows(req) == CASE req.aktion = "loeschen" -> [page EXCEPT !.shown = FALSE]
                [] OTHER -> [text |-> req.text, shown |-> TRUE]
Sends(took) ==
    LET last == postJob.op = Len(Operations[postJob.req.aktion])
    IN  page' = IF took /\ last THEN Shows(postJob.req) ELSE page
(* The request to LinkedIn: taken and answered, taken without a usable answer,  *)
(* or refused. A video that is still pending is asked for again.                *)
Send ==
    /\ postJob.at = "send"
    /\ LET ops == Operations[postJob.req.aktion]
           noted == [postJob EXCEPT !.wrote = @ \/ Operation # "video_status"]
       IN  \/ /\ Sends(TRUE) /\ UNCHANGED core
              /\ postJob' = IF postJob.op = Len(ops) THEN [noted EXCEPT !.at = "final"]
                            ELSE [noted EXCEPT !.at = "token", !.op = @ + 1]
           \/ /\ Operation = "video_status" /\ Sends(FALSE) /\ UNCHANGED core
              /\ JobGoes("token")
           \/ /\ \E took \in BOOLEAN : Sends(took)
              /\ PostAnswer("source_unavailable", ~postJob.written)
              /\ postJob' = [noted EXCEPT !.at = "killed"]
    /\ UNCHANGED <<entry, doneOps, counted, closing, requests, postUpsets>>
(* The supervisor receives the result: remembered, then answered. *)
Confirm ==
    /\ postJob.at = "final"
    /\ doneOps' = doneOps \cup {postJob.req}
    /\ PostAnswer("ok", FALSE)
    /\ JobGoes("killed")
    /\ UNCHANGED <<entry, counted, closing, page, requests, postUpsets>>

(* The hard deadline, a job process that dies, and the shutdown, which cancels  *)
(* the supervision. A restart begins with empty counters and an empty memory.    *)
Deadline ==
    /\ PostBusy /\ FinishError("schreiben_zeit_ueberschritten")
    /\ UNCHANGED <<entry, doneOps, counted, closing, page, requests, postUpsets>>
JobDies ==
    /\ PostBusy /\ postUpsets < MaxPostUpsets /\ postUpsets' = postUpsets + 1
    /\ FinishError("worker_failed")
    /\ UNCHANGED <<entry, doneOps, counted, closing, page, requests>>
ClosePost ==
    /\ ~closing /\ postUpsets < MaxPostUpsets /\ postUpsets' = postUpsets + 1
    /\ closing' = TRUE
    /\ IF PostBusy THEN FinishError("service_stopping") ELSE UNCHANGED <<core, postJob>>
    /\ UNCHANGED <<entry, doneOps, counted, page, requests>>
PostRestart ==
    /\ closing /\ closing' = FALSE
    /\ postJob' = NoWork /\ doneOps' = {} /\ counted' = [actions |-> 0, http |-> 0]
    /\ UNCHANGED <<entry, core, page, requests, postUpsets>>
DayTurns ==
    /\ postUpsets < MaxPostUpsets /\ postUpsets' = postUpsets + 1
    /\ counted' = [actions |-> 0, http |-> 0]
    /\ UNCHANGED <<entry, postJob, doneOps, closing, core, page, requests>>

PostNext ==
    \/ \E t \in Texts : Edited(t)
    \/ \E a \in Aktionen, t \in Texts : Request(a, t)
    \/ CallerGone \/ Load \/ ReportHash \/ BeginAction \/ GetToken \/ PermitHttp
    \/ WriteRequest \/ Send \/ Confirm \/ Deadline \/ JobDies \/ ClosePost \/ PostRestart \/ DayTurns
PostSpec == PostInit /\ [][PostNext]_postVars

(* Who is told that nothing was executed can rely on it: no write of that       *)
(* request has reached LinkedIn, nor is one left that could still send it; and   *)
(* what was confirmed once is not sent again while the server remembers it.     *)
NotExecutedIsTrue ==
    /\ core.notExecuted => ~(postJob.req = core.req /\ PostBusy /\ core.answer # "not started")
    /\ core.notExecuted /\ core.answer # "not started" => ~postJob.wrote
    /\ postJob.wrote => postJob.written
    /\ postJob.at \in {"begin", "token", "permit", "write", "send"} => postJob.req \notin doneOps
=============================================================================
