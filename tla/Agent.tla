------------------------------- MODULE Agent -------------------------------
(* One run_agent call of the agent runner: it connects to the gateway, lists *)
(* the tools, and then lets the model take turns; a turn either ends the run *)
(* or calls tools, whose results go back to the model. A request waits at    *)
(* the gateway (external) for as long as it likes; only the wall time and a   *)
(* cancellation end the wait. Finish decides what the caller is told.         *)
EXTENDS Naturals, Sequences, FiniteSets

CONSTANTS Offers,        \* names of tools the gateway may offer
          MaxSteps,      \* Limits.Steps
          MaxToolCalls,  \* Limits.ToolCalls
          MaxPages       \* pages of the tool list, 1024 in the source

ASSUME AgentAssumption == MaxSteps \in Nat \ {0} /\ MaxToolCalls \in Nat

VARIABLES
    agent,     \* the locals of Runner.run, see AgentInit
    talk,      \* the history of the conversation, the first messages left out
    agentCtx,  \* its context: "live", "wall" or "cancelled"
    denied,    \* bearer.revoked: some answer was 401 or 403
    stepVerdict    \* what the caller was told, [end, detail]

agentVars == <<agent, talk, agentCtx, denied, stepVerdict>>

Protocols == {"anthropic", "openai"}

(* A tool call of the model. The arguments of the openai protocol are a      *)
(* string that need not hold an object; the other protocol's content is       *)
(* refused before (adapter ValidateContent).                                  *)
ToolCalls(p) == [name : Offers \cup {"unknown"}, id : {1, 2},
                 object : IF p = "openai" THEN BOOLEAN ELSE {TRUE}]
Turns(p) == [stop : {"end_turn", "max_tokens", "content_filter", "tool_use"},
             calls : {<<>>} \cup {<<c>> : c \in ToolCalls(p)}]
            \cup [stop : {"tool_use"},
                  calls : {cs \in [1..2 -> ToolCalls(p)] : cs[2].object}]

(* What a tool may return, and what the two adapters make of it.              *)
Contents == {<<>>} \cup {<<b>> : b \in {"text", "image", "odd image", "resource"}}
Kept(p) == IF p = "openai" THEN {"text"} ELSE {"text", "image"}
Projection(p, content) ==
    IF content = <<>> THEN <<"placeholder">>
    ELSE [i \in DOMAIN content |->
            IF content[i] \in Kept(p) THEN content[i] ELSE "placeholder"]

(* The check of every request before it leaves. It also looks at the schemas  *)
(* of the tools, which must be objects for the openai protocol.               *)
Blocks(p) == Kept(p) \cup {"placeholder"}
Validate(p, messages, schemas) ==
    /\ p = "openai" => schemas
    /\ \A i \in DOMAIN messages : messages[i].role = "tool" =>
         \A j \in DOMAIN messages[i].results :
           \A b \in DOMAIN messages[i].results[j].content :
             messages[i].results[j].content[b] \in Blocks(p)

(* parse: limits are positive, ToolCalls may be zero; anything else is no run. *)
AgentInit ==
    /\ agent \in [at : {"connecting"}, protocol : Protocols, pages : {0},
                  allowed : {{}}, schemas : {TRUE}, steps : {0}, toolCalls : {0},
                  todo : {<<>>}, results : {<<>>}, stepFailed : {FALSE},
                  lastStepFailed : {FALSE}]
    /\ talk = <<>> /\ agentCtx = "live" /\ denied = FALSE
    /\ stepVerdict = [end |-> "", detail |-> ""]

(* Deviation: the outcome as the step reached it. *)
ToldAsReached(end, detail, refused) == [end |-> end, detail |-> detail]
Told(end, detail, refused) ==
    IF refused THEN [end |-> "revoked", detail |-> ""]
    ELSE IF agentCtx = "wall" THEN [end |-> "limit", detail |-> "wall"]
    ELSE IF agentCtx = "cancelled" THEN [end |-> "cancelled", detail |-> ""]
    ELSE [end |-> end, detail |-> detail]
Closes(end, detail, refused) ==
    /\ denied' = refused
    /\ stepVerdict' = Told(end, detail, refused)
    /\ agent' = [agent EXCEPT !.at = "over"]
Finish(end, detail) == Closes(end, detail, denied) /\ UNCHANGED agentCtx
AgentGoes(a) == agent' = a /\ UNCHANGED <<agentCtx, denied, stepVerdict>>

Waits == agent.at \in {"connecting", "listing", "asking", "calling"}
(* A request that the context ends, a gateway that fails or answers nonsense,  *)
(* and one that refuses the token.                                            *)
RequestFails ==
    /\ Waits
    /\ Finish("error", "gateway") /\ UNCHANGED talk
RunRefused ==
    /\ Waits /\ agentCtx = "live"
    /\ Closes("error", "gateway", TRUE) /\ UNCHANGED <<agentCtx, talk>>

Connected ==
    /\ agent.at = "connecting" /\ agentCtx = "live"
    /\ AgentGoes([agent EXCEPT !.at = "listing"]) /\ UNCHANGED talk

(* A page with one more name; a name twice, a bad name or a cursor that comes  *)
(* back ends the run.                                                          *)
Listed(name, object, more) ==
    /\ agent.at = "listing" /\ agentCtx = "live"
    /\ name \notin agent.allowed
    /\ IF more /\ agent.pages + 1 >= MaxPages THEN Finish("error", "gateway")
       ELSE AgentGoes([agent EXCEPT !.allowed = @ \cup {name}, !.pages = @ + 1,
                               !.schemas = @ /\ object,
                               !.at = IF more THEN "listing" ELSE "loop"])
    /\ UNCHANGED talk
ListedBadly ==
    /\ agent.at = "listing" /\ agentCtx = "live"
    /\ Finish("error", "rejected") /\ UNCHANGED talk

(* The head of the loop: the budget, the context, and the next request.        *)
Ask ==
    /\ agent.at = "loop"
    /\ \/ agent.steps = MaxSteps /\ Finish("limit", "steps")
       \/ /\ agent.steps < MaxSteps /\ agentCtx # "live" /\ Finish("cancelled", "")
       \/ /\ agent.steps < MaxSteps /\ agentCtx = "live"
          /\ Validate(agent.protocol, talk, agent.schemas)
          /\ AgentGoes([agent EXCEPT !.at = "asking", !.steps = @ + 1])
       \/ /\ agent.steps < MaxSteps /\ agentCtx = "live"
          /\ ~Validate(agent.protocol, talk, agent.schemas)
          /\ Finish("error", "rejected")
    /\ UNCHANGED talk

(* modelBody: the gateway's own error classes; what it does not know becomes   *)
(* error/gateway.                                                              *)
Declines == {[end |-> "limit", detail |-> d] : d \in {"tokens_in", "gateway"}}
            \cup {[end |-> e, detail |-> ""] : e \in {"cancelled", "revoked"}}
            \cup {[end |-> "error", detail |-> d] : d \in {"provider", "rejected"}}
Declined(d) ==
    /\ agent.at = "asking" /\ agentCtx = "live"
    /\ Finish(d.end, d.detail) /\ UNCHANGED talk

(* A turn of the model: appended, and judged by its stop reason and calls.      *)
TurnArrives(t) ==
    /\ agent.at = "asking" /\ agentCtx = "live"
    /\ t.stop = "content_filter" => agent.protocol = "openai"
    /\ talk' = Append(talk, [role |-> "assistant", stop |-> t.stop, calls |-> t.calls])
    /\ CASE t.stop = "content_filter" -> Finish("limit", "content_filter")
         [] t.stop = "end_turn" /\ t.calls = <<>> /\ agent.lastStepFailed ->
              Finish("error", "tools")
         [] t.stop = "end_turn" /\ t.calls = <<>> /\ ~agent.lastStepFailed ->
              Finish("ok", "")
         [] t.stop = "max_tokens" -> Finish("limit", "tokens_out")
         [] t.stop = "tool_use" /\ t.calls # <<>> ->
              AgentGoes([agent EXCEPT !.at = "calls", !.todo = t.calls, !.results = <<>>,
                                 !.stepFailed = FALSE])
         [] OTHER -> Finish("error", "gateway")

(* The next call of the turn, checked in the order of the loop; without an     *)
(* object for an input it fails without a request.                             *)
Used == {agent.results[i].id : i \in DOMAIN agent.results}
CallTool ==
    LET c == Head(agent.todo)
        counted == [agent EXCEPT !.toolCalls = @ + 1]
    IN  /\ agent.at = "calls" /\ agent.todo # <<>>
        /\ \/ (c.name \notin agent.allowed \/ c.id \in Used) /\ Finish("error", "rejected")
           \/ /\ c.name \in agent.allowed /\ c.id \notin Used
              /\ \/ agent.toolCalls = MaxToolCalls /\ Finish("limit", "tool_calls")
                 \/ /\ agent.toolCalls < MaxToolCalls /\ agentCtx # "live"
                    /\ Finish("cancelled", "")
                 \/ /\ agent.toolCalls < MaxToolCalls /\ agentCtx = "live" /\ c.object
                    /\ AgentGoes([counted EXCEPT !.at = "calling"])
                 \/ /\ agent.toolCalls < MaxToolCalls /\ agentCtx = "live" /\ ~c.object
                    /\ AgentGoes([counted EXCEPT !.todo = Tail(@), !.stepFailed = TRUE,
                               !.results = Append(@, [id |-> c.id, failed |-> TRUE,
                                                      content |-> <<"text">>])])
        /\ UNCHANGED talk
ToolAnswers(content, failing) ==
    /\ agent.at = "calling" /\ agentCtx = "live"
    /\ AgentGoes([agent EXCEPT !.at = "calls", !.todo = Tail(@),
                !.stepFailed = @ \/ failing,
                !.results = Append(@, [id |-> Head(agent.todo).id, failed |-> failing,
                              content |-> Projection(agent.protocol, content)])])
    /\ UNCHANGED talk
StepEnds ==
    /\ agent.at = "calls" /\ agent.todo = <<>>
    /\ talk' = Append(talk, [role |-> "tool", results |-> agent.results])
    /\ AgentGoes([agent EXCEPT !.at = "loop", !.lastStepFailed = agent.stepFailed])

(* The wall time, and a caller or a service that goes away.                    *)
WallEnds ==
    /\ agentCtx = "live" /\ agent.at # "over" /\ agentCtx' = "wall"
    /\ UNCHANGED <<agent, talk, denied, stepVerdict>>
RunCancelled ==
    /\ agentCtx = "live" /\ agent.at # "over" /\ agentCtx' = "cancelled"
    /\ UNCHANGED <<agent, talk, denied, stepVerdict>>

AgentNext ==
    \/ RequestFails \/ RunRefused \/ Connected \/ ListedBadly \/ Ask \/ CallTool
    \/ StepEnds \/ WallEnds \/ RunCancelled
    \/ \E n \in Offers, object, more \in BOOLEAN : Listed(n, object, more)
    \/ \E d \in Declines : Declined(d)
    \/ \E t \in Turns(agent.protocol) : TurnArrives(t)
    \/ \E c \in Contents, f \in BOOLEAN : ToolAnswers(c, f)
AgentSpec == AgentInit /\ [][AgentNext]_agentVars

(* "ok" is only said when the model ended its turn by itself, no call of the   *)
(* last tool step failed, nothing had refused the token and the context had    *)
(* not ended; a refused token is always said to be one.                        *)
AgentTellsTruth ==
    agent.at = "over" =>
      /\ denied => stepVerdict.end = "revoked"
      /\ stepVerdict.end = "ok" =>
           /\ agentCtx = "live"
           /\ talk # <<>> /\ talk[Len(talk)].role = "assistant" /\ talk[Len(talk)].stop = "end_turn"
           /\ Len(talk) > 1 => \A r \in DOMAIN talk[Len(talk) - 1].results :
                                 ~talk[Len(talk) - 1].results[r].failed
(* What is sent to the model answers every call of every turn once and in      *)
(* order, whatever the tools returned, and the budgets hold; so a request is    *)
(* only refused by the runner's own check for the schemas of the gateway.      *)
TalkIsWhole ==
    /\ agent.at = "asking" =>
         \A i \in DOMAIN talk : talk[i].role = "assistant" =>
           /\ i < Len(talk) /\ talk[i + 1].role = "tool"
           /\ [k \in DOMAIN talk[i].calls |-> talk[i].calls[k].id]
              = [k \in DOMAIN talk[i + 1].results |-> talk[i + 1].results[k].id]
    /\ Validate(agent.protocol, talk, TRUE)
    /\ agent.steps <= MaxSteps /\ agent.toolCalls <= MaxToolCalls
AgentSound == AgentTellsTruth /\ TalkIsWhole
=============================================================================
