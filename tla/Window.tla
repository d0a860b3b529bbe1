------------------------------- MODULE Window -------------------------------
(* The window of an app on the device: the host that runs the messages of the page, the     *)
(* gateway that holds the app's session, the login of a person and the native surface.      *)
(* The surface's handlers run on the UI thread, one after the other; messages, the login      *)
(* and WebView2 are concurrent. A reply, a document's memory and the profile's data are       *)
(* reduced to the owner of the session they were got with.                                 *)
EXTENDS Naturals, Sequences, FiniteSets

CONSTANTS Persons, Device, \* owners of sessions; Device: a token asked for without a login
          Nobody,          \* no session, an error reply
          Calls,           \* messages of the page that may run at once: maxInflight
          MaxGateway,      \* calls of a bridge that may be in the gateway
          OutCap,          \* queueSize
          MaxClicks,       \* bound on clicks on the login bar
          MaxTokens,       \* bound on tokens fetched without a login
          LostGrants       \* may the core grant a session whose answer is lost

ASSUME WindowAssumption ==
    /\ Device \notin Persons /\ Nobody \notin Persons \cup {Device}
    /\ MaxGateway \in Nat \ {0} /\ OutCap \in Nat \ {0} /\ MaxClicks \in Nat /\ MaxTokens \in Nat
    /\ LostGrants \in BOOLEAN

VARIABLES
    gate,       \* Gateway: session, gen, and blocked and personal as one mode
    host,       \* Host: out, epoch, and closed and suspended as one state
    call,       \* the goroutines of Host.Receive
    tokens,     \* tokens fetched so far
    loginGen, busy, signed, loginClosed, result,  \* Login
    flow,       \* the goroutine of the current Login.Start
    lastPerson, \* the core: whom it gave the last session of this app
    switch,     \* switchPerson: whose session waits, for which loginGen, how far it is
    doc,        \* the document: none yet, of the app, empty
    resetting, authEpoch, timer, posted,  \* Surface: timer armed, its messages on the way
    woken, closeAsked, gone,   \* messages to the window: Pump, WM_CLOSE; it is destroyed
    seen, kept,  \* whose data the document and the profile hold
    owner       \* history: for whom the document was loaded

gatewayVars == <<gate, call, tokens>>
loginVars == <<loginGen, busy, signed, loginClosed, result, flow, lastPerson, switch>>
surfaceVars == <<doc, resetting, authEpoch, timer, posted, closeAsked, gone>>
pageVars == <<seen, kept, owner>>
windowVars == <<gatewayVars, host, loginVars, surfaceVars, woken, pageVars>>

Owners == Persons \cup {Device}
Idle == [at |-> "idle", epoch |-> 0, sess |-> Nobody, gen |-> 0, again |-> FALSE]
NoResult == [kind |-> "none", person |-> Nobody, changed |-> FALSE, gen |-> 0]
NoSwitch == [stage |-> "no", person |-> Nobody, gen |-> 0]
WindowInit ==
    /\ gate = [session |-> Nobody, gen |-> 0, mode |-> "device"]
    /\ host = [state |-> "open", epoch |-> 0, out |-> <<>>]
    /\ call = [c \in Calls |-> Idle] /\ tokens = 0
    /\ loginGen = 0 /\ busy = FALSE /\ signed = FALSE /\ loginClosed = FALSE
    /\ result = NoResult /\ flow = "no" /\ lastPerson \in Persons \cup {Nobody}
    /\ switch = NoSwitch
    /\ doc = "none" /\ resetting = FALSE /\ authEpoch = 0 /\ timer = FALSE /\ posted = {}
    /\ woken = FALSE /\ closeAsked = FALSE /\ gone = FALSE
    /\ seen = {} /\ kept \in SUBSET Owners /\ owner = Device

-----------------------------------------------------------------------------
(* Gateway. Forget blocks, install opens for a person; a refused session is dropped unless   *)
(* somebody has renewed it. Blocked implies personal, so the two flags are one mode.         *)
Forgotten(g) == [session |-> Nobody, gen |-> g.gen + 1, mode |-> "blocked"]
Installed(g, p) == [session |-> p, gen |-> g.gen + 1, mode |-> "personal"]
Dropped(g, n) == IF g.gen = n THEN [g EXCEPT !.session = Nobody] ELSE g
Expired == signed /\ gate.mode # "device" /\ gate.session = Nobody

(* Host: Suspend discards what waits and disowns the calls that run.                     *)
HostSuspended(h) ==
    [state |-> IF h.state = "closed" THEN "closed" ELSE "suspended",
     epoch |-> h.epoch + 1, out |-> <<>>]
HostResumed(h) == IF h.state = "closed" THEN h ELSE [h EXCEPT !.state = "open"]
HostFailed(h) == [h EXCEPT !.state = "closed", !.out = <<>>]

Goes(c, at) == call' = [call EXCEPT ![c].at = at]
Answers(c, who) == call' = [call EXCEPT ![c].at = "send", ![c].sess = who]
KeepUI == UNCHANGED <<loginVars, surfaceVars, pageVars>>

(* The page posts a message: WebMessageReceived, Host.Receive. One too many is dropped.     *)
Speaks == doc = "app" /\ ~resetting /\ ~gone
HostReceives(c) ==
    /\ Speaks /\ host.state = "open"
    /\ call[c].at = "idle"
    /\ call' = [call EXCEPT ![c] = [Idle EXCEPT !.at = "starts", !.epoch = host.epoch]]
    /\ UNCHANGED <<gate, tokens, host, woken>> /\ KeepUI
(* Bruecke.Empfangen: local commands and refused messages end without the gateway, which       *)
(* has a fixed number of slots per bridge and makes nobody wait for one.                   *)
InGateway == {c \in Calls : call[c].at \in {"token", "fetch", "rpc"}}
SlotsTaken(c) == Cardinality({d \in InGateway : call[d].epoch = call[c].epoch}) >= MaxGateway
Dispatch(c) ==
    /\ call[c].at = "starts"
    /\ \/ Answers(c, Nobody)
       \/ ~SlotsTaken(c) /\ Goes(c, "token")
    /\ UNCHANGED <<gate, tokens, host, woken>> /\ KeepUI
(* Gateway.token under fetchMu: the session there is, or one fetched for the device. With the  *)
(* context that Suspend has cancelled no request is sent any more.                        *)
Cancelled(c) == host.state = "closed" \/ call[c].epoch < host.epoch
Token(c) ==
    /\ call[c].at = "token" /\ \A d \in Calls : call[d].at # "fetch"
    /\ \/ Cancelled(c) /\ Answers(c, Nobody)
       \/ gate.mode = "blocked" /\ Answers(c, Nobody)
       \/ gate.mode = "personal" /\ gate.session = Nobody /\ Answers(c, Nobody)
       \/ /\ ~Cancelled(c) /\ gate.mode # "blocked" /\ gate.session # Nobody
          /\ call' = [call EXCEPT ![c].at = "rpc", ![c].sess = gate.session,
                                  ![c].gen = gate.gen]
       \/ /\ ~Cancelled(c) /\ gate.mode = "device" /\ gate.session = Nobody
          /\ call' = [call EXCEPT ![c].at = "fetch", ![c].gen = gate.gen]
    /\ UNCHANGED <<gate, tokens, host, woken>> /\ KeepUI
(* AppToken returns; the session may have been forgotten or replaced meanwhile.           *)
FetchStands(c) == gate.gen = call[c].gen /\ gate.mode # "blocked"
Fetched(c) ==
    /\ call[c].at = "fetch"
    /\ \/ Answers(c, Nobody) /\ UNCHANGED <<gate, tokens>>
       \/ /\ FetchStands(c) /\ tokens < MaxTokens /\ tokens' = tokens + 1
          /\ gate' = [gate EXCEPT !.session = Device, !.gen = gate.gen + 1]
          /\ call' = [call EXCEPT ![c].at = "rpc", ![c].sess = Device, ![c].gen = gate.gen + 1]
    /\ UNCHANGED <<host, woken>> /\ KeepUI
(* AppRPC returns: a result, the session refused, or an error that keeps the session. After    *)
(* a first 401 the call asks for a token again.                                        *)
Stands(c) == gate.gen = call[c].gen /\ gate.mode # "blocked"
RpcAnswers(c) ==
    /\ call[c].at = "rpc"
    /\ \/ Answers(c, IF Stands(c) THEN call[c].sess ELSE Nobody) /\ UNCHANGED gate
       \/ Answers(c, Nobody) /\ UNCHANGED gate
       \/ Answers(c, Nobody) /\ gate' = Dropped(gate, call[c].gen)
       \/ /\ ~call[c].again /\ gate' = Dropped(gate, call[c].gen)
          /\ call' = [call EXCEPT ![c].at = "token", ![c].again = TRUE]
    /\ UNCHANGED <<tokens, host, woken>> /\ KeepUI
(* hostView.Senden, for the bridge the message came to.                                  *)
MaySendLate(c) == host.state = "open" /\ Len(host.out) < OutCap
MaySend(c) == host.state = "open" /\ call[c].epoch = host.epoch /\ Len(host.out) < OutCap
Senden(c) ==
    /\ call[c].at = "send"
    /\ IF MaySend(c)
       THEN host' = [host EXCEPT !.out = Append(host.out, call[c].sess)] /\ woken' = TRUE
       ELSE UNCHANGED <<host, woken>>
    /\ call' = [call EXCEPT ![c] = Idle]
    /\ UNCHANGED <<gate, tokens>> /\ KeepUI

-----------------------------------------------------------------------------
(* Login. Current: neither closed nor overtaken by a later click.                          *)
Current(n) == ~loginClosed /\ n = loginGen
(* Login.Close, with the gateway g and the loginGen n reached in this step.               *)
LoginCloses(g, n) ==
    /\ loginClosed' = TRUE
    /\ loginGen' = IF loginClosed THEN n ELSE n + 1
    /\ gate' = IF loginClosed THEN g ELSE Forgotten(g)
(* Surface.FailLogin: no cleaning, no window.                                             *)
FailLogin(g, h, n) == LoginCloses(g, n) /\ host' = HostFailed(h) /\ closeAsked' = TRUE

(* switchPerson up to the empty document. If the view refuses, the window fails.            *)
SwitchPerson(p, n) ==
    /\ signed' = FALSE /\ resetting' = TRUE /\ authEpoch' = authEpoch + 1 /\ timer' = TRUE
    /\ \/ /\ gate' = Forgotten(gate) /\ host' = HostSuspended(host)
          /\ loginGen' = n /\ busy' = TRUE
          /\ switch' = [stage |-> "quiet", person |-> p, gen |-> n]
          /\ UNCHANGED <<loginClosed, closeAsked>>
       \/ /\ busy' = FALSE /\ switch' = NoSwitch
          /\ FailLogin(Forgotten(gate), HostSuspended(host), n)

(* The button, enabled unless busy: Start, and Login.Pump. Listener and browser follow.        *)
ClickLogin ==
    /\ doc # "none" /\ ~gone /\ ~loginClosed /\ ~busy /\ loginGen < MaxClicks
    /\ busy' = TRUE /\ loginGen' = loginGen + 1 /\ result' = NoResult /\ flow' = "waits"
    /\ signed' = (signed /\ ~Expired)
    /\ UNCHANGED <<gatewayVars, host, loginClosed, lastPerson, switch, surfaceVars, woken,
                   pageVars>>
(* The first valid callback ends the listener, and the code is exchanged.                   *)
BrowserReturns ==
    /\ flow = "waits" /\ flow' = "swaps"
    /\ UNCHANGED <<gatewayVars, host, loginGen, busy, signed, loginClosed, result,
                   lastPerson, switch, surfaceVars, woken, pageVars>>
Delivered(r) == IF loginClosed THEN UNCHANGED result ELSE result' = r
(* AppSession grants; the core says whether the person is another one than the last.          *)
Granted(p) ==
    /\ flow = "swaps" /\ flow' = "no" /\ lastPerson' = p /\ woken' = TRUE
    /\ \/ Delivered([kind |-> "person", person |-> p, changed |-> TRUE, gen |-> loginGen])
       \/ /\ p = lastPerson
          /\ Delivered([kind |-> "person", person |-> p, changed |-> FALSE, gen |-> loginGen])
    /\ UNCHANGED <<gatewayVars, host, loginGen, busy, signed, loginClosed, switch,
                   surfaceVars, pageVars>>
(* Refused, given up, timed out; with LostGrants after the core has granted.                *)
FlowFails ==
    /\ flow # "no" /\ flow' = "no" /\ woken' = TRUE
    /\ Delivered([kind |-> "error", person |-> Nobody, changed |-> FALSE, gen |-> loginGen])
    /\ \/ UNCHANGED lastPerson
       \/ LostGrants /\ flow = "swaps" /\ lastPerson' \in Persons
    /\ UNCHANGED <<gatewayVars, host, loginGen, busy, signed, loginClosed, switch,
                   surfaceVars, pageVars>>

-----------------------------------------------------------------------------
(* Surface.Pump: Login.Pump, then the replies that wait go to the document there is.        *)
StillSigned == signed /\ ~Expired
Arrived == {host.out[i] : i \in DOMAIN host.out} \ {Nobody}
Drain ==
    /\ host' = [host EXCEPT !.out = <<>>]
    /\ seen' = IF doc = "app" THEN seen \cup Arrived ELSE seen
    /\ UNCHANGED kept
Pumped == woken /\ ~gone /\ doc # "none" /\ woken' = FALSE /\ result' = NoResult
PumpOnly ==
    /\ Pumped /\ (result.kind = "none" \/ ~Current(result.gen))
    /\ signed' = StillSigned /\ Drain
    /\ UNCHANGED <<gatewayVars, loginGen, busy, loginClosed, flow, lastPerson, switch,
                   surfaceVars, owner>>
PumpError ==
    /\ Pumped /\ result.kind = "error" /\ Current(result.gen)
    /\ busy' = FALSE /\ signed' = StillSigned /\ Drain
    /\ UNCHANGED <<gatewayVars, loginGen, loginClosed, flow, lastPerson, switch,
                   surfaceVars, owner>>
SamePerson == ~result.changed /\ StillSigned
PumpSame ==
    /\ Pumped /\ result.kind = "person" /\ Current(result.gen) /\ SamePerson
    /\ gate' = Installed(gate, result.person) /\ owner' = result.person
    /\ busy' = FALSE /\ signed' = TRUE /\ Drain
    /\ UNCHANGED <<call, tokens, loginGen, loginClosed, flow, lastPerson, switch,
                   surfaceVars>>
PumpOther ==
    /\ Pumped /\ result.kind = "person" /\ Current(result.gen) /\ ~SamePerson
    /\ SwitchPerson(result.person, loginGen)
    /\ UNCHANGED <<call, tokens, flow, lastPerson, doc, posted, gone, pageVars>>
(* The button, enabled while somebody is signed in and nothing is under way: SignOut.        *)
SignOut ==
    /\ ~gone /\ ~loginClosed /\ signed /\ ~busy /\ loginGen < MaxClicks
    /\ result' = NoResult
    /\ SwitchPerson(Nobody, loginGen + 1)
    /\ UNCHANGED <<call, tokens, flow, lastPerson, doc, posted, gone, woken, pageVars>>

(* The empty document is there, and the data of the profile are being cleared.              *)
SwitchFails == busy' = FALSE /\ FailLogin(gate, host, loginGen)
BlankDone ==
    /\ switch.stage = "quiet" /\ ~gone
    /\ \/ /\ doc' = "blank" /\ seen' = {}
          /\ switch' = IF Current(switch.gen) THEN [switch EXCEPT !.stage = "clear"] ELSE NoSwitch
          /\ UNCHANGED <<gate, host, busy, loginGen, loginClosed, closeAsked>>
       \/ /\ Current(switch.gen) /\ SwitchFails /\ switch' = NoSwitch
          /\ UNCHANGED <<doc, seen>>
    /\ UNCHANGED <<call, tokens, signed, result, flow, lastPerson, resetting, authEpoch,
                   timer, posted, gone, woken, kept, owner>>
(* finish: the session is installed, the host resumed, the document loaded anew. A view that    *)
(* refuses is the end of the window, before or after the document was loaded.             *)
NewGate == IF switch.person = Nobody THEN gate ELSE Installed(gate, switch.person)
SwitchEnds ==
    /\ signed' = (switch.person # Nobody) /\ owner' = switch.person
    /\ resetting' = FALSE /\ timer' = FALSE /\ busy' = FALSE
    /\ \/ /\ doc' = "app" /\ gate' = NewGate /\ host' = HostResumed(host)
          /\ UNCHANGED <<loginGen, loginClosed, closeAsked>>
       \/ /\ doc' \in {"app", doc}
          /\ FailLogin(Forgotten(NewGate), HostResumed(host), loginGen)
Cleared ==
    /\ switch.stage = "clear" /\ ~gone /\ switch' = NoSwitch
    /\ \/ /\ kept' = {} /\ Current(switch.gen) /\ SwitchEnds
       \/ /\ ~Current(switch.gen) /\ kept' \in {kept, {}}
          /\ UNCHANGED <<gate, host, busy, signed, loginGen, loginClosed, closeAsked, doc,
                         resetting, timer, owner>>
       \/ /\ Current(switch.gen) /\ SwitchFails
          /\ UNCHANGED <<signed, doc, resetting, timer, kept, owner>>
    /\ UNCHANGED <<call, tokens, result, flow, lastPerson, authEpoch, posted, gone, woken, seen>>

(* The timer of Quiesce, and its message, which a later switch must not take for its own.    *)
TimerFires ==
    /\ timer /\ timer' = FALSE /\ posted' = posted \cup {authEpoch}
    /\ UNCHANGED <<gatewayVars, host, loginVars, doc, resetting, authEpoch, closeAsked, gone,
                   woken, pageVars>>
TimesOutBefore(e) == resetting /\ e + 1 = authEpoch
TimesOut(e) == resetting /\ e = authEpoch
TimeoutArrives ==
    /\ ~gone
    /\ \E e \in posted :
          /\ posted' = posted \ {e}
          /\ IF TimesOut(e)
             THEN FailLogin(gate, host, loginGen)
             ELSE UNCHANGED <<gate, host, loginGen, loginClosed, closeAsked>>
    /\ UNCHANGED <<call, tokens, busy, signed, result, flow, lastPerson, switch, doc, resetting,
                   authEpoch, timer, gone, woken, pageVars>>

(* NewSurface: old data are cleared before the first page, or nothing opens. o.Close follows.   *)
Opens ==
    /\ doc = "none" /\ ~gone /\ doc' = "app" /\ kept' = {}
    /\ UNCHANGED <<gatewayVars, host, loginVars, resetting, authEpoch, timer, posted, closeAsked,
                   gone, woken, seen, owner>>
(* WM_CLOSE, from the user, from a handler that could not refuse, or with a dead process.     *)
CloseIsAsked ==
    /\ ~gone /\ ~closeAsked /\ closeAsked' = TRUE
    /\ host' \in {host, HostFailed(host)}
    /\ UNCHANGED <<gatewayVars, loginVars, doc, resetting, authEpoch, timer, posted, gone, woken,
                   pageVars>>
Destroyed ==
    /\ closeAsked \/ doc = "none"
    /\ ~gone /\ gone' = TRUE /\ timer' = FALSE /\ switch' = NoSwitch
    /\ LoginCloses(gate, loginGen) /\ host' = HostFailed(host)
    /\ UNCHANGED <<call, tokens, busy, signed, result, flow, lastPerson, doc, resetting, authEpoch,
                   posted, closeAsked, woken, pageVars>>
(* The scripts of the page write what they know into the profile.                        *)
PageStores ==
    /\ doc = "app" /\ ~gone /\ kept' = kept \cup seen
    /\ UNCHANGED <<gatewayVars, host, loginVars, surfaceVars, woken, seen, owner>>

CallSteps(c) == Dispatch(c) \/ Token(c) \/ Fetched(c) \/ RpcAnswers(c) \/ Senden(c)
FlowEnds == FlowFails \/ \E p \in Persons : Granted(p)
SurfacePumps == PumpOnly \/ PumpError \/ PumpSame \/ PumpOther
SurfaceSteps ==
    \/ ClickLogin \/ SignOut \/ SurfacePumps \/ BlankDone \/ Cleared \/ TimerFires \/ TimeoutArrives
    \/ Opens \/ CloseIsAsked \/ Destroyed \/ PageStores
WindowNext ==
    \/ \E c \in Calls : HostReceives(c) \/ CallSteps(c)
    \/ BrowserReturns \/ FlowEnds
    \/ SurfaceSteps
(* A message that runs goes on, a login has a deadline, and the UI thread takes its messages.   *)
WindowSpec ==
    /\ WindowInit /\ [][WindowNext]_windowVars
    /\ \A c \in Calls : WF_windowVars(CallSteps(c))
    /\ WF_windowVars(FlowEnds) /\ WF_windowVars(SurfacePumps) /\ WF_windowVars(TimerFires)
    /\ WF_windowVars(TimeoutArrives) /\ WF_windowVars(Destroyed)

-----------------------------------------------------------------------------
(* After a change of person and after a sign-out, neither the document, nor the profile, nor    *)
(* a reply that waits for the page holds data of anybody but the one the document was loaded   *)
(* for: late replies, late tokens and scripts that write until the end are kept out.        *)
(* Once the login is closed no session is held any more, whatever still arrives.            *)
PageIsOwn == doc = "app" => seen \cup kept \cup Arrived \subseteq {owner}
NoSessionAfterClose == loginClosed => gate.session = Nobody
PageKeepsPerson == PageIsOwn /\ NoSessionAfterClose

(* A login or sign-out that was begun ends, with the buttons back or without the window; and   *)
(* when the core has refused the session of a person, the login bar stops showing them.      *)
LoginEnds ==
    /\ busy ~> (~busy \/ gone)
    /\ Expired ~> (~Expired \/ gone)
=============================================================================
