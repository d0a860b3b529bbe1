------------------------------ MODULE Exchange ------------------------------
(* The halt button of an app's page: lokal.Anhalten over the one connection the control      *)
(* panel has to the runner. The answer to a command is the next frame of state or error;      *)
(* the runner also sends its state every second, and the user may click in the panel.        *)
EXTENDS Naturals, Sequences

CONSTANTS MaxAsks,    \* questions after the command; 3 in the code
          MaxFrames   \* bound on frames and commands on the way

ASSUME ExchangeAssumption == MaxAsks \in Nat /\ MaxFrames \in Nat

VARIABLES
    runner,             \* Engine.halt, as panelStatus shows it
    toEngine, toUI,     \* commands and frames on the pipe
    halting, asks,      \* lokal.Anhalten: how far it is, questions asked
    waiter, heard,      \* PanelExchange: who holds the slot and waits, the frame it has got
    pageTold,           \* what the page was told
    wasHalted           \* history: since the call began the runner was halted, or a frame that
                        \* says so was on its way when it began

exchangeVars == <<runner, toEngine, toUI, halting, asks, waiter, heard, pageTold, wasHalted>>

Shown == {"arbeitet", "pausiert", "angehalten", "stoerung"}
Frames == Shown \cup {"fehler"}
NoFrame == "none"

ExchangeInit ==
    /\ runner = "arbeitet" /\ toEngine = <<>> /\ toUI = <<>>
    /\ halting = "no" /\ asks = 0 /\ waiter = "no" /\ heard = NoFrame
    /\ pageTold = "nothing" /\ wasHalted = FALSE

OnTheWay(f) == \E i \in DOMAIN toUI : toUI[i] = f
(* The page calls: lokal.Anhalten.                                                    *)
PageHalts ==
    /\ halting = "no" /\ halting' = "asks" /\ asks' = 0 /\ pageTold' = "nothing"
    /\ wasHalted' = (runner = "angehalten" \/ OnTheWay("angehalten"))
    /\ UNCHANGED <<runner, toEngine, toUI, waiter, heard>>
(* PanelExchange.Exchange: the slot, the waiter, then the command: first "anhalten", later     *)
(* "status". The queue of the panel may be full.                                        *)
Wants == IF asks = 0 THEN "anhalten" ELSE "status"
CallEnds(outcome) == halting' = "no" /\ pageTold' = outcome
Ask ==
    /\ halting = "asks" /\ waiter = "no"
    /\ \/ /\ Len(toEngine) < MaxFrames /\ toEngine' = Append(toEngine, Wants)
          /\ waiter' = "halt" /\ heard' = NoFrame /\ halting' = "waits" /\ UNCHANGED pageTold
       \/ CallEnds("error") /\ UNCHANGED <<toEngine, waiter, heard>>
    /\ UNCHANGED <<runner, toUI, asks, wasHalted>>
(* Another message of a page asks for the state over the same slot.                        *)
OtherAsks ==
    /\ waiter = "no" /\ waiter' = "status" /\ heard' = NoFrame
    /\ Len(toEngine) < MaxFrames /\ toEngine' = Append(toEngine, "status")
    /\ UNCHANGED <<runner, toUI, halting, asks, pageTold, wasHalted>>
OtherEnds ==
    /\ waiter = "status" /\ waiter' = "no" /\ heard' = NoFrame
    /\ UNCHANGED <<runner, toEngine, toUI, halting, asks, pageTold, wasHalted>>
(* lokal.Anhalten reads the frame it was given: only "angehalten" is success; a runner that    *)
(* works or pauses is asked again.                                                    *)
VerdictByError(f) == IF f = "fehler" THEN "error" ELSE "halted"
Verdict(f) == IF f = "angehalten" THEN "halted" ELSE "error"
AskAgain(f) == f \in {"arbeitet", "pausiert"} /\ asks < MaxAsks
Reads ==
    /\ halting = "waits" /\ heard # NoFrame
    /\ waiter' = "no" /\ heard' = NoFrame
    /\ IF AskAgain(heard)
       THEN halting' = "asks" /\ asks' = asks + 1 /\ UNCHANGED pageTold
       ELSE CallEnds(Verdict(heard)) /\ UNCHANGED asks
    /\ UNCHANGED <<runner, toEngine, toUI, wasHalted>>
(* localFrist, or the connection is lost and Reset wakes the waiter.                       *)
GivesUp ==
    /\ halting # "no" /\ CallEnds("error")
    /\ IF halting = "waits" THEN waiter' = "no" /\ heard' = NoFrame ELSE UNCHANGED <<waiter, heard>>
    /\ UNCHANGED <<runner, toEngine, toUI, asks, wasHalted>>
LinkBreaks ==
    /\ toEngine' = <<>> /\ toUI' = <<>> /\ waiter' = "no" /\ heard' = NoFrame
    /\ IF halting = "waits" THEN CallEnds("error") ELSE UNCHANGED <<halting, pageTold>>
    /\ UNCHANGED <<runner, asks, wasHalted>>
(* eventsReady: PanelExchange.Deliver for every frame. One that waits has room for one.       *)
Deliver ==
    /\ toUI # <<>> /\ toUI' = Tail(toUI)
    /\ heard' = IF waiter # "no" /\ heard = NoFrame THEN Head(toUI) ELSE heard
    /\ UNCHANGED <<runner, toEngine, halting, asks, waiter, pageTold, wasHalted>>
(* The user clicks on the panel's menu.                                               *)
UserClicks ==
    /\ Len(toEngine) < MaxFrames
    /\ toEngine' \in {Append(toEngine, m) : m \in {"fortsetzen", "pause"}}
    /\ UNCHANGED <<runner, toUI, halting, asks, waiter, heard, pageTold, wasHalted>>

(* The runner, in HandlePanel: a command is carried out and answered; a halt that cannot be    *)
(* stored is refused. A paused or halted runner may not be paused over a halt.              *)
Becomes(m) ==
    CASE m = "status" -> {runner}
      [] m = "anhalten" -> {"angehalten"}
      [] m = "fortsetzen" -> {"arbeitet"}
      [] m = "pause" -> IF runner = "angehalten" THEN {} ELSE {"pausiert"}
RunnerIs(s) == runner' = s /\ wasHalted' = (wasHalted \/ s = "angehalten")
EngineAnswers ==
    /\ toEngine # <<>> /\ Len(toUI) < MaxFrames /\ toEngine' = Tail(toEngine)
    /\ \/ \E s \in Becomes(Head(toEngine)) : RunnerIs(s) /\ toUI' = Append(toUI, s)
       \/ /\ Head(toEngine) # "status" /\ toUI' = Append(toUI, "fehler")
          /\ \E s \in {runner, "stoerung"} : RunnerIs(s)
    /\ UNCHANGED <<halting, asks, waiter, heard, pageTold>>
EngineTicks ==
    /\ Len(toUI) < MaxFrames /\ toUI' = Append(toUI, runner)
    /\ UNCHANGED <<runner, toEngine, halting, asks, waiter, heard, pageTold, wasHalted>>

ExchangeNext ==
    \/ PageHalts \/ Ask \/ OtherAsks \/ OtherEnds \/ Reads \/ GivesUp \/ LinkBreaks
    \/ Deliver \/ UserClicks \/ EngineAnswers \/ EngineTicks
ExchangeSpec == ExchangeInit /\ [][ExchangeNext]_exchangeVars

-----------------------------------------------------------------------------
(* A page that is told of its halt is told the truth: the runner was halted during the call,  *)
(* or had said so when it began. What was refused, lost or asked by others does not count.    *)
HaltIsTrue == pageTold = "halted" => wasHalted
=============================================================================
