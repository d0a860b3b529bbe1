------------------------------ MODULE Questions ------------------------------
(* The questions of a script to the user: the script's bootstrap, runQuestions and    *)
(* the relay in the runner, the pipe, and the dialog of the control panel. Ids are     *)
(* counted by the script's process, so every run begins with the same ones; the relay   *)
(* and the panel compare ids only. A question here is its run and its id.              *)
EXTENDS Naturals, Sequences

CONSTANTS MaxQuestions,   \* questions of a run
          QuestionRuns,   \* runs of the engine
          EventCap,       \* capacity of the relay's events; 8 in the code
          MaxLinks        \* bound on connections of the panel

ASSUME QuestionsAssumption == EventCap \in Nat \ {0, 1} /\ MaxQuestions \in Nat /\ QuestionRuns \in Nat

VARIABLES
    runNo, runOpen,     \* the run, and its context
    asker,              \* the script: runs, waits for an answer, has ended
    askedId,            \* _seq of the script's process
    ownPending,         \* runQuestions.pending
    phase, choice,      \* the goroutine that asks, and the choice it has got
    pendingQ, slot, answered, lateQ,  \* Questions.pending: question, channel, flag, timer
    events, attached, ours,  \* the panel's events; is the asker's connection still this one
    toPanel, toRunner,  \* frames on the pipe
    dialog,             \* Model.dialog
    given,              \* history: the last answer a script got, the dialog it was given in, and
    stale,              \* what the panel or the pipe still had of earlier runs at the question
    linksMade

askVars == <<runNo, runOpen, asker, askedId, ownPending, phase, choice>>
relayVars == <<pendingQ, slot, answered, lateQ, events, attached, ours>>
panelVars == <<toPanel, toRunner, dialog>>
questionVars == <<askVars, relayVars, panelVars, given, stale, linksMade>>

NoQ == [run |-> 0, id |-> 0]
EmptySlot == [kind |-> "empty", q |-> NoQ]
ThisQ == [run |-> runNo, id |-> askedId]
Removal(q) == [kind |-> "frage_weg", q |-> q]
Asking(q) == [kind |-> "frage", q |-> q]
Queued(s) == {s[i] : i \in DOMAIN s}

QuestionsInit ==
    /\ runNo = 1 /\ runOpen = TRUE /\ asker = "runs" /\ askedId = 0 /\ ownPending = FALSE
    /\ phase = "no" /\ choice = NoQ
    /\ pendingQ = NoQ /\ slot = EmptySlot /\ answered = FALSE /\ lateQ = FALSE
    /\ events = <<>> /\ attached = FALSE /\ ours = FALSE
    /\ toPanel = <<>> /\ toRunner = <<>> /\ dialog = NoQ
    /\ given = [asked |-> NoQ, saw |-> NoQ, stale |-> {}] /\ stale = {} /\ linksMade = 0

(* frage: the script writes and waits. A question while one is pending ends the run. The   *)
(* panel need not be done with earlier runs.                                         *)
AtPanel ==
    {q \in {dialog} \cup Queued(toRunner) \cup {e.q : e \in Queued(events) \cup Queued(toPanel)} :
       q # NoQ}
Frage ==
    /\ asker = "runs" /\ runOpen /\ askedId < MaxQuestions
    /\ askedId' = askedId + 1 /\ stale' = {q \in AtPanel : q.run # runNo}
    /\ IF ownPending
       THEN runOpen' = FALSE /\ asker' = "ended" /\ UNCHANGED <<ownPending, phase>>
       ELSE asker' = "waits" /\ ownPending' = TRUE /\ phase' = "ask" /\ UNCHANGED runOpen
    /\ UNCHANGED <<runNo, choice, relayVars, panelVars, given, linksMade>>

(* Questions.Ask: no panel, or no room for the question and its removal: no choice.       *)
(* Deviation: the queue may be filled by the question itself.                         *)
FitsAlone == Len(events) <= EventCap - 1
Fits == Len(events) <= EventCap - 2
RelayAsk ==
    /\ phase = "ask" /\ pendingQ = NoQ
    /\ IF attached /\ Fits
       THEN /\ events' = Append(events, Asking(ThisQ))
            /\ pendingQ' = ThisQ /\ slot' = EmptySlot /\ answered' = FALSE /\ lateQ' = FALSE
            /\ ours' = TRUE /\ phase' = "select" /\ UNCHANGED choice
       ELSE /\ phase' = "write" /\ choice' = NoQ
            /\ UNCHANGED <<pendingQ, slot, answered, lateQ, ours, events>>
    /\ UNCHANGED <<runNo, runOpen, asker, askedId, ownPending, attached, panelVars, given,
                   stale, linksMade>>
(* The select: several may be ready, any of them is taken. The choice is the dialog in     *)
(* which it was made.                                                                *)
Selected ==
    (IF ~runOpen \/ ~ours \/ lateQ \/ slot.kind = "nil" THEN {NoQ} ELSE {})
    \cup (IF slot.kind = "wahl" THEN {slot.q} ELSE {})
Select ==
    /\ phase = "select" /\ \E c \in Selected : choice' = c
    /\ phase' = "leave"
    /\ UNCHANGED <<runNo, runOpen, asker, askedId, ownPending, relayVars, panelVars, given,
                   stale, linksMade>>
(* The deferred part of Ask: nothing is pending, and the panel hears so.                 *)
LeaveAsk ==
    /\ phase = "leave" /\ pendingQ' = NoQ /\ slot' = EmptySlot /\ answered' = FALSE
    /\ lateQ' = FALSE /\ phase' = "write"
    /\ events' = IF ours /\ Len(events) < EventCap THEN Append(events, Removal(pendingQ))
                 ELSE events
    /\ ours' = FALSE
    /\ UNCHANGED <<runNo, runOpen, asker, askedId, ownPending, choice, attached, panelVars,
                   given, stale, linksMade>>
(* The script gets its answer while its context is open; then `pending` is cleared.       *)
WriteAnswer ==
    /\ phase = "write" /\ phase' = "clear"
    /\ IF runOpen /\ asker = "waits"
       THEN asker' = "runs" /\ given' = [asked |-> ThisQ, saw |-> choice, stale |-> stale]
       ELSE UNCHANGED <<asker, given>>
    /\ choice' = NoQ
    /\ UNCHANGED <<runNo, runOpen, askedId, ownPending, relayVars, panelVars, stale, linksMade>>
ClearPending ==
    /\ phase = "clear" /\ phase' = "no" /\ ownPending' = FALSE
    /\ UNCHANGED <<runNo, runOpen, asker, askedId, choice, relayVars, panelVars, given,
                   stale, linksMade>>
Deadline ==
    /\ pendingQ # NoQ /\ ~lateQ /\ lateQ' = TRUE
    /\ UNCHANGED <<askVars, pendingQ, slot, answered, events, attached, ours, panelVars, given,
                   stale, linksMade>>

(* The end of the run by itself, its wall time or a revocation: the script is gone. The     *)
(* engine waits for the asking goroutine before another run.                           *)
RunEnds ==
    /\ runOpen /\ runOpen' = FALSE /\ asker' = "ended"
    /\ UNCHANGED <<runNo, askedId, ownPending, phase, choice, relayVars, panelVars, given,
                   stale, linksMade>>
(* Halting the device ends the run, takes the question back and removes the dialog.        *)
HaltEndsRun ==
    /\ runOpen /\ runOpen' = FALSE /\ asker' = "ended"
    /\ slot' = IF pendingQ # NoQ /\ slot = EmptySlot THEN [EmptySlot EXCEPT !.kind = "nil"] ELSE slot
    /\ dialog' = NoQ
    /\ UNCHANGED <<runNo, askedId, ownPending, phase, choice, pendingQ, answered, lateQ, events,
                   attached, ours, toPanel, toRunner, given, stale, linksMade>>
NextRun ==
    /\ ~runOpen /\ phase = "no" /\ runNo < QuestionRuns
    /\ runNo' = runNo + 1 /\ runOpen' = TRUE /\ asker' = "runs" /\ askedId' = 0
    /\ UNCHANGED <<ownPending, phase, choice, relayVars, panelVars, given, stale, linksMade>>

(* HandlePanel: one connection at a time; its end loses what is under way, for the panel    *)
(* as well, which drops clicks of an older generation.                               *)
Attach ==
    /\ ~attached /\ linksMade < MaxLinks /\ linksMade' = linksMade + 1
    /\ attached' = TRUE /\ events' = <<>>
    /\ UNCHANGED <<askVars, pendingQ, slot, answered, lateQ, ours, panelVars, given, stale>>
Detach ==
    /\ attached /\ attached' = FALSE /\ ours' = FALSE /\ events' = <<>>
    /\ toPanel' = <<>> /\ toRunner' = <<>> /\ dialog' = NoQ
    /\ UNCHANGED <<askVars, pendingQ, slot, answered, lateQ, given, stale, linksMade>>
Pump ==
    /\ events # <<>> /\ toPanel = <<>>
    /\ toPanel' = <<Head(events)>> /\ events' = Tail(events)
    /\ UNCHANGED <<askVars, pendingQ, slot, answered, lateQ, attached, ours, toRunner, dialog,
                   given, stale, linksMade>>

(* Questions.Answer, by id alone.                                                   *)
Accepts(q) == pendingQ # NoQ /\ pendingQ.id = q.id /\ ~answered /\ ~lateQ /\ slot = EmptySlot
AnswerArrives ==
    /\ toRunner # <<>> /\ toRunner' = Tail(toRunner)
    /\ IF Accepts(Head(toRunner))
       THEN slot' = [kind |-> "wahl", q |-> Head(toRunner)] /\ answered' = TRUE
       ELSE UNCHANGED <<slot, answered>>
    /\ UNCHANGED <<askVars, pendingQ, lateQ, events, attached, ours, toPanel, dialog, given,
                   stale, linksMade>>

(* Model.Receive: a question is shown when none is shown and the panel is ready, a removal    *)
(* takes away the dialog of its id. Answer closes the dialog; a dialog also expires, not      *)
(* before the runner's deadline.                                                     *)
Receive ==
    /\ toPanel # <<>> /\ toPanel' = <<>>
    /\ LET e == Head(toPanel)
       IN  IF e.kind = "frage"
           THEN dialog' \in IF dialog = NoQ THEN {NoQ, e.q} ELSE {dialog}
           ELSE dialog' = IF dialog.id = e.q.id THEN NoQ ELSE dialog
    /\ UNCHANGED <<askVars, relayVars, toRunner, given, stale, linksMade>>
UserAnswers ==
    /\ dialog # NoQ /\ Len(toRunner) < 2
    /\ toRunner' = Append(toRunner, dialog) /\ dialog' = NoQ
    /\ UNCHANGED <<askVars, relayVars, toPanel, given, stale, linksMade>>
DialogExpires ==
    /\ dialog # NoQ /\ (dialog = pendingQ => lateQ) /\ dialog' = NoQ
    /\ UNCHANGED <<askVars, relayVars, toPanel, toRunner, given, stale, linksMade>>

AskSteps == RelayAsk \/ Select \/ LeaveAsk \/ WriteAnswer \/ ClearPending
QuestionsNext ==
    \/ Frage \/ AskSteps \/ Deadline \/ RunEnds \/ HaltEndsRun \/ NextRun \/ Attach \/ Detach
    \/ Pump \/ AnswerArrives \/ Receive \/ UserAnswers \/ DialogExpires
QuestionsSpec == QuestionsInit /\ [][QuestionsNext]_questionVars

QuestionsTypeOK ==
    /\ runNo \in 1..QuestionRuns /\ runOpen \in BOOLEAN /\ asker \in {"runs", "waits", "ended"}
    /\ askedId \in 0..MaxQuestions /\ ownPending \in BOOLEAN
    /\ phase \in {"no", "ask", "select", "leave", "write", "clear"}
    /\ slot.kind \in {"empty", "nil", "wahl"} /\ answered \in BOOLEAN /\ lateQ \in BOOLEAN
    /\ attached \in BOOLEAN /\ ours \in BOOLEAN /\ Len(events) <= EventCap

(* A script only gets an answer the user gave while looking at the very question it asked,   *)
(* whatever was late, cancelled or asked again, or at one with its number that the panel     *)
(* or the pipe still had of an earlier run when it asked; the removal of a question always    *)
(* fits the queue; and a dialog the user sees is pending in the runner or on its way out.    *)
AnswersOwn ==
    \/ given.saw \in {NoQ, given.asked}
    \/ given.saw \in given.stale /\ given.saw.id = given.asked.id
RemovalFits == phase \in {"select", "leave"} /\ ours => Len(events) < EventCap
DialogGoes ==
    dialog # NoQ => pendingQ = dialog \/ Removal(dialog) \in Queued(events) \cup Queued(toPanel)
QuestionSound == AnswersOwn /\ RemovalFits /\ DialogGoes
=============================================================================
