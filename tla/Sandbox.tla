------------------------------ MODULE Sandbox ------------------------------
(***************************************************************************)
(* The script runner's one place to run: the mediator (mediator/sandbox.go *)
(* and run.go), the guard that is process 1 of the sandbox container       *)
(* (guard/guard.go and guard_linux.go), and the socket between them.  An   *)
(* instance of the container is one connection and at most one script; the *)
(* mediator takes the next connection after the end of the former one.     *)
(* The gateway, docker and the script are external.                        *)
(***************************************************************************)
EXTENDS Integers, Sequences, FiniteSets

CONSTANTS Guards,       \* sandbox containers; docker restarts them for ever
          Calls,        \* concurrent tools/call requests of the gateway
          None,
          MaxConns,     \* socket connections known to somebody at one time
          MaxFrames,    \* bound on the frames a script sends before it ends
          MaxUpsets     \* bound on containers that die, instances without the
                        \* seccomp profile, mediator restarts, withdrawals

Conns   == 1 .. MaxConns
Exits   == {"ok", "error", "killed"}          \* exit 0, other exit, SIGKILL
Said    == {"frame", "large"}   \* log, output or tool call; above the size limit
Ends    == Exits \cup {"refused", "busy", "limit", "timeout", "internal"}
Runs    == [by : Calls, as : Exits \cup {"alive"}]  \* whose script, how it is

ASSUME SandboxAssumption ==
    /\ None \notin Calls \cup Conns \cup Runs
    /\ {MaxConns, MaxFrames, MaxUpsets} \subseteq Nat

VARIABLES
    guard,     \* per container: where it is, its connection, its job
    conn,      \* per connection: both directions, what serve knows of it, and
               \* as a history (ran) whose script ran at its end and how it ended
    current,   \* sandboxes.current
    idle,      \* sandboxes.idle, a channel of one place
    backlog,   \* connections the listener has not accepted
    call,      \* per request: where callTool and run are
    honest,    \* history: "ok" and "error" were only said of the request's own
               \* script, ended in that way
    approved,  \* the fetcher's approval of the pinned commit
    usable,    \* Mediator.isolation is not invalid
    upsets     \* how many there were

slot == <<current, idle, backlog>>
sandboxVars == <<guard, conn, slot, call, honest, approved, usable, upsets>>

Closed == [at |-> "gone", up |-> <<>>, job |-> None, shut |-> TRUE, open |-> FALSE,
           lost |-> FALSE, att |-> None, fit |-> FALSE, ran |-> None]
Fresh(fit) == [Closed EXCEPT !.at = "queued", !.shut = FALSE, !.open = TRUE, !.fit = fit]

Off == [at |-> "off", conn |-> None, job |-> None, fit |-> FALSE, said |-> 0]
Quiet == [pc |-> "idle", conn |-> None, inbox |-> <<>>, stale |-> FALSE]

SandboxInit ==
    /\ guard = [g \in Guards |-> Off]
    /\ conn = [k \in Conns |-> Closed]
    /\ current = None /\ idle = None /\ backlog = <<>>
    /\ call = [c \in Calls |-> Quiet] /\ honest = TRUE
    /\ approved = TRUE /\ usable = FALSE
    /\ upsets = 0

\* The mediator's end is closed; a job already written stays readable.
Refused(c) == [c EXCEPT !.at = "gone", !.up = <<>>, !.shut = TRUE, !.lost = FALSE, !.att = None, !.fit = FALSE]

\* serve has read the end of the connection.
Over(c) == IF c.att = None THEN Closed ELSE [Closed EXCEPT !.att = c.att, !.ran = c.ran]

\* serve has read the first of what came, and goes on in the phase at.
Heard(c, at) == [c EXCEPT !.up = Tail(c.up), !.at = at]

Upset == upsets < MaxUpsets /\ upsets' = upsets + 1

\* What the guard writes is lost once the mediator has closed the connection.
Sent(k, f) == IF conn[k].at = "gone" THEN conn[k] ELSE [conn[k] EXCEPT !.up = Append(@, f)]
HungUp(k) == IF conn[k].at = "gone" THEN Closed ELSE [Sent(k, "eof") EXCEPT !.open = FALSE]

Run(c, as) == [by |-> c, as |-> as]
Live(g) == guard[g].at \in {"script", "kill"}  \* a process of it may be alive

-----------------------------------------------------------------------------
(* The guard *)

\* An identifier is used again when nobody holds its connection any more.
Reusable(k) == /\ conn[k].at = "gone" /\ idle # k
               /\ \A g \in Guards : guard[g].conn # k
               /\ \A c \in Calls : call[c].conn # k

\* A new instance, or one whose connection the mediator closed, connects and
\* says hello, or hangs before it can.
Dial(g) ==
    /\ guard[g].at \in {"off", "dial"}
    /\ \E k \in Conns, fit \in BOOLEAN, hello \in {<<>>, <<"hello">>} :
          /\ Reusable(k) /\ \A j \in 1 .. k - 1 : ~Reusable(j)
          /\ guard[g].at = "dial" => fit = guard[g].fit
          /\ conn' = [conn EXCEPT ![k] = [Fresh(fit) EXCEPT !.up = hello]]
          /\ guard' = [guard EXCEPT ![g] = [Off EXCEPT !.at = "wait", !.conn = k, !.fit = fit]]
          /\ IF fit \/ guard[g].at = "dial" THEN UNCHANGED upsets ELSE Upset
          /\ backlog' = Append(backlog, k)
    /\ UNCHANGED <<current, idle, call, honest, approved, usable>>

Finishing(g) == [Off EXCEPT !.at = "kill", !.conn = g.conn]

\* waitForJob returns; the files or the process may be refused (exit code 1).
TakeJob(g) ==
    LET k == guard[g].conn  c == conn[k].job IN
    /\ guard[g].at = "wait" /\ c # None
    /\ \/ /\ guard' = [guard EXCEPT ![g] = [@ EXCEPT !.job = c, !.at = "script"]]
          /\ conn' = [conn EXCEPT ![k] = [@ EXCEPT !.job = None, !.ran = Run(c, "alive")]]
       \/ /\ guard' = [guard EXCEPT ![g] = Finishing(@)]
          /\ conn' = [conn EXCEPT ![k] = [Sent(k, "error") EXCEPT !.job = None, !.ran = Run(c, "error")]]
    /\ UNCHANGED <<slot, call, honest, approved, usable, upsets>>

\* The mediator closed before the job: try again.
Redial(g) ==
    LET k == guard[g].conn IN
    /\ guard[g].at = "wait" /\ conn[k].job = None /\ conn[k].shut
    /\ guard' = [guard EXCEPT ![g] = [@ EXCEPT !.at = "dial", !.conn = None]]
    /\ conn' = [conn EXCEPT ![k] = HungUp(k)]
    /\ UNCHANGED <<slot, call, honest, approved, usable, upsets>>

Speak(g) ==
    LET k == guard[g].conn IN
    /\ guard[g].at = "script" /\ guard[g].said < MaxFrames
    /\ \E f \in Said : conn' = [conn EXCEPT ![k] = Sent(k, f)]
    /\ guard' = [guard EXCEPT ![g].said = @ + 1]
    /\ UNCHANGED <<slot, call, honest, approved, usable, upsets>>

\* finish sends exited before it kills what the script left behind.
ScriptEnds(g) ==
    LET k == guard[g].conn IN
    /\ guard[g].at = "script"
    /\ guard' = [guard EXCEPT ![g] = Finishing(@)]
    /\ \E e \in Exits : conn' = [conn EXCEPT ![k] = [Sent(k, e) EXCEPT !.ran = Run(guard[g].job, e)]]
    /\ UNCHANGED <<slot, call, honest, approved, usable, upsets>>

\* pumpMediator reads the end of the connection while the script runs; the
\* end of the script is not reported then.
Aborted(g) ==
    /\ guard[g].at = "script" /\ conn[guard[g].conn].shut
    /\ guard' = [guard EXCEPT ![g] = Finishing(@)]
    /\ UNCHANGED <<conn, slot, call, honest, approved, usable, upsets>>

Reaped(c) == IF c.ran # None /\ c.ran.as = "alive" THEN [c EXCEPT !.ran = Run(@.by, "killed")] ELSE c

KillAll(g) ==
    /\ guard[g].at = "kill"
    /\ guard' = [guard EXCEPT ![g].at = "close"]
    /\ conn' = [conn EXCEPT ![guard[g].conn] = Reaped(@)]
    /\ UNCHANGED <<slot, call, honest, approved, usable, upsets>>

\* Then the guard sleeps until its shortest lifetime and the container ends.
Close(g) ==
    /\ guard[g].at = "close"
    /\ guard' = [guard EXCEPT ![g] = Off]
    /\ conn' = [conn EXCEPT ![guard[g].conn] = HungUp(guard[g].conn)]
    /\ UNCHANGED <<slot, call, honest, approved, usable, upsets>>

\* A container that dies takes every process of the script with it, also
\* when something outlived kill(-1) and the guard ends at once.
Die(g) ==
    /\ guard[g].at # "off" /\ Upset
    /\ guard' = [guard EXCEPT ![g] = Off]
    /\ conn' = IF guard[g].conn = None THEN conn
               ELSE [conn EXCEPT ![guard[g].conn] = Reaped(HungUp(guard[g].conn))]
    /\ UNCHANGED <<slot, call, honest, approved, usable>>

CleanUp(g) == Aborted(g) \/ KillAll(g) \/ Close(g)
Guard(g) == Dial(g) \/ TakeJob(g) \/ Redial(g) \/ CleanUp(g)

-----------------------------------------------------------------------------
(* sandboxes.accept and serve, one goroutine per connection *)

\* Deviation: a second connection takes the place of the current one.
AcceptBeside ==
    /\ backlog # <<>>
    /\ backlog' = Tail(backlog)
    /\ current' = Head(backlog)
    /\ conn' = [conn EXCEPT ![Head(backlog)].at = "hello"]
    /\ UNCHANGED <<guard, idle, call, honest, approved, usable, upsets>>

\* A connection beside the current one is closed, and a run on the current
\* one is lost.
Accept ==
    LET k == Head(backlog) IN
    /\ backlog # <<>>
    /\ backlog' = Tail(backlog)
    /\ IF current = None
       THEN /\ current' = k
            /\ conn' = [conn EXCEPT ![k].at = "hello"]
       ELSE /\ conn' = [conn EXCEPT ![k] = Refused(@),
                                    ![current].lost = @ \/ conn[current].att # None]
            /\ UNCHANGED current
    /\ UNCHANGED <<guard, idle, call, honest, approved, usable, upsets>>

Arrived(k) == IF conn[k].up = <<>> THEN "nothing" ELSE Head(conn[k].up)

\* A fit instance goes to the one idle place; if the place is taken, select
\* falls to its default.
ReadHello(k) ==
    /\ conn[k].at = "hello" /\ Arrived(k) = "hello"
    /\ conn' = [conn EXCEPT ![k] = Heard(@, "serving")]
    /\ usable' = conn[k].fit
    /\ idle' = IF conn[k].fit /\ idle = None THEN k ELSE idle
    /\ UNCHANGED <<guard, current, backlog, call, honest, approved, upsets>>

\* The end of the connection instead of hello, or nothing for ten seconds.
HelloFails(k) ==
    /\ conn[k].at = "hello" /\ Arrived(k) \in {"nothing", "eof"}
    /\ conn' = [conn EXCEPT ![k] = [@ EXCEPT !.at = "drain", !.shut = TRUE]]
    /\ UNCHANGED <<guard, slot, call, honest, approved, usable, upsets>>

\* deliver hands a frame to the attached run and otherwise drops it; after
\* the end of the connection serve leaves and frees the place.
ReadFrame(k) ==
    LET f == Arrived(k)
        c == conn[k].att IN
    /\ conn[k].at = "serving" /\ f # "nothing"
    /\ call' = IF c = None THEN call ELSE [call EXCEPT ![c].inbox = Append(@, f)]
    /\ conn' = [conn EXCEPT ![k] = CASE f = "eof" -> Over(@)
                                    [] f = "large" -> Heard(@, "drain")
                                    [] OTHER -> Heard(@, "serving")]
    /\ current' = IF f = "eof" THEN None ELSE current
    /\ UNCHANGED <<guard, idle, backlog, honest, approved, usable, upsets>>

\* io.Copy to Discard: nothing is delivered any more.
Drain(k) ==
    LET f == Arrived(k) IN
    /\ conn[k].at = "drain" /\ f # "nothing"
    /\ conn' = [conn EXCEPT ![k] = IF f = "eof" THEN Over(@) ELSE Heard(@, "drain")]
    /\ current' = IF f = "eof" THEN None ELSE current
    /\ UNCHANGED <<guard, idle, backlog, call, honest, approved, usable, upsets>>

Serve == Accept \/ \E k \in Conns : ReadHello(k) \/ HelloFails(k) \/ ReadFrame(k) \/ Drain(k)

-----------------------------------------------------------------------------
(* callTool and run *)

To(c, pc) == call' = [call EXCEPT ![c].pc = pc]

\* The end of run: its deferred detach half-closes the connection.
Answer(c, end) ==
    LET k == call[c].conn IN
    /\ honest' = (honest /\ (end \in {"ok", "error"} => conn[k].ran = Run(c, end)))
    /\ call' = [call EXCEPT ![c] = Quiet]
    /\ conn' = IF k = None THEN conn
               ELSE [conn EXCEPT ![k] = IF @.at = "gone" THEN Closed ELSE [@ EXCEPT !.att = None, !.shut = TRUE]]

\* Headers, pin, commit, state, size, tree and libraries are in order and the
\* approval, read again, is there.
Admit(c) ==
    /\ call[c].pc = "idle" /\ usable /\ approved
    /\ To(c, "wait")
    /\ UNCHANGED <<guard, conn, slot, honest, approved, usable, upsets>>

Refuse(c) ==
    /\ call[c].pc = "idle"
    /\ Answer(c, "refused")
    /\ UNCHANGED <<guard, slot, approved, usable, upsets>>

Take(c, k) == /\ call' = [call EXCEPT ![c] = [@ EXCEPT !.pc = "write", !.conn = k]]
              /\ conn' = [conn EXCEPT ![k].att = c]

\* Deviation: the approval is not read again.
AcquireUnchecked(c) ==
    /\ call[c].pc = "wait" /\ idle # None
    /\ idle' = None
    /\ IF conn[idle].at = "gone" THEN UNCHANGED <<call, conn>> ELSE Take(c, idle)
    /\ UNCHANGED <<guard, current, backlog, honest, approved, usable, upsets>>

\* An instance that died in the idle place is thrown away, and acquire waits
\* on.  With a living one the approval is read again: acquire may have waited.
Acquire(c) ==
    /\ call[c].pc = "wait" /\ idle # None
    /\ idle' = None
    /\ IF conn[idle].at = "gone" THEN UNCHANGED <<call, conn>>
       ELSE IF approved THEN Take(c, idle)
       ELSE /\ call' = [call EXCEPT ![c] = Quiet]
            /\ conn' = [conn EXCEPT ![idle].shut = TRUE]
    /\ UNCHANGED <<guard, current, backlog, honest, approved, usable, upsets>>

\* BusyWait is over, or the gateway gave up; a filled place is taken at once.
Busy(c) ==
    /\ call[c].pc = "wait" /\ idle = None
    /\ Answer(c, "busy")
    /\ UNCHANGED <<guard, slot, approved, usable, upsets>>

\* frame.Write fails once the other end is closed.
WriteJob(c) ==
    LET k == call[c].conn IN
    /\ call[c].pc = "write"
    /\ IF conn[k].open
       THEN To(c, "loop") /\ conn' = [conn EXCEPT ![k].job = c] /\ UNCHANGED honest
       ELSE Answer(c, "limit")
    /\ UNCHANGED <<guard, slot, approved, usable, upsets>>

\* runner.handle: a frame is taken note of, is a tool call, or is beyond the
\* run's limit of output or of tool calls; the others end the run.
Handle(c) ==
    LET f == Head(call[c].inbox)
        Read(pc) == /\ call' = [call EXCEPT ![c] = [@ EXCEPT !.inbox = Tail(call[c].inbox), !.pc = pc]]
                    /\ UNCHANGED <<conn, honest>> IN
    /\ call[c].pc = "loop" /\ call[c].inbox # <<>>
    /\ \/ f = "frame" /\ (Read("loop") \/ Read("tool"))
       \/ f \in {"frame", "large", "eof", "killed"} /\ Answer(c, "limit")
       \/ f \in {"ok", "error"} /\ Answer(c, f)
    /\ UNCHANGED <<guard, slot, approved, usable, upsets>>

\* The gateway answers the tool call, or its context is cancelled; an
\* undeclared tool is answered without it.
ToolReturns(c) ==
    /\ call[c].pc = "tool"
    /\ IF conn[call[c].conn].open THEN To(c, "loop") /\ UNCHANGED <<conn, honest>> ELSE Answer(c, "limit")
    /\ UNCHANGED <<guard, slot, approved, usable, upsets>>

\* Deviation: a tool call does not watch the wall time.
WallOutsideTools(c) ==
    /\ call[c].pc = "loop"
    /\ Answer(c, "timeout")
    /\ UNCHANGED <<guard, slot, approved, usable, upsets>>

\* The wall time ends in the loop and in a tool call alike.
Wall(c) ==
    /\ call[c].pc \in {"loop", "tool"}
    /\ Answer(c, "timeout")
    /\ UNCHANGED <<guard, slot, approved, usable, upsets>>

Lost(c) ==
    /\ call[c].pc \in {"loop", "tool"} /\ conn[call[c].conn].lost
    /\ Answer(c, "limit")
    /\ UNCHANGED <<guard, slot, approved, usable, upsets>>

Cancelled(c) ==
    /\ call[c].pc = "loop"
    /\ Answer(c, "internal")
    /\ UNCHANGED <<guard, slot, approved, usable, upsets>>

CallStep(c) == Acquire(c) \/ Busy(c) \/ WriteJob(c) \/ Handle(c) \/ Lost(c)

-----------------------------------------------------------------------------
(* The fetcher's approval and a restart of the mediator *)

\* stale, a history: the approval went while the request was waiting.
Withdraw ==
    /\ approved /\ Upset
    /\ approved' = FALSE
    /\ call' = [c \in Calls |-> [call[c] EXCEPT !.stale = @ \/ call[c].pc = "wait"]]
    /\ UNCHANGED <<guard, conn, slot, honest, usable>>

Approve ==
    /\ ~approved
    /\ approved' = TRUE
    /\ call' = [c \in Calls |-> [call[c] EXCEPT !.stale = FALSE]]
    /\ UNCHANGED <<guard, conn, slot, honest, usable, upsets>>

\* Requests and connections end; a job already written stays readable.
Restart ==
    /\ Upset
    /\ conn' = [k \in Conns |-> Refused(conn[k])]
    /\ current' = None /\ idle' = None /\ backlog' = <<>>
    /\ call' = [c \in Calls |-> Quiet]
    /\ usable' = FALSE
    /\ UNCHANGED <<guard, honest, approved>>

-----------------------------------------------------------------------------
SandboxNext ==
    \/ \E g \in Guards : Guard(g) \/ Speak(g) \/ ScriptEnds(g) \/ Die(g)
    \/ Serve
    \/ \E c \in Calls : CallStep(c) \/ Admit(c) \/ Refuse(c) \/ ToolReturns(c) \/ Wall(c) \/ Cancelled(c)
    \/ Withdraw \/ Approve \/ Restart

\* The guard cleans up and the wall time fires; script and gateway may hang.
Fairness == /\ \A g \in Guards : WF_sandboxVars(CleanUp(g))
            /\ \A c \in Calls : WF_sandboxVars(Wall(c))

SandboxSpec == SandboxInit /\ [][SandboxNext]_sandboxVars /\ Fairness

\* Also docker restarts the container, the goroutines of the mediator keep
\* running, the approval comes back, and the gateway asks again.
Eager == /\ WF_sandboxVars(Approve)
         /\ \A g \in Guards : WF_sandboxVars(Guard(g))
         /\ WF_sandboxVars(Accept)
         /\ \A k \in Conns : WF_sandboxVars(ReadHello(k) \/ HelloFails(k) \/ ReadFrame(k) \/ Drain(k))
         /\ \A c \in Calls : WF_sandboxVars(CallStep(c)) /\ WF_sandboxVars(Admit(c))

EagerSpec == SandboxSpec /\ Eager
-----------------------------------------------------------------------------
Ids == Conns \cup {None}
Frames == {"hello", "eof"} \cup Said \cup Exits

GuardRecs == [at : {"off", "dial", "wait", "script", "kill", "close"}, conn : Ids,
              job : Calls \cup {None}, fit : BOOLEAN, said : 0 .. MaxFrames]
ConnRecs == [at : {"queued", "hello", "serving", "drain", "gone"}, up : Seq(Frames),
             job : Calls \cup {None}, shut : BOOLEAN, open : BOOLEAN, lost : BOOLEAN,
             att : Calls \cup {None}, fit : BOOLEAN,
             ran : Runs \cup {None}]
CallRecs == [pc : {"idle", "wait", "write", "loop", "tool"}, conn : Ids,
             inbox : Seq(Frames), stale : BOOLEAN]

\* Type invariant: guards, connections, the slot and the requests have the
\* shapes the handlers give them, only the current connection is served, and
\* a connection is attached to a run exactly while the run has it.
TypeOK ==
    /\ guard \in [Guards -> GuardRecs]
    /\ conn \in [Conns -> ConnRecs]
    /\ call \in [Calls -> CallRecs]
    /\ current \in Ids /\ idle \in Ids /\ backlog \in Seq(Conns)
    /\ {honest, approved, usable} \subseteq BOOLEAN /\ upsets \in 0 .. MaxUpsets
    /\ \A k \in Conns : conn[k].at \in {"hello", "serving", "drain"} <=> current = k
    /\ \A k \in Conns, c \in Calls : conn[k].att = c <=> call[c].conn = k

\* A script the mediator has not lost sight of by its own restart.
Watched(g) == Live(g) /\ conn[guard[g].conn].at # "gone"

\* Two scripts never live at the same time: the next instance is taken only
\* after the end of the former one, which closes after its processes are dead.
OneScript == \A g, h \in Guards : Watched(g) /\ Watched(h) => g = h

\* "ok" and "error" are answered only when this request's own script has
\* ended in exactly that way, and never from another run's frames.
OwnEnd == honest

\* A request whose approval went while it waited for an instance never gets
\* its script started, unless the approval came back.
NoWithdrawnStart == \A c \in Calls : call[c].pc \in {"loop", "tool"} => ~call[c].stale

\* A request is served by a script that is its own and still approved.
RequestsAreOwn == OwnEnd /\ NoWithdrawnStart

\* Every script ends, also one that hangs in itself or in a tool call: its
\* request is answered, the guard sees the end and kills what is left.
ScriptsEnd == \A g \in Guards : Live(g) ~> ~Live(g)

\* A registered instance that no request has had yet.
Unused(k) == /\ conn[k].at = "serving" /\ conn[k].open /\ conn[k].fit /\ ~conn[k].shut
             /\ \A c \in Calls : call[c].conn # k

\* acquire waits "auf eine registrierte, unbenutzte Instanz": while requests
\* keep coming, such an instance does not wait for ever.
InstancesServe == \A k \in Conns : Unused(k) ~> ~Unused(k)
=============================================================================
