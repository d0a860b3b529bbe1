----------------------------- MODULE Container -----------------------------
(***************************************************************************)
(* The server mode of the desktop runner: one container per run, started   *)
(* and removed through the docker command line (client/container.go and    *)
(* container_engine.go).  The daemon is external.  It works on behind the  *)
(* runner's back: it finishes a request whose caller is dead, removes a    *)
(* container that exited (--rm) in its own time, and outlives a crash.     *)
(***************************************************************************)
EXTENDS Integers, FiniteSets

CONSTANTS Runs,        \* run keys; a key is claimed once
          None,        \* no run
          MaxOutages,  \* bound on times the daemon answers unreliably
          MaxCrashes   \* bound on crashes and power cuts

Ends == {"ok", "error", "limit", "interrupted", "refused"}
Finished(end, n) == [end |-> end, names |-> n]

ASSUME ContainerAssumption ==
    None \notin Runs \cup [end : Ends, names : BOOLEAN] /\ MaxOutages \in Nat /\ MaxCrashes \in Nat

VARIABLES
    up,       \* the service: up, boot, down (dead, restarted), stopped, gone
    loop,     \* the loop's context: open, or why it is cancelled
    waits,    \* Engine.Revoke found a run and waits for its activeDone
    dead,     \* State.dead: the state was deleted
    pc,       \* where the loop or the recovery at boot is
    job,      \* the run in hand, or the container recovery removes
    ctx,      \* the context of DockerExecutor.Run
    err,      \* the error its deferred functions find
    names,    \* it found the start proven and returns the mount names
    blocked,  \* DockerExecutor.blocked of the last process
    orphans,  \* containers recovery still has to remove
    marker,   \* the journal's open run
    result,   \* the journalled result of each run, or None
    cli,      \* the run whose "docker run" process is alive, or None
    box,      \* the container of each run, in the daemon
    hist,     \* history: its process never began, ran, or ended by itself
    flaky,    \* calls to the daemon may fail or time out
    outages, crashes

service == <<up, loop, waits, dead>>
call    == <<ctx, err, names>>
journal == <<marker, result>>
daemon  == <<cli, box, hist>>
budget  == <<flaky, outages, crashes>>
containerVars == <<service, pc, job, call, blocked, orphans, journal, daemon, budget>>

InCleanup  == {"kill", "rm", "ps"}
InContext  == {"prepare", "run", "inspect", "settle"} \cup InCleanup  \* Run has its context
Registered == {"enter"} \cup InContext                                \* activeDone is set

ContainerInit ==
    /\ up = "up" /\ loop = "open" /\ waits = FALSE /\ dead = FALSE
    /\ pc = "idle" /\ job = None
    /\ ctx = "open" /\ err = "none" /\ names = FALSE
    /\ blocked = FALSE /\ orphans = {}
    /\ marker = None /\ result = [r \in Runs |-> None]
    /\ cli = None
    /\ box = [r \in Runs |-> "none"] /\ hist = [r \in Runs |-> "never"]
    /\ flaky = FALSE /\ outages = 0 /\ crashes = 0

Visible(r) == box[r] \notin {"none", "creating"}   \* what docker ps --all lists

-----------------------------------------------------------------------------
(* The daemon and the docker run process *)

Create == /\ cli # None /\ box[cli] = "none" /\ hist[cli] = "never"
          /\ box' = [box EXCEPT ![cli] = "creating"]
          /\ UNCHANGED <<cli, hist>>

Created(r) == /\ box[r] = "creating"
              /\ box' = [box EXCEPT ![r] = "created"]
              /\ UNCHANGED <<cli, hist>>

Begin == /\ cli # None /\ box[cli] = "created"
         /\ box' = [box EXCEPT ![cli] = "running"]
         /\ hist' = [hist EXCEPT ![cli] = "ran"]
         /\ UNCHANGED cli

Exit(r) == /\ box[r] = "running"
           /\ box' = [box EXCEPT ![r] = "exited"]
           /\ hist' = [hist EXCEPT ![r] = "ended"]
           /\ UNCHANGED cli

AutoRemove(r) == /\ box[r] \in {"exited", "removing"}
                 /\ box' = [box EXCEPT ![r] = IF @ = "exited" THEN "removing" ELSE "none"]
                 /\ UNCHANGED <<cli, hist>>

OutageBegins == ~flaky /\ flaky' = TRUE /\ outages < MaxOutages /\ outages' = outages + 1
OutageEnds == flaky /\ flaky' = FALSE /\ UNCHANGED outages
Outage == /\ OutageBegins \/ OutageEnds
          /\ UNCHANGED <<service, pc, job, call, blocked, orphans, journal, daemon, crashes>>

Daemon == /\ \/ Create \/ Begin
             \/ \E r \in Runs : Created(r) \/ Exit(r) \/ AutoRemove(r)
          /\ UNCHANGED <<service, pc, job, call, blocked, orphans, journal, budget>>

-----------------------------------------------------------------------------
(* The loop *)

\* adhoc and scheduled journal the marker before anything else.
Claim(r) ==
    /\ up = "up" /\ loop = "open" /\ pc = "idle" /\ marker = None /\ result[r] = None
    /\ marker' = r /\ job' = r /\ pc' = "claimed"
    /\ UNCHANGED <<service, call, blocked, orphans, result, daemon, budget>>

\* Manifest, start policy, mounts or the start call refuse the run.
Decline ==
    /\ pc = "claimed"
    /\ pc' = "report" /\ err' = "refused" /\ names' = FALSE
    /\ UNCHANGED <<service, job, ctx, blocked, orphans, journal, daemon, budget>>

\* executeContainer marks the run as started, which a deleted state refuses,
\* and registers activeDone and activeCancel.
Enter ==
    /\ pc = "claimed"
    /\ pc' = IF dead THEN "report" ELSE "enter"
    /\ err' = IF dead THEN "unmarked" ELSE "none"
    /\ ctx' = IF loop = "open" THEN "open" ELSE "cancelled"
    /\ names' = FALSE
    /\ UNCHANGED <<service, job, blocked, orphans, journal, daemon, budget>>

\* DockerExecutor.Run returns before it has a context of its own.
CheckBlocked ==
    /\ pc = "enter"
    /\ pc' = IF blocked THEN "settle" ELSE "prepare"
    /\ err' = IF blocked THEN "refused" ELSE "none"
    /\ UNCHANGED <<service, job, ctx, names, blocked, orphans, journal, daemon, budget>>

\* Docker info, version, pull and the digest of the image, each of which may
\* refuse the run; then docker run.
Prepare ==
    /\ pc = "prepare"
    /\ \/ ctx = "open" /\ pc' = "run" /\ cli' = job /\ UNCHANGED err
       \/ pc' = "settle" /\ err' = "runtime" /\ UNCHANGED cli
    /\ UNCHANGED <<service, job, ctx, names, blocked, orphans, journal, box, hist, budget>>

ProcessErrors == {"none", "exit", "runtime"}

\* Deviation: every exit code of docker run counts as the job's own.
RunEndsAnyCode(e) ==
    \/ hist[job] = "ended" /\ e \in ProcessErrors
    \/ ctx # "open" /\ e = "context"
    \/ flaky /\ e = "exit"

\* How docker run ends: with the exit code of a container that ended by
\* itself, 125 to 127 counting as a failed start; killed by the context; or lost.
RunEnds(e) ==
    \/ hist[job] = "ended" /\ e \in ProcessErrors
    \/ ctx # "open" /\ e = "context"
    \/ flaky /\ e = "runtime"

RunReturns ==
    /\ pc = "run"
    /\ \E e \in ProcessErrors \cup {"context"} :
          /\ RunEnds(e)
          /\ err' = e
          /\ names' = (e \in {"none", "exit"})
          /\ pc' = IF e \in {"none", "exit"} THEN "kill" ELSE "inspect"
    /\ cli' = None
    /\ UNCHANGED <<service, job, ctx, blocked, orphans, journal, box, hist, budget>>

\* A container that was never started has the zero StartedAt.
StartedAt(r) == Visible(r) /\ hist[r] # "never"
Inspect ==
    /\ pc = "inspect"
    /\ \/ names' = StartedAt(job)
       \/ flaky /\ UNCHANGED names
    /\ pc' = "kill"
    /\ UNCHANGED <<service, job, ctx, err, blocked, orphans, journal, daemon, budget>>

-----------------------------------------------------------------------------
(* Removing a container: DockerExecutor.cleanup, of a run or at boot *)

KillReturns ==
    /\ pc = "kill"
    /\ pc' = "rm"
    /\ \/ box' = [box EXCEPT ![job] = IF @ = "running" THEN "exited" ELSE @]
       \/ flaky /\ UNCHANGED box
    /\ UNCHANGED <<service, job, call, blocked, orphans, journal, cli, hist, budget>>

Removed == pc' = IF up = "boot" THEN "next" ELSE "settle"

\* In a run this error replaces what the call returned; at boot the service ends.
CleanupFails ==
    /\ blocked' = TRUE
    /\ up' = IF up = "boot" THEN "down" ELSE up
    /\ pc' = IF up = "boot" THEN "idle" ELSE "settle"
    /\ err' = IF up = "boot" THEN err ELSE "runtime"
    /\ UNCHANGED <<loop, waits, dead, ctx, names>>

\* Deviation: a failure of rm counts as absence.
RmReturnsTrusting ==
    /\ pc = "rm"
    /\ Removed
    /\ \/ box[job] \in {"created", "running", "exited"} /\ box' = [box EXCEPT ![job] = "none"]
       \/ box[job] \in {"none", "creating", "removing"} /\ UNCHANGED box
       \/ flaky /\ UNCHANGED box
    /\ UNCHANGED <<service, job, call, blocked, orphans, journal, cli, hist, budget>>

\* rm --force fails for a container that is not there or is being removed.
RmReturns ==
    /\ pc = "rm"
    /\ \/ box[job] \in {"created", "running", "exited"} /\ box' = [box EXCEPT ![job] = "none"]
          /\ Removed
       \/ box[job] \in {"none", "creating", "removing"} /\ pc' = "ps" /\ UNCHANGED box
       \/ flaky /\ pc' = "ps" /\ UNCHANGED box
    /\ UNCHANGED <<service, job, call, blocked, orphans, journal, cli, hist, budget>>

PsReturns ==
    /\ pc = "ps"
    /\ \/ ~Visible(job) /\ Removed /\ UNCHANGED <<service, call, blocked>>
       \/ Visible(job) /\ pc' = "rm" /\ UNCHANGED <<service, call, blocked>>
       \/ flaky /\ CleanupFails            \* ps failed, or the 15 seconds are over
    /\ UNCHANGED <<job, orphans, journal, daemon, budget>>

-----------------------------------------------------------------------------
(* The end of a run *)

\* The deferred functions run last: a context that is over overrides every
\* error, that of the cleanup included.  Then activeDone is closed.
Settle == /\ pc = "settle"
          /\ pc' = "report"
          /\ UNCHANGED <<service, job, call, blocked, orphans, journal, daemon, budget>>

Outcome == CASE err = "refused"   -> "refused"       \* no context yet
             [] err = "unmarked"  -> "interrupted"
             [] ctx = "wall"      -> "limit"
             [] ctx = "cancelled" -> "interrupted"
             [] err = "none"      -> "ok"
             [] err = "exit"      -> "error"
             [] OTHER             -> "refused"

Report ==
    /\ pc = "report"
    /\ pc' = "idle" /\ job' = None /\ ctx' = "open" /\ err' = "none" /\ names' = FALSE
    /\ IF dead THEN UNCHANGED journal
       ELSE /\ marker' = None
            /\ result' = [result EXCEPT ![job] = Finished(Outcome, names)]
    /\ UNCHANGED <<service, blocked, orphans, daemon, budget>>

\* The wall clock of the pin, and a cancellation in a heartbeat reply.
Wall == /\ up = "up" /\ pc \in InContext /\ ctx = "open"
        /\ ctx' = "wall"
        /\ UNCHANGED <<service, pc, job, err, names, blocked, orphans, journal, daemon, budget>>

Cancel == /\ up = "up" /\ pc \in Registered /\ ctx = "open"
          /\ ctx' = "cancelled"
          /\ UNCHANGED <<service, pc, job, err, names, blocked, orphans, journal, daemon, budget>>

-----------------------------------------------------------------------------
(* Revocation, stop, crash, boot *)

CancelLoop(why) ==
    /\ up = "up" /\ loop = "open"
    /\ loop' = why
    /\ ctx' = IF pc \in Registered /\ ctx = "open" THEN "cancelled" ELSE ctx
    /\ UNCHANGED <<up, dead, pc, job, err, names, blocked, orphans, journal, daemon, budget>>

Stop == CancelLoop("stop") /\ UNCHANGED waits

\* Engine.Revoke cancels, waits for a run it found, and deletes the state.
Revoke == CancelLoop("revoke") /\ waits' = (pc \in Registered)

RevokeDeletes ==
    /\ up = "up" /\ loop = "revoke" /\ ~dead
    /\ waits => pc \notin Registered
    /\ dead' = TRUE /\ marker' = None
    /\ UNCHANGED <<up, loop, waits, pc, job, call, blocked, orphans, result, daemon, budget>>

\* Engine.Run returns when its context is cancelled.
Leave ==
    /\ up = "up" /\ pc = "idle"
    /\ \/ loop = "stop" /\ up' = "stopped"
       \/ loop = "revoke" /\ dead /\ up' = "gone"
    /\ UNCHANGED <<loop, waits, dead, pc, job, call, blocked, orphans, journal, daemon, budget>>

\* The runner dies; with the power, every process on the machine does.  The
\* docker run process lives until the service manager clears the unit.
Crash(power) ==
    /\ up \in {"up", "boot"} /\ crashes < MaxCrashes
    /\ crashes' = crashes + 1 /\ UNCHANGED <<flaky, outages>>
    /\ up' = IF dead THEN "gone" ELSE "down"
    /\ pc' = "idle" /\ job' = None /\ ctx' = "open" /\ err' = "none" /\ names' = FALSE
    /\ loop' = "open" /\ waits' = FALSE /\ orphans' = {}
    /\ cli' = IF power \/ dead THEN None ELSE cli
    /\ box' = IF power THEN [r \in Runs |-> IF box[r] = "running" THEN "exited"
                                           ELSE IF box[r] = "creating" THEN "none" ELSE box[r]]
               ELSE box
    /\ UNCHANGED <<dead, blocked, journal, hist>>

Boot ==
    /\ up \in {"down", "stopped"} /\ pc = "idle"
    /\ up' = "boot" /\ pc' = "list" /\ blocked' = FALSE
    /\ loop' = "open" /\ cli' = None
    /\ UNCHANGED <<waits, dead, job, call, orphans, journal, box, hist, budget>>

\* DockerExecutor.Recover: the labelled containers, one after the other.
List ==
    /\ pc = "list"
    /\ \/ orphans' = {r \in Runs : Visible(r)} /\ pc' = "next" /\ UNCHANGED up
       \/ flaky /\ up' = "down" /\ pc' = "idle" /\ UNCHANGED orphans
    /\ UNCHANGED <<loop, waits, dead, job, call, blocked, journal, daemon, budget>>

NextOrphan ==
    /\ pc = "next"
    /\ \E r \in orphans : orphans' = orphans \ {r} /\ job' = r
    /\ pc' = "kill"
    /\ UNCHANGED <<service, call, blocked, journal, daemon, budget>>

\* Deviation: boot removes the containers and leaves the journal as it is.
RecoverContainersOnly ==
    /\ pc = "next" /\ orphans = {}
    /\ up' = "up" /\ pc' = "idle" /\ job' = None
    /\ UNCHANGED <<loop, waits, dead, call, blocked, orphans, journal, daemon, budget>>

\* State.Recover journals the open run as interrupted, without mount names.
Recover ==
    /\ pc = "next" /\ orphans = {}
    /\ up' = "up" /\ pc' = "idle" /\ job' = None
    /\ marker' = None
    /\ result' = IF marker = None THEN result
                  ELSE [result EXCEPT ![marker] = Finished("interrupted", FALSE)]
    /\ UNCHANGED <<loop, waits, dead, call, blocked, orphans, daemon, budget>>

Work == \/ Decline \/ Enter \/ CheckBlocked \/ Prepare \/ RunReturns \/ Inspect
        \/ KillReturns \/ RmReturns \/ PsReturns \/ Settle \/ Report
Service == RevokeDeletes \/ Leave \/ List \/ NextOrphan \/ Recover

ContainerNext ==
    \/ Daemon \/ Outage
    \/ \E r \in Runs : Claim(r)
    \/ Work
    \/ Service
    \/ Wall \/ Cancel \/ Stop \/ Revoke
    \/ \E power \in BOOLEAN : Crash(power)
    \/ Boot

ContainerSafety == ContainerInit /\ [][ContainerNext]_containerVars

\* Calls to docker end (ExecDocker.Call has a context or a wait delay), the
\* wall timer fires, and the service manager restarts a service that died, but
\* not one that was stopped.  Nothing makes a job end.
ContainerFairness ==
    /\ WF_containerVars(Work)
    /\ WF_containerVars(Service)
    /\ WF_containerVars(Wall)
    /\ WF_containerVars(up = "down" /\ Boot)
    /\ WF_containerVars(OutageEnds /\ Outage)
    /\ \A r \in Runs : WF_containerVars(AutoRemove(r) /\ Daemon)

ContainerSpec == ContainerSafety /\ ContainerFairness

-----------------------------------------------------------------------------
(* Properties *)

\* Type correctness of the service, the docker calls and the journal.
TypeOK ==
    /\ up \in {"up", "boot", "down", "stopped", "gone"}
    /\ loop \in {"open", "stop", "revoke"} /\ waits \in BOOLEAN /\ dead \in BOOLEAN
    /\ pc \in {"idle", "claimed", "report", "list", "next"} \cup Registered
    /\ job \in Runs \cup {None}
    /\ ctx \in {"open", "wall", "cancelled"}
    /\ err \in ProcessErrors \cup {"context", "refused", "unmarked"}
    /\ names \in BOOLEAN /\ blocked \in BOOLEAN
    /\ orphans \subseteq Runs
    /\ marker \in Runs \cup {None}
    /\ result \in [Runs -> [end : Ends, names : BOOLEAN] \cup {None}]
    /\ cli \in Runs \cup {None}
    /\ box \in [Runs -> {"none", "creating", "created", "running", "exited", "removing"}]
    /\ hist \in [Runs -> {"never", "ran", "ended"}]
    /\ flaky \in BOOLEAN /\ outages \in 0 .. MaxOutages /\ crashes \in 0 .. MaxCrashes

Running(r) == box[r] = "running"
InHand(r) == up = "up" /\ job = r /\ pc \in {"run", "inspect"} \cup InCleanup

\* While the service works, and after it was stopped or revoked, a job runs
\* only as the run in hand; or a cleanup failed, and no run starts any more
\* (container.go:378-380, README.md:1024-1027).
NothingLeftRunning ==
    \A r \in Runs : up \in {"up", "stopped", "gone"} /\ Running(r) => InHand(r) \/ blocked

\* Two jobs never run at once, over failed cleanups, crashes and restarts: the
\* slot is taken until the old container is known to be gone (README.md:1024).
OneAtATime == \A r, s \in Runs : Running(r) /\ Running(s) => r = s

\* A job that runs without a journalled result is the journal's open run, so
\* that a restart can report it (container_engine.go:41).
MarkerCoversRun ==
    \A r \in Runs : Running(r) /\ result[r] = None => marker = r \/ (dead /\ blocked)

\* Results say no more than the runner knows: mount names mean that the job
\* began (README.md:1007), ok and error that it ended by itself, not that the
\* runner lost sight of it or killed it (container.go:117-121).
ResultsAreTrue ==
    \A r \in Runs : result[r] # None =>
        /\ result[r].names => hist[r] # "never"
        /\ result[r].end \in {"ok", "error"} => hist[r] = "ended"

\* Engine.Revoke stops the job before it deletes the state: afterwards nothing
\* runs, unless its cleanup failed (engine.go:64-83).
RevokedIsQuiet == dead => \A r \in Runs : Running(r) => blocked

\* What runs in the daemon is in hand, or the executor refuses further runs.
JobsInHand == NothingLeftRunning /\ RevokedIsQuiet

\* Every claimed run is settled: it gets its result, or the device is revoked.
EveryRunSettles == marker # None ~> marker = None

\* No job runs for ever, even one that never ends by itself: the wall time, a
\* cancellation or the restart removes it, or the executor blocks itself.
JobsEnd == (\E r \in Runs : Running(r)) ~> (blocked \/ \A r \in Runs : ~Running(r))

\* Both: neither a run nor its job stays for ever.
RunsAndJobsEnd == EveryRunSettles /\ JobsEnd

\* contract/README.md:433 on refused: "Gerät, vor Prozessstart".  The default
\* case of executeContainer says refused of a started job as well.
RefusedMeansNotStarted ==
    \A r \in Runs : result[r] # None => (result[r].end = "refused" => hist[r] = "never")
=============================================================================
