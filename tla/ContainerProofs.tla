-------------------------- MODULE ContainerProofs --------------------------
(***************************************************************************)
(* Proofs about Container, for any number of runs, outages and crashes.    *)
(***************************************************************************)
EXTENDS Container, TLAPS

InDocker == {"run", "inspect"} \cup InCleanup  \* a container of the job may exist

\* Where the loop and the recovery can be in each state of the service.
PcShape ==
    /\ up = "up"   => pc \in {"idle", "claimed", "report"} \cup Registered
    /\ up = "boot" => pc \in {"list", "next"} \cup InCleanup
    /\ up \in {"down", "stopped", "gone"} => pc = "idle"
    /\ pc \notin {"idle", "list", "next"} => job \in Runs

\* What is known of the loop's context and of a revocation.  Either Revoke
\* waits for the run, or the run finds its context cancelled before docker run.
LoopShape ==
    /\ up \in {"down", "boot"} => loop = "open"
    /\ up = "stopped" => loop = "stop"
    /\ waits => loop = "revoke" /\ pc # "claimed"
    /\ loop = "revoke" /\ ~waits => /\ pc \notin InDocker
                                    /\ pc \in {"enter", "prepare"} => ctx = "cancelled"
    /\ dead => up = "gone" \/ (up = "up" /\ loop = "revoke")
    /\ dead /\ waits => pc \notin Registered

\* A container that has not been started has no history, one that runs has begun.
BoxShape ==
    \A r \in Runs : /\ box[r] \in {"creating", "created"} => hist[r] = "never"
                    /\ box[r] = "running" => hist[r] = "ran"

\* The docker run process is the job's, or outlives the runner until the boot;
\* while it lives, nothing runs but what it started.
CliShape ==
    cli # None => /\ (up = "up" /\ pc = "run" /\ cli = job) \/ up = "down"
                  /\ marker = cli
                  /\ \A r \in Runs : Running(r) => r = cli

\* No run gets as far as docker after a failed cleanup.
BlockedShape == up = "up" /\ pc \in {"prepare"} \cup InDocker => ~blocked

\* A job runs in the hand of the loop, or of the recovery which has not looked
\* yet, has it on its list or is removing it; or the runner is dead; or blocked.
RunningShape ==
    \A r \in Runs : Running(r) =>
        \/ up \in {"up", "stopped", "gone"} /\ blocked
        \/ up = "up" /\ job = r /\ pc \in InDocker
        \/ up = "down"
        \/ up = "boot" /\ (pc = "list" \/ r \in orphans \/ (job = r /\ pc \in InCleanup))

\* The run in hand is the journal's open run, which has no result yet.
MarkerShape ==
    /\ up = "up" /\ pc \in {"claimed", "report"} \cup Registered => marker = job \/ dead
    /\ marker # None => result[marker] = None

\* What the runner is about to report is true.
ReportShape ==
    /\ names => up = "up" /\ pc \notin {"idle", "claimed"} /\ hist[job] # "never"
    /\ up = "up" /\ pc \in {"inspect", "settle", "report"} \cup InCleanup
         => (err \in {"none", "exit"} => hist[job] = "ended")

IInv == /\ TypeOK
        /\ PcShape /\ LoopShape /\ BoxShape /\ CliShape /\ BlockedShape
        /\ RunningShape /\ MarkerShape /\ ReportShape
        /\ OneAtATime /\ MarkerCoversRun /\ ResultsAreTrue

\* The initial state satisfies the invariant.
LEMMA InitHolds == ContainerInit => IInv
<1> SUFFICES ASSUME ContainerInit PROVE IInv
  OBVIOUS
<1> USE DEF ContainerInit, Registered, InContext, InCleanup
<1>1. outages \in 0 .. MaxOutages /\ crashes \in 0 .. MaxCrashes
  BY ContainerAssumption
<1>2. TypeOK
  BY <1>1 DEF TypeOK, ProcessErrors
<1>3. PcShape /\ LoopShape /\ BoxShape /\ CliShape /\ BlockedShape
  BY DEF PcShape, LoopShape, BoxShape, CliShape, BlockedShape, InDocker
<1>4. RunningShape /\ MarkerShape /\ ReportShape
  BY DEF RunningShape, MarkerShape, ReportShape, Running
<1>5. OneAtATime /\ MarkerCoversRun /\ ResultsAreTrue
  BY DEF OneAtATime, MarkerCoversRun, ResultsAreTrue, Running
<1> QED BY <1>2, <1>3, <1>4, <1>5 DEF IInv

\* What a step of the daemon leaves alone.
DaemonFrame == UNCHANGED <<service, pc, job, call, blocked, orphans, journal, budget>>

\* The daemon takes the create request; nothing runs by it.
LEMMA CreateKeeps == ASSUME IInv, Create, DaemonFrame PROVE IInv'
<1> USE DEF Create, DaemonFrame,
       service, call, journal, daemon, budget, Registered, InContext, InCleanup
<1>1. TypeOK'
  BY ContainerAssumption DEF IInv, TypeOK
<1>2. BoxShape'
  BY DEF IInv, TypeOK, BoxShape
<1>3. CliShape'
  BY ContainerAssumption DEF IInv, TypeOK, PcShape, LoopShape, CliShape,
       BlockedShape, RunningShape, MarkerShape, InDocker, Running
<1>4. RunningShape'
  BY DEF IInv, TypeOK, PcShape, LoopShape, CliShape, BlockedShape, RunningShape,
       InDocker, Running
<1>5. OneAtATime'
  BY ContainerAssumption DEF IInv, TypeOK, CliShape, OneAtATime, Running
<1>6. MarkerCoversRun'
  BY ContainerAssumption DEF IInv, TypeOK, PcShape, LoopShape, CliShape,
       BlockedShape, RunningShape, MarkerShape, MarkerCoversRun, InDocker, Running
<1>7. PcShape' /\ LoopShape' /\ BlockedShape' /\ MarkerShape' /\ ReportShape' /\
     ResultsAreTrue'
  BY DEF IInv, PcShape, LoopShape, BlockedShape, MarkerShape, ReportShape,
       ResultsAreTrue, InDocker
<1> QED
  BY <1>1, <1>2, <1>3, <1>4, <1>5, <1>6, <1>7 DEF IInv

\* The daemon has created the container.
LEMMA CreatedKeeps == ASSUME IInv, NEW r \in Runs, Created(r), DaemonFrame PROVE IInv'
<1> USE DEF Created, DaemonFrame,
       service, call, journal, daemon, budget, Registered, InContext, InCleanup
<1>1. TypeOK'
  BY ContainerAssumption DEF IInv, TypeOK
<1>2. BoxShape'
  BY DEF IInv, TypeOK, BoxShape
<1>3. CliShape'
  BY ContainerAssumption DEF IInv, TypeOK, PcShape, LoopShape, CliShape,
       BlockedShape, RunningShape, MarkerShape, InDocker, Running
<1>4. RunningShape'
  BY DEF IInv, TypeOK, PcShape, LoopShape, CliShape, BlockedShape, RunningShape,
       InDocker, Running
<1>5. OneAtATime'
  BY ContainerAssumption DEF IInv, TypeOK, CliShape, OneAtATime, Running
<1>6. MarkerCoversRun'
  BY ContainerAssumption DEF IInv, TypeOK, PcShape, LoopShape, CliShape,
       BlockedShape, RunningShape, MarkerShape, MarkerCoversRun, InDocker, Running
<1>7. PcShape' /\ LoopShape' /\ BlockedShape' /\ MarkerShape' /\ ReportShape' /\
     ResultsAreTrue'
  BY DEF IInv, PcShape, LoopShape, BlockedShape, MarkerShape, ReportShape,
       ResultsAreTrue, InDocker
<1> QED
  BY <1>1, <1>2, <1>3, <1>4, <1>5, <1>6, <1>7 DEF IInv

\* The only step that makes a job run: its process is started by docker run.
LEMMA BeginKeeps == ASSUME IInv, Begin, DaemonFrame PROVE IInv'
<1> USE DEF Begin, DaemonFrame,
       service, call, journal, daemon, budget, Registered, InContext, InCleanup
<1>1. TypeOK'
  BY ContainerAssumption DEF IInv, TypeOK
<1>2. BoxShape'
  BY DEF IInv, TypeOK, BoxShape
<1>3. CliShape'
  BY ContainerAssumption DEF IInv, TypeOK, PcShape, LoopShape, CliShape,
       BlockedShape, RunningShape, MarkerShape, InDocker, Running
<1>4. RunningShape'
  BY DEF IInv, TypeOK, PcShape, LoopShape, CliShape, BlockedShape, RunningShape,
       InDocker, Running
<1>5. ReportShape'
  BY DEF IInv, TypeOK, PcShape, LoopShape, BoxShape, ReportShape
<1>6. OneAtATime'
  BY ContainerAssumption DEF IInv, TypeOK, CliShape, OneAtATime, Running
<1>7. MarkerCoversRun'
  BY ContainerAssumption DEF IInv, TypeOK, PcShape, LoopShape, CliShape,
       BlockedShape, RunningShape, MarkerShape, MarkerCoversRun, InDocker, Running
<1>8. ResultsAreTrue'
  BY ContainerAssumption DEF IInv, TypeOK, PcShape, BoxShape, ReportShape,
       ResultsAreTrue, Finished
<1>9. PcShape' /\ LoopShape' /\ BlockedShape' /\ MarkerShape'
  BY DEF IInv, PcShape, LoopShape, BlockedShape, MarkerShape, InDocker
<1> QED
  BY <1>1, <1>2, <1>3, <1>4, <1>5, <1>6, <1>7, <1>8, <1>9 DEF IInv

\* A job ends by itself.
LEMMA ExitKeeps == ASSUME IInv, NEW r \in Runs, Exit(r), DaemonFrame PROVE IInv'
<1> USE DEF Exit, DaemonFrame,
       service, call, journal, daemon, budget, Registered, InContext, InCleanup
<1>1. TypeOK'
  BY ContainerAssumption DEF IInv, TypeOK
<1>2. BoxShape'
  BY DEF IInv, TypeOK, BoxShape
<1>3. CliShape'
  BY ContainerAssumption DEF IInv, TypeOK, PcShape, LoopShape, CliShape,
       BlockedShape, RunningShape, MarkerShape, InDocker, Running
<1>4. RunningShape'
  BY DEF IInv, TypeOK, PcShape, LoopShape, CliShape, BlockedShape, RunningShape,
       InDocker, Running
<1>5. ReportShape'
  BY DEF IInv, TypeOK, PcShape, LoopShape, BoxShape, ReportShape
<1>6. OneAtATime'
  BY ContainerAssumption DEF IInv, TypeOK, CliShape, OneAtATime, Running
<1>7. MarkerCoversRun'
  BY ContainerAssumption DEF IInv, TypeOK, PcShape, LoopShape, CliShape,
       BlockedShape, RunningShape, MarkerShape, MarkerCoversRun, InDocker, Running
<1>8. ResultsAreTrue'
  BY ContainerAssumption DEF IInv, TypeOK, PcShape, BoxShape, ReportShape,
       ResultsAreTrue, Finished
<1>9. PcShape' /\ LoopShape' /\ BlockedShape' /\ MarkerShape'
  BY DEF IInv, PcShape, LoopShape, BlockedShape, MarkerShape, InDocker
<1> QED
  BY <1>1, <1>2, <1>3, <1>4, <1>5, <1>6, <1>7, <1>8, <1>9 DEF IInv

\* The daemon removes an exited container.
LEMMA AutoRemoveKeeps == ASSUME IInv, NEW r \in Runs, AutoRemove(r), DaemonFrame PROVE IInv'
<1> USE DEF AutoRemove, DaemonFrame,
       service, call, journal, daemon, budget, Registered, InContext, InCleanup
<1>1. TypeOK'
  BY ContainerAssumption DEF IInv, TypeOK
<1>2. BoxShape'
  BY DEF IInv, TypeOK, BoxShape
<1>3. CliShape'
  BY ContainerAssumption DEF IInv, TypeOK, PcShape, LoopShape, CliShape,
       BlockedShape, RunningShape, MarkerShape, InDocker, Running
<1>4. RunningShape'
  BY DEF IInv, TypeOK, PcShape, LoopShape, CliShape, BlockedShape, RunningShape,
       InDocker, Running
<1>5. OneAtATime'
  BY ContainerAssumption DEF IInv, TypeOK, CliShape, OneAtATime, Running
<1>6. MarkerCoversRun'
  BY ContainerAssumption DEF IInv, TypeOK, PcShape, LoopShape, CliShape,
       BlockedShape, RunningShape, MarkerShape, MarkerCoversRun, InDocker, Running
<1>7. PcShape' /\ LoopShape' /\ BlockedShape' /\ MarkerShape' /\ ReportShape' /\
     ResultsAreTrue'
  BY DEF IInv, PcShape, LoopShape, BlockedShape, MarkerShape, ReportShape,
       ResultsAreTrue, InDocker
<1> QED
  BY <1>1, <1>2, <1>3, <1>4, <1>5, <1>6, <1>7 DEF IInv

\* The daemon becomes unreliable or recovers.
LEMMA OutageKeeps == ASSUME IInv, Outage PROVE IInv'
<1> USE DEF Outage, OutageBegins, OutageEnds,
       service, call, journal, daemon, budget, Registered, InContext, InCleanup
<1>1. TypeOK'
  <2>1. up' \in {"up", "boot", "down", "stopped", "gone"} /\ loop' \in {"open", "stop", "revoke"}
    BY DEF IInv, TypeOK
  <2>2. waits' \in BOOLEAN /\ dead' \in BOOLEAN /\ names' \in BOOLEAN /\ blocked' \in BOOLEAN /\ flaky' \in BOOLEAN
    BY DEF IInv, TypeOK
  <2>3. pc' \in {"idle", "claimed", "report", "list", "next"} \cup Registered /\ job' \in Runs \cup {None}
    BY DEF IInv, TypeOK
  <2>4. ctx' \in {"open", "wall", "cancelled"}
         /\ err' \in ProcessErrors \cup {"context", "refused", "unmarked"}
    BY DEF IInv, TypeOK
  <2>5. orphans' \subseteq Runs /\ marker' \in Runs \cup {None} /\ cli' \in Runs \cup {None}
    BY DEF IInv, TypeOK
  <2>6. result' \in [Runs -> [end : Ends, names : BOOLEAN] \cup {None}]
    BY DEF IInv, TypeOK
  <2>7. box' \in [Runs -> {"none", "creating", "created", "running", "exited", "removing"}]
    BY DEF IInv, TypeOK
  <2>8. hist' \in [Runs -> {"never", "ran", "ended"}]
    BY DEF IInv, TypeOK
  <2>9. outages' \in 0 .. MaxOutages /\ crashes' \in 0 .. MaxCrashes
    BY ContainerAssumption DEF IInv, TypeOK
  <2> QED BY <2>1, <2>2, <2>3, <2>4, <2>5, <2>6, <2>7, <2>8, <2>9 DEF TypeOK
<1>2. PcShape' /\ LoopShape' /\ BoxShape' /\ CliShape' /\ BlockedShape' /\ RunningShape'
     /\ MarkerShape' /\ ReportShape' /\ OneAtATime' /\ MarkerCoversRun' /\
     ResultsAreTrue'
  BY DEF IInv, PcShape, LoopShape, BoxShape, CliShape, BlockedShape, RunningShape,
       MarkerShape, ReportShape, OneAtATime, MarkerCoversRun, ResultsAreTrue, Running,
       InDocker
<1> QED
  BY <1>1, <1>2 DEF IInv

\* A job is claimed.
LEMMA ClaimKeeps == ASSUME IInv, NEW r \in Runs, Claim(r) PROVE IInv'
<1> USE DEF Claim,
       service, call, journal, daemon, budget, Registered, InContext, InCleanup
<1>1. TypeOK'
  BY ContainerAssumption DEF IInv, TypeOK
<1>2. PcShape'
  BY DEF IInv, TypeOK, PcShape
<1>3. LoopShape'
  BY DEF IInv, TypeOK, PcShape, LoopShape, InDocker
<1>4. CliShape'
  BY ContainerAssumption DEF IInv, TypeOK, PcShape, LoopShape, CliShape,
       BlockedShape, RunningShape, MarkerShape, InDocker, Running
<1>5. BlockedShape'
  BY DEF IInv, PcShape, BlockedShape, InDocker
<1>6. RunningShape'
  BY DEF IInv, TypeOK, PcShape, LoopShape, CliShape, BlockedShape, RunningShape,
       InDocker, Running
<1>7. MarkerShape'
  BY ContainerAssumption DEF IInv, TypeOK, PcShape, LoopShape, MarkerShape
<1>8. ReportShape'
  BY DEF IInv, TypeOK, PcShape, LoopShape, BoxShape, ReportShape
<1>9. MarkerCoversRun'
  BY ContainerAssumption DEF IInv, TypeOK, PcShape, LoopShape, CliShape,
       BlockedShape, RunningShape, MarkerShape, MarkerCoversRun, InDocker, Running
<1>10. BoxShape' /\ OneAtATime' /\ ResultsAreTrue'
  BY DEF IInv, BoxShape, OneAtATime, ResultsAreTrue, Running
<1> QED
  BY <1>1, <1>2, <1>3, <1>4, <1>5, <1>6, <1>7, <1>8, <1>9, <1>10 DEF IInv

\* A claimed job is refused before execution.
LEMMA DeclineKeeps == ASSUME IInv, Decline PROVE IInv'
<1> USE DEF Decline,
       service, call, journal, daemon, budget, Registered, InContext, InCleanup
<1>1. TypeOK'
  <2>1. up' \in {"up", "boot", "down", "stopped", "gone"} /\ loop' \in {"open", "stop", "revoke"}
    BY DEF IInv, TypeOK
  <2>2. waits' \in BOOLEAN /\ dead' \in BOOLEAN /\ names' \in BOOLEAN /\ blocked' \in BOOLEAN /\ flaky' \in BOOLEAN
    BY DEF IInv, TypeOK
  <2>3. pc' \in {"idle", "claimed", "report", "list", "next"} \cup Registered /\ job' \in Runs \cup {None}
    BY DEF IInv, TypeOK
  <2>4. ctx' \in {"open", "wall", "cancelled"}
         /\ err' \in ProcessErrors \cup {"context", "refused", "unmarked"}
    BY DEF IInv, TypeOK
  <2>5. orphans' \subseteq Runs /\ marker' \in Runs \cup {None} /\ cli' \in Runs \cup {None}
    BY DEF IInv, TypeOK
  <2>6. result' \in [Runs -> [end : Ends, names : BOOLEAN] \cup {None}]
    BY DEF IInv, TypeOK
  <2>7. box' \in [Runs -> {"none", "creating", "created", "running", "exited", "removing"}]
    BY DEF IInv, TypeOK
  <2>8. hist' \in [Runs -> {"never", "ran", "ended"}]
    BY DEF IInv, TypeOK
  <2>9. outages' \in 0 .. MaxOutages /\ crashes' \in 0 .. MaxCrashes
    BY ContainerAssumption DEF IInv, TypeOK
  <2> QED BY <2>1, <2>2, <2>3, <2>4, <2>5, <2>6, <2>7, <2>8, <2>9 DEF TypeOK
<1>2. PcShape'
  BY DEF IInv, TypeOK, PcShape
<1>3. LoopShape'
  BY DEF IInv, TypeOK, PcShape, LoopShape, InDocker
<1>4. CliShape'
  BY ContainerAssumption DEF IInv, TypeOK, PcShape, LoopShape, CliShape,
       BlockedShape, RunningShape, MarkerShape, InDocker, Running
<1>5. BlockedShape'
  BY DEF IInv, PcShape, BlockedShape, InDocker
<1>6. RunningShape'
  BY DEF IInv, TypeOK, PcShape, LoopShape, CliShape, BlockedShape, RunningShape,
       InDocker, Running
<1>7. MarkerShape'
  BY ContainerAssumption DEF IInv, TypeOK, PcShape, LoopShape, MarkerShape
<1>8. ReportShape'
  BY DEF IInv, TypeOK, PcShape, LoopShape, BoxShape, ReportShape
<1>9. BoxShape' /\ OneAtATime' /\ MarkerCoversRun' /\ ResultsAreTrue'
  BY DEF IInv, BoxShape, OneAtATime, MarkerCoversRun, ResultsAreTrue, Running
<1> QED
  BY <1>1, <1>2, <1>3, <1>4, <1>5, <1>6, <1>7, <1>8, <1>9 DEF IInv

\* The run is marked as started and registered.
LEMMA EnterKeeps == ASSUME IInv, Enter PROVE IInv'
<1> USE DEF Enter, ProcessErrors,
       service, call, journal, daemon, budget, Registered, InContext, InCleanup
<1>1. TypeOK'
  BY ContainerAssumption DEF IInv, TypeOK
<1>2. PcShape'
  BY DEF IInv, TypeOK, PcShape
<1>3. LoopShape'
  BY DEF IInv, TypeOK, PcShape, LoopShape, InDocker
<1>4. CliShape'
  BY ContainerAssumption DEF IInv, TypeOK, PcShape, LoopShape, CliShape,
       BlockedShape, RunningShape, MarkerShape, InDocker, Running
<1>5. BlockedShape'
  BY DEF IInv, PcShape, BlockedShape, InDocker
<1>6. RunningShape'
  BY DEF IInv, TypeOK, PcShape, LoopShape, CliShape, BlockedShape, RunningShape,
       InDocker, Running
<1>7. MarkerShape'
  BY ContainerAssumption DEF IInv, TypeOK, PcShape, LoopShape, MarkerShape
<1>8. ReportShape'
  BY DEF IInv, TypeOK, PcShape, LoopShape, BoxShape, ReportShape
<1>9. BoxShape' /\ OneAtATime' /\ MarkerCoversRun' /\ ResultsAreTrue'
  BY DEF IInv, BoxShape, OneAtATime, MarkerCoversRun, ResultsAreTrue, Running
<1> QED
  BY <1>1, <1>2, <1>3, <1>4, <1>5, <1>6, <1>7, <1>8, <1>9 DEF IInv

\* The executor looks at its blocked flag.
LEMMA CheckBlockedKeeps == ASSUME IInv, CheckBlocked PROVE IInv'
<1> USE DEF CheckBlocked, ProcessErrors,
       service, call, journal, daemon, budget, Registered, InContext, InCleanup
<1>1. TypeOK'
  BY ContainerAssumption DEF IInv, TypeOK
<1>2. PcShape'
  BY DEF IInv, TypeOK, PcShape
<1>3. LoopShape'
  BY DEF IInv, TypeOK, PcShape, LoopShape, InDocker
<1>4. CliShape'
  BY ContainerAssumption DEF IInv, TypeOK, PcShape, LoopShape, CliShape,
       BlockedShape, RunningShape, MarkerShape, InDocker, Running
<1>5. BlockedShape'
  BY DEF IInv, PcShape, BlockedShape, InDocker
<1>6. RunningShape'
  BY DEF IInv, TypeOK, PcShape, LoopShape, CliShape, BlockedShape, RunningShape,
       InDocker, Running
<1>7. MarkerShape'
  BY ContainerAssumption DEF IInv, TypeOK, PcShape, LoopShape, MarkerShape
<1>8. ReportShape'
  BY DEF IInv, TypeOK, PcShape, LoopShape, BoxShape, ReportShape
<1>9. BoxShape' /\ OneAtATime' /\ MarkerCoversRun' /\ ResultsAreTrue'
  BY DEF IInv, BoxShape, OneAtATime, MarkerCoversRun, ResultsAreTrue, Running
<1> QED
  BY <1>1, <1>2, <1>3, <1>4, <1>5, <1>6, <1>7, <1>8, <1>9 DEF IInv

\* docker run is called, or the run is refused.
LEMMA PrepareKeeps == ASSUME IInv, Prepare PROVE IInv'
<1> USE DEF Prepare, ProcessErrors,
       service, call, journal, daemon, budget, Registered, InContext, InCleanup
<1>1. TypeOK'
  BY ContainerAssumption DEF IInv, TypeOK
<1>2. PcShape'
  BY DEF IInv, TypeOK, PcShape
<1>3. LoopShape'
  BY DEF IInv, TypeOK, PcShape, LoopShape, InDocker
<1>4. CliShape'
  BY ContainerAssumption DEF IInv, TypeOK, PcShape, LoopShape, CliShape,
       BlockedShape, RunningShape, MarkerShape, InDocker, Running
<1>5. BlockedShape'
  BY DEF IInv, PcShape, BlockedShape, InDocker
<1>6. RunningShape'
  BY DEF IInv, TypeOK, PcShape, LoopShape, CliShape, BlockedShape, RunningShape,
       InDocker, Running
<1>7. MarkerShape'
  BY ContainerAssumption DEF IInv, TypeOK, PcShape, LoopShape, MarkerShape
<1>8. ReportShape'
  BY DEF IInv, TypeOK, PcShape, LoopShape, BoxShape, ReportShape
<1>9. BoxShape' /\ OneAtATime' /\ MarkerCoversRun' /\ ResultsAreTrue'
  BY DEF IInv, BoxShape, OneAtATime, MarkerCoversRun, ResultsAreTrue, Running
<1> QED
  BY <1>1, <1>2, <1>3, <1>4, <1>5, <1>6, <1>7, <1>8, <1>9 DEF IInv

\* docker run returns.
LEMMA RunReturnsKeeps == ASSUME IInv, RunReturns PROVE IInv'
<1> USE DEF RunReturns, RunEnds, ProcessErrors,
       service, call, journal, daemon, budget, Registered, InContext, InCleanup
<1>1. TypeOK'
  BY ContainerAssumption DEF IInv, TypeOK
<1>2. PcShape'
  BY DEF IInv, TypeOK, PcShape
<1>3. LoopShape'
  BY DEF IInv, TypeOK, PcShape, LoopShape, InDocker
<1>4. CliShape'
  BY ContainerAssumption DEF IInv, TypeOK, PcShape, LoopShape, CliShape,
       BlockedShape, RunningShape, MarkerShape, InDocker, Running
<1>5. BlockedShape'
  BY DEF IInv, PcShape, BlockedShape, InDocker
<1>6. RunningShape'
  BY DEF IInv, TypeOK, PcShape, LoopShape, CliShape, BlockedShape, RunningShape,
       InDocker, Running
<1>7. MarkerShape'
  BY ContainerAssumption DEF IInv, TypeOK, PcShape, LoopShape, MarkerShape
<1>8. ReportShape'
  BY DEF IInv, TypeOK, PcShape, LoopShape, BoxShape, ReportShape
<1>9. BoxShape' /\ OneAtATime' /\ MarkerCoversRun' /\ ResultsAreTrue'
  BY DEF IInv, BoxShape, OneAtATime, MarkerCoversRun, ResultsAreTrue, Running
<1> QED
  BY <1>1, <1>2, <1>3, <1>4, <1>5, <1>6, <1>7, <1>8, <1>9 DEF IInv

\* The start is looked up.
LEMMA InspectKeeps == ASSUME IInv, Inspect PROVE IInv'
<1> USE DEF Inspect, StartedAt, Visible,
       service, call, journal, daemon, budget, Registered, InContext, InCleanup
<1>1. TypeOK'
  <2>1. up' \in {"up", "boot", "down", "stopped", "gone"} /\ loop' \in {"open", "stop", "revoke"}
    BY DEF IInv, TypeOK
  <2>2. waits' \in BOOLEAN /\ dead' \in BOOLEAN /\ names' \in BOOLEAN /\ blocked' \in BOOLEAN /\ flaky' \in BOOLEAN
    BY DEF IInv, TypeOK
  <2>3. pc' \in {"idle", "claimed", "report", "list", "next"} \cup Registered /\ job' \in Runs \cup {None}
    BY DEF IInv, TypeOK
  <2>4. ctx' \in {"open", "wall", "cancelled"}
         /\ err' \in ProcessErrors \cup {"context", "refused", "unmarked"}
    BY DEF IInv, TypeOK
  <2>5. orphans' \subseteq Runs /\ marker' \in Runs \cup {None} /\ cli' \in Runs \cup {None}
    BY DEF IInv, TypeOK
  <2>6. result' \in [Runs -> [end : Ends, names : BOOLEAN] \cup {None}]
    BY DEF IInv, TypeOK
  <2>7. box' \in [Runs -> {"none", "creating", "created", "running", "exited", "removing"}]
    BY DEF IInv, TypeOK
  <2>8. hist' \in [Runs -> {"never", "ran", "ended"}]
    BY DEF IInv, TypeOK
  <2>9. outages' \in 0 .. MaxOutages /\ crashes' \in 0 .. MaxCrashes
    BY ContainerAssumption DEF IInv, TypeOK
  <2> QED BY <2>1, <2>2, <2>3, <2>4, <2>5, <2>6, <2>7, <2>8, <2>9 DEF TypeOK
<1>2. PcShape'
  BY DEF IInv, TypeOK, PcShape
<1>3. LoopShape'
  BY DEF IInv, TypeOK, PcShape, LoopShape, InDocker
<1>4. CliShape'
  BY ContainerAssumption DEF IInv, TypeOK, PcShape, LoopShape, CliShape,
       BlockedShape, RunningShape, MarkerShape, InDocker, Running
<1>5. BlockedShape'
  BY DEF IInv, PcShape, BlockedShape, InDocker
<1>6. RunningShape'
  BY DEF IInv, TypeOK, PcShape, LoopShape, CliShape, BlockedShape, RunningShape,
       InDocker, Running
<1>7. MarkerShape'
  BY ContainerAssumption DEF IInv, TypeOK, PcShape, LoopShape, MarkerShape
<1>8. ReportShape'
  BY DEF IInv, TypeOK, PcShape, LoopShape, BoxShape, ReportShape
<1>9. BoxShape' /\ OneAtATime' /\ MarkerCoversRun' /\ ResultsAreTrue'
  BY DEF IInv, BoxShape, OneAtATime, MarkerCoversRun, ResultsAreTrue, Running
<1> QED
  BY <1>1, <1>2, <1>3, <1>4, <1>5, <1>6, <1>7, <1>8, <1>9 DEF IInv

\* kill returns.
LEMMA KillReturnsKeeps == ASSUME IInv, KillReturns PROVE IInv'
<1> USE DEF KillReturns,
       service, call, journal, daemon, budget, Registered, InContext, InCleanup
<1>1. TypeOK'
  BY ContainerAssumption DEF IInv, TypeOK
<1>2. PcShape'
  BY DEF IInv, TypeOK, PcShape
<1>3. LoopShape'
  BY DEF IInv, TypeOK, PcShape, LoopShape, InDocker
<1>4. BoxShape'
  BY DEF IInv, TypeOK, BoxShape
<1>5. CliShape'
  BY ContainerAssumption DEF IInv, TypeOK, PcShape, LoopShape, CliShape,
       BlockedShape, RunningShape, MarkerShape, InDocker, Running
<1>6. BlockedShape'
  BY DEF IInv, PcShape, BlockedShape, InDocker
<1>7. RunningShape'
  BY DEF IInv, TypeOK, PcShape, LoopShape, CliShape, BlockedShape, RunningShape,
       InDocker, Running
<1>8. MarkerShape'
  BY ContainerAssumption DEF IInv, TypeOK, PcShape, LoopShape, MarkerShape
<1>9. ReportShape'
  BY DEF IInv, TypeOK, PcShape, LoopShape, BoxShape, ReportShape
<1>10. OneAtATime'
  BY ContainerAssumption DEF IInv, TypeOK, CliShape, OneAtATime, Running
<1>11. MarkerCoversRun'
  BY ContainerAssumption DEF IInv, TypeOK, PcShape, LoopShape, CliShape,
       BlockedShape, RunningShape, MarkerShape, MarkerCoversRun, InDocker, Running
<1>12. ResultsAreTrue'
  BY DEF IInv, ResultsAreTrue
<1> QED
  BY <1>1, <1>2, <1>3, <1>4, <1>5, <1>6, <1>7, <1>8, <1>9, <1>10, <1>11, <1>12 DEF
       IInv

\* rm --force returns.
LEMMA RmReturnsKeeps == ASSUME IInv, RmReturns PROVE IInv'
<1> USE DEF RmReturns, Removed,
       service, call, journal, daemon, budget, Registered, InContext, InCleanup
<1>1. TypeOK'
  BY ContainerAssumption DEF IInv, TypeOK
<1>2. PcShape'
  BY DEF IInv, TypeOK, PcShape
<1>3. LoopShape'
  BY DEF IInv, TypeOK, PcShape, LoopShape, InDocker
<1>4. BoxShape'
  BY DEF IInv, TypeOK, BoxShape
<1>5. CliShape'
  BY ContainerAssumption DEF IInv, TypeOK, PcShape, LoopShape, CliShape,
       BlockedShape, RunningShape, MarkerShape, InDocker, Running
<1>6. BlockedShape'
  BY DEF IInv, PcShape, BlockedShape, InDocker
<1>7. RunningShape'
  BY DEF IInv, TypeOK, PcShape, LoopShape, CliShape, BlockedShape, RunningShape,
       InDocker, Running
<1>8. MarkerShape'
  BY ContainerAssumption DEF IInv, TypeOK, PcShape, LoopShape, MarkerShape
<1>9. ReportShape'
  BY DEF IInv, TypeOK, PcShape, LoopShape, BoxShape, ReportShape
<1>10. OneAtATime'
  BY ContainerAssumption DEF IInv, TypeOK, CliShape, OneAtATime, Running
<1>11. MarkerCoversRun'
  BY ContainerAssumption DEF IInv, TypeOK, PcShape, LoopShape, CliShape,
       BlockedShape, RunningShape, MarkerShape, MarkerCoversRun, InDocker, Running
<1>12. ResultsAreTrue'
  BY DEF IInv, ResultsAreTrue
<1> QED
  BY <1>1, <1>2, <1>3, <1>4, <1>5, <1>6, <1>7, <1>8, <1>9, <1>10, <1>11, <1>12 DEF
       IInv

\* ps returns, or the cleanup gives up.
LEMMA PsReturnsKeeps == ASSUME IInv, PsReturns PROVE IInv'
<1> USE DEF PsReturns, Removed, CleanupFails, Visible, ProcessErrors,
       service, call, journal, daemon, budget, Registered, InContext, InCleanup
<1>1. TypeOK'
  <2>1. up' \in {"up", "boot", "down", "stopped", "gone"} /\ loop' \in {"open", "stop", "revoke"}
    BY DEF IInv, TypeOK
  <2>2. waits' \in BOOLEAN /\ dead' \in BOOLEAN /\ names' \in BOOLEAN /\ blocked' \in BOOLEAN /\ flaky' \in BOOLEAN
    BY DEF IInv, TypeOK
  <2>3. pc' \in {"idle", "claimed", "report", "list", "next"} \cup Registered /\ job' \in Runs \cup {None}
    BY DEF IInv, TypeOK
  <2>4. ctx' \in {"open", "wall", "cancelled"}
         /\ err' \in ProcessErrors \cup {"context", "refused", "unmarked"}
    BY DEF IInv, TypeOK
  <2>5. orphans' \subseteq Runs /\ marker' \in Runs \cup {None} /\ cli' \in Runs \cup {None}
    BY DEF IInv, TypeOK
  <2>6. result' \in [Runs -> [end : Ends, names : BOOLEAN] \cup {None}]
    BY DEF IInv, TypeOK
  <2>7. box' \in [Runs -> {"none", "creating", "created", "running", "exited", "removing"}]
    BY DEF IInv, TypeOK
  <2>8. hist' \in [Runs -> {"never", "ran", "ended"}]
    BY DEF IInv, TypeOK
  <2>9. outages' \in 0 .. MaxOutages /\ crashes' \in 0 .. MaxCrashes
    BY ContainerAssumption DEF IInv, TypeOK
  <2> QED BY <2>1, <2>2, <2>3, <2>4, <2>5, <2>6, <2>7, <2>8, <2>9 DEF TypeOK
<1>2. PcShape'
  BY DEF IInv, TypeOK, PcShape
<1>3. LoopShape'
  BY DEF IInv, TypeOK, PcShape, LoopShape, InDocker
<1>4. CliShape'
  BY ContainerAssumption DEF IInv, TypeOK, PcShape, LoopShape, CliShape,
       BlockedShape, RunningShape, MarkerShape, InDocker, Running
<1>5. BlockedShape'
  BY DEF IInv, PcShape, BlockedShape, InDocker
<1>6. RunningShape'
  BY DEF IInv, TypeOK, PcShape, LoopShape, CliShape, BlockedShape, RunningShape,
       InDocker, Running
<1>7. MarkerShape'
  BY ContainerAssumption DEF IInv, TypeOK, PcShape, LoopShape, MarkerShape
<1>8. ReportShape'
  BY DEF IInv, TypeOK, PcShape, LoopShape, BoxShape, ReportShape
<1>9. MarkerCoversRun'
  BY ContainerAssumption DEF IInv, TypeOK, PcShape, LoopShape, CliShape,
       BlockedShape, RunningShape, MarkerShape, MarkerCoversRun, InDocker, Running
<1>10. BoxShape' /\ OneAtATime' /\ ResultsAreTrue'
  BY DEF IInv, BoxShape, OneAtATime, ResultsAreTrue, Running
<1> QED
  BY <1>1, <1>2, <1>3, <1>4, <1>5, <1>6, <1>7, <1>8, <1>9, <1>10 DEF IInv

\* The run is no longer registered.
LEMMA SettleKeeps == ASSUME IInv, Settle PROVE IInv'
<1> USE DEF Settle,
       service, call, journal, daemon, budget, Registered, InContext, InCleanup
<1>1. TypeOK'
  BY ContainerAssumption DEF IInv, TypeOK
<1>2. PcShape'
  BY DEF IInv, TypeOK, PcShape
<1>3. LoopShape'
  BY DEF IInv, TypeOK, PcShape, LoopShape, InDocker
<1>4. CliShape'
  BY ContainerAssumption DEF IInv, TypeOK, PcShape, LoopShape, CliShape,
       BlockedShape, RunningShape, MarkerShape, InDocker, Running
<1>5. BlockedShape'
  BY DEF IInv, PcShape, BlockedShape, InDocker
<1>6. RunningShape'
  BY DEF IInv, TypeOK, PcShape, LoopShape, CliShape, BlockedShape, RunningShape,
       InDocker, Running
<1>7. MarkerShape'
  BY ContainerAssumption DEF IInv, TypeOK, PcShape, LoopShape, MarkerShape
<1>8. ReportShape'
  BY DEF IInv, TypeOK, PcShape, LoopShape, BoxShape, ReportShape
<1>9. BoxShape' /\ OneAtATime' /\ MarkerCoversRun' /\ ResultsAreTrue'
  BY DEF IInv, BoxShape, OneAtATime, MarkerCoversRun, ResultsAreTrue, Running
<1> QED
  BY <1>1, <1>2, <1>3, <1>4, <1>5, <1>6, <1>7, <1>8, <1>9 DEF IInv

\* The result is journalled.
LEMMA ReportKeeps == ASSUME IInv, Report PROVE IInv'
<1> USE DEF Report, Outcome, Finished, Ends, ProcessErrors,
       service, call, journal, daemon, budget, Registered, InContext, InCleanup
<1>1. TypeOK'
  <2>1. up' \in {"up", "boot", "down", "stopped", "gone"} /\ loop' \in {"open", "stop", "revoke"}
    BY DEF IInv, TypeOK
  <2>2. waits' \in BOOLEAN /\ dead' \in BOOLEAN /\ names' \in BOOLEAN /\ blocked' \in BOOLEAN /\ flaky' \in BOOLEAN
    BY DEF IInv, TypeOK
  <2>3. pc' \in {"idle", "claimed", "report", "list", "next"} \cup Registered /\ job' \in Runs \cup {None}
    BY DEF IInv, TypeOK
  <2>4. ctx' \in {"open", "wall", "cancelled"}
         /\ err' \in ProcessErrors \cup {"context", "refused", "unmarked"}
    BY DEF IInv, TypeOK
  <2>5. orphans' \subseteq Runs /\ marker' \in Runs \cup {None} /\ cli' \in Runs \cup {None}
    BY DEF IInv, TypeOK
  <2>6. result' \in [Runs -> [end : Ends, names : BOOLEAN] \cup {None}]
    BY DEF IInv, TypeOK, MarkerShape, PcShape
  <2>7. box' \in [Runs -> {"none", "creating", "created", "running", "exited", "removing"}]
    BY DEF IInv, TypeOK
  <2>8. hist' \in [Runs -> {"never", "ran", "ended"}]
    BY DEF IInv, TypeOK
  <2>9. outages' \in 0 .. MaxOutages /\ crashes' \in 0 .. MaxCrashes
    BY ContainerAssumption DEF IInv, TypeOK
  <2> QED BY <2>1, <2>2, <2>3, <2>4, <2>5, <2>6, <2>7, <2>8, <2>9 DEF TypeOK
<1>2. PcShape'
  BY DEF IInv, TypeOK, PcShape
<1>3. LoopShape'
  BY DEF IInv, TypeOK, PcShape, LoopShape, InDocker
<1>4. CliShape'
  BY ContainerAssumption DEF IInv, TypeOK, PcShape, LoopShape, CliShape,
       BlockedShape, RunningShape, MarkerShape, InDocker, Running
<1>5. BlockedShape'
  BY DEF IInv, PcShape, BlockedShape, InDocker
<1>6. RunningShape'
  BY DEF IInv, TypeOK, PcShape, LoopShape, CliShape, BlockedShape, RunningShape,
       InDocker, Running
<1>7. MarkerShape'
  BY ContainerAssumption DEF IInv, TypeOK, PcShape, LoopShape, MarkerShape
<1>8. ReportShape'
  BY DEF IInv, TypeOK, PcShape, LoopShape, BoxShape, ReportShape
<1>9. MarkerCoversRun'
  BY ContainerAssumption DEF IInv, TypeOK, PcShape, LoopShape, CliShape,
       BlockedShape, RunningShape, MarkerShape, MarkerCoversRun, InDocker, Running
<1>10. ResultsAreTrue'
  BY ContainerAssumption DEF IInv, TypeOK, PcShape, BoxShape, ReportShape,
       ResultsAreTrue, Finished
<1>11. BoxShape' /\ OneAtATime'
  BY DEF IInv, BoxShape, OneAtATime, Running
<1> QED
  BY <1>1, <1>2, <1>3, <1>4, <1>5, <1>6, <1>7, <1>8, <1>9, <1>10, <1>11 DEF IInv

\* The state is deleted.
LEMMA RevokeDeletesKeeps == ASSUME IInv, RevokeDeletes PROVE IInv'
<1> USE DEF RevokeDeletes,
       service, call, journal, daemon, budget, Registered, InContext, InCleanup
<1>1. TypeOK'
  BY ContainerAssumption DEF IInv, TypeOK
<1>2. LoopShape'
  BY DEF IInv, TypeOK, PcShape, LoopShape, InDocker
<1>3. CliShape'
  BY ContainerAssumption DEF IInv, TypeOK, PcShape, LoopShape, CliShape,
       BlockedShape, RunningShape, MarkerShape, InDocker, Running
<1>4. MarkerShape'
  BY ContainerAssumption DEF IInv, TypeOK, PcShape, LoopShape, MarkerShape
<1>5. MarkerCoversRun'
  BY ContainerAssumption DEF IInv, TypeOK, PcShape, LoopShape, CliShape,
       BlockedShape, RunningShape, MarkerShape, MarkerCoversRun, InDocker, Running
<1>6. PcShape' /\ BoxShape' /\ BlockedShape' /\ RunningShape' /\ ReportShape' /\
     OneAtATime' /\ ResultsAreTrue'
  BY DEF IInv, PcShape, BoxShape, BlockedShape, RunningShape, ReportShape,
       OneAtATime, ResultsAreTrue, Running, InDocker
<1> QED
  BY <1>1, <1>2, <1>3, <1>4, <1>5, <1>6 DEF IInv

\* The service ends on purpose.
LEMMA LeaveKeeps == ASSUME IInv, Leave PROVE IInv'
<1> USE DEF Leave,
       service, call, journal, daemon, budget, Registered, InContext, InCleanup
<1>1. TypeOK'
  BY ContainerAssumption DEF IInv, TypeOK
<1>2. PcShape'
  BY DEF IInv, TypeOK, PcShape
<1>3. LoopShape'
  BY DEF IInv, TypeOK, PcShape, LoopShape, InDocker
<1>4. CliShape'
  BY ContainerAssumption DEF IInv, TypeOK, PcShape, LoopShape, CliShape,
       BlockedShape, RunningShape, MarkerShape, InDocker, Running
<1>5. BlockedShape'
  BY DEF IInv, PcShape, BlockedShape, InDocker
<1>6. RunningShape'
  BY DEF IInv, TypeOK, PcShape, LoopShape, CliShape, BlockedShape, RunningShape,
       InDocker, Running
<1>7. MarkerShape'
  BY ContainerAssumption DEF IInv, TypeOK, PcShape, LoopShape, MarkerShape
<1>8. ReportShape'
  BY DEF IInv, TypeOK, PcShape, LoopShape, BoxShape, ReportShape
<1>9. BoxShape' /\ OneAtATime' /\ MarkerCoversRun' /\ ResultsAreTrue'
  BY DEF IInv, BoxShape, OneAtATime, MarkerCoversRun, ResultsAreTrue, Running
<1> QED
  BY <1>1, <1>2, <1>3, <1>4, <1>5, <1>6, <1>7, <1>8, <1>9 DEF IInv

\* Recovery lists the containers.
LEMMA ListKeeps == ASSUME IInv, List PROVE IInv'
<1> USE DEF List, Visible,
       service, call, journal, daemon, budget, Registered, InContext, InCleanup
<1>1. TypeOK'
  BY ContainerAssumption DEF IInv, TypeOK
<1>2. PcShape'
  BY DEF IInv, TypeOK, PcShape
<1>3. LoopShape'
  BY DEF IInv, TypeOK, PcShape, LoopShape, InDocker
<1>4. CliShape'
  BY ContainerAssumption DEF IInv, TypeOK, PcShape, LoopShape, CliShape,
       BlockedShape, RunningShape, MarkerShape, InDocker, Running
<1>5. BlockedShape'
  BY DEF IInv, PcShape, BlockedShape, InDocker
<1>6. RunningShape'
  BY DEF IInv, TypeOK, PcShape, LoopShape, CliShape, BlockedShape, RunningShape,
       InDocker, Running
<1>7. MarkerShape'
  BY ContainerAssumption DEF IInv, TypeOK, PcShape, LoopShape, MarkerShape
<1>8. ReportShape'
  BY DEF IInv, TypeOK, PcShape, LoopShape, BoxShape, ReportShape
<1>9. BoxShape' /\ OneAtATime' /\ MarkerCoversRun' /\ ResultsAreTrue'
  BY DEF IInv, BoxShape, OneAtATime, MarkerCoversRun, ResultsAreTrue, Running
<1> QED
  BY <1>1, <1>2, <1>3, <1>4, <1>5, <1>6, <1>7, <1>8, <1>9 DEF IInv

\* Recovery takes the next container.
LEMMA NextOrphanKeeps == ASSUME IInv, NextOrphan PROVE IInv'
<1> USE DEF NextOrphan,
       service, call, journal, daemon, budget, Registered, InContext, InCleanup
<1>1. TypeOK'
  BY ContainerAssumption DEF IInv, TypeOK
<1>2. PcShape'
  BY DEF IInv, TypeOK, PcShape
<1>3. LoopShape'
  BY DEF IInv, TypeOK, PcShape, LoopShape, InDocker
<1>4. CliShape'
  BY ContainerAssumption DEF IInv, TypeOK, PcShape, LoopShape, CliShape,
       BlockedShape, RunningShape, MarkerShape, InDocker, Running
<1>5. BlockedShape'
  BY DEF IInv, PcShape, BlockedShape, InDocker
<1>6. RunningShape'
  BY DEF IInv, TypeOK, PcShape, LoopShape, CliShape, BlockedShape, RunningShape,
       InDocker, Running
<1>7. MarkerShape'
  BY ContainerAssumption DEF IInv, TypeOK, PcShape, LoopShape, MarkerShape
<1>8. ReportShape'
  BY DEF IInv, TypeOK, PcShape, LoopShape, BoxShape, ReportShape
<1>9. BoxShape' /\ OneAtATime' /\ MarkerCoversRun' /\ ResultsAreTrue'
  BY DEF IInv, BoxShape, OneAtATime, MarkerCoversRun, ResultsAreTrue, Running
<1> QED
  BY <1>1, <1>2, <1>3, <1>4, <1>5, <1>6, <1>7, <1>8, <1>9 DEF IInv

\* Recovery is through and journals the open run.
LEMMA RecoverKeeps == ASSUME IInv, Recover PROVE IInv'
<1> USE DEF Recover, Finished, Ends,
       service, call, journal, daemon, budget, Registered, InContext, InCleanup
<1>1. TypeOK'
  BY ContainerAssumption DEF IInv, TypeOK
<1>2. PcShape'
  BY DEF IInv, TypeOK, PcShape
<1>3. LoopShape'
  BY DEF IInv, TypeOK, PcShape, LoopShape, InDocker
<1>4. CliShape'
  BY ContainerAssumption DEF IInv, TypeOK, PcShape, LoopShape, CliShape,
       BlockedShape, RunningShape, MarkerShape, InDocker, Running
<1>5. BlockedShape'
  BY DEF IInv, PcShape, BlockedShape, InDocker
<1>6. RunningShape'
  BY DEF IInv, TypeOK, PcShape, LoopShape, CliShape, BlockedShape, RunningShape,
       InDocker, Running
<1>7. MarkerShape'
  BY ContainerAssumption DEF IInv, TypeOK, PcShape, LoopShape, MarkerShape
<1>8. ReportShape'
  BY DEF IInv, TypeOK, PcShape, LoopShape, BoxShape, ReportShape
<1>9. MarkerCoversRun'
  BY ContainerAssumption DEF IInv, TypeOK, PcShape, LoopShape, CliShape,
       BlockedShape, RunningShape, MarkerShape, MarkerCoversRun, InDocker, Running
<1>10. ResultsAreTrue'
  BY ContainerAssumption DEF IInv, TypeOK, PcShape, BoxShape, ReportShape,
       ResultsAreTrue, Finished
<1>11. BoxShape' /\ OneAtATime'
  BY DEF IInv, BoxShape, OneAtATime, Running
<1> QED
  BY <1>1, <1>2, <1>3, <1>4, <1>5, <1>6, <1>7, <1>8, <1>9, <1>10, <1>11 DEF IInv

\* The wall time is over.
LEMMA WallKeeps == ASSUME IInv, Wall PROVE IInv'
<1> USE DEF Wall,
       service, call, journal, daemon, budget, Registered, InContext, InCleanup
<1>1. TypeOK'
  BY ContainerAssumption DEF IInv, TypeOK
<1>2. LoopShape'
  BY DEF IInv, TypeOK, PcShape, LoopShape, InDocker
<1>3. PcShape' /\ BoxShape' /\ CliShape' /\ BlockedShape' /\ RunningShape' /\
     MarkerShape' /\ ReportShape' /\ OneAtATime' /\ MarkerCoversRun' /\ ResultsAreTrue'
  BY DEF IInv, PcShape, BoxShape, CliShape, BlockedShape, RunningShape,
       MarkerShape, ReportShape, OneAtATime, MarkerCoversRun, ResultsAreTrue, Running,
       InDocker
<1> QED
  BY <1>1, <1>2, <1>3 DEF IInv

\* A heartbeat cancels the run.
LEMMA CancelKeeps == ASSUME IInv, Cancel PROVE IInv'
<1> USE DEF Cancel,
       service, call, journal, daemon, budget, Registered, InContext, InCleanup
<1>1. TypeOK'
  BY ContainerAssumption DEF IInv, TypeOK
<1>2. LoopShape'
  BY DEF IInv, TypeOK, PcShape, LoopShape, InDocker
<1>3. PcShape' /\ BoxShape' /\ CliShape' /\ BlockedShape' /\ RunningShape' /\
     MarkerShape' /\ ReportShape' /\ OneAtATime' /\ MarkerCoversRun' /\ ResultsAreTrue'
  BY DEF IInv, PcShape, BoxShape, CliShape, BlockedShape, RunningShape,
       MarkerShape, ReportShape, OneAtATime, MarkerCoversRun, ResultsAreTrue, Running,
       InDocker
<1> QED
  BY <1>1, <1>2, <1>3 DEF IInv

\* The service is told to stop.
LEMMA StopKeeps == ASSUME IInv, Stop PROVE IInv'
<1> USE DEF Stop, CancelLoop,
       service, call, journal, daemon, budget, Registered, InContext, InCleanup
<1>1. TypeOK'
  BY ContainerAssumption DEF IInv, TypeOK
<1>2. LoopShape'
  BY DEF IInv, TypeOK, PcShape, LoopShape, InDocker
<1>3. PcShape' /\ BoxShape' /\ CliShape' /\ BlockedShape' /\ RunningShape' /\
     MarkerShape' /\ ReportShape' /\ OneAtATime' /\ MarkerCoversRun' /\ ResultsAreTrue'
  BY DEF IInv, PcShape, BoxShape, CliShape, BlockedShape, RunningShape,
       MarkerShape, ReportShape, OneAtATime, MarkerCoversRun, ResultsAreTrue, Running,
       InDocker
<1> QED
  BY <1>1, <1>2, <1>3 DEF IInv

\* The device is revoked.
LEMMA RevokeKeeps == ASSUME IInv, Revoke PROVE IInv'
<1> USE DEF Revoke, CancelLoop,
       service, call, journal, daemon, budget, Registered, InContext, InCleanup
<1>1. TypeOK'
  BY ContainerAssumption DEF IInv, TypeOK
<1>2. LoopShape'
  BY DEF IInv, TypeOK, PcShape, LoopShape, InDocker
<1>3. PcShape' /\ BoxShape' /\ CliShape' /\ BlockedShape' /\ RunningShape' /\
     MarkerShape' /\ ReportShape' /\ OneAtATime' /\ MarkerCoversRun' /\ ResultsAreTrue'
  BY DEF IInv, PcShape, BoxShape, CliShape, BlockedShape, RunningShape,
       MarkerShape, ReportShape, OneAtATime, MarkerCoversRun, ResultsAreTrue, Running,
       InDocker
<1> QED
  BY <1>1, <1>2, <1>3 DEF IInv

\* The runner dies.
LEMMA CrashKeeps == ASSUME IInv, NEW power \in BOOLEAN, Crash(power) PROVE IInv'
<1> USE DEF Crash,
       service, call, journal, daemon, budget, Registered, InContext, InCleanup
<1>1. TypeOK'
  <2>1. up' \in {"up", "boot", "down", "stopped", "gone"} /\ loop' \in {"open", "stop", "revoke"}
    BY DEF IInv, TypeOK
  <2>2. waits' \in BOOLEAN /\ dead' \in BOOLEAN /\ names' \in BOOLEAN /\ blocked' \in BOOLEAN /\ flaky' \in BOOLEAN
    BY DEF IInv, TypeOK
  <2>3. pc' \in {"idle", "claimed", "report", "list", "next"} \cup Registered /\ job' \in Runs \cup {None}
    BY DEF IInv, TypeOK
  <2>4. ctx' \in {"open", "wall", "cancelled"}
         /\ err' \in ProcessErrors \cup {"context", "refused", "unmarked"}
    BY DEF IInv, TypeOK, ProcessErrors
  <2>5. orphans' \subseteq Runs /\ marker' \in Runs \cup {None} /\ cli' \in Runs \cup {None}
    <3>1. cli' = None \/ cli' = cli
      BY Zenon
    <3> QED BY <3>1 DEF IInv, TypeOK
  <2>6. result' \in [Runs -> [end : Ends, names : BOOLEAN] \cup {None}]
    BY DEF IInv, TypeOK
  <2>7. box' \in [Runs -> {"none", "creating", "created", "running", "exited", "removing"}]
    BY DEF IInv, TypeOK
  <2>8. hist' \in [Runs -> {"never", "ran", "ended"}]
    BY DEF IInv, TypeOK
  <2>9. outages' \in 0 .. MaxOutages /\ crashes' \in 0 .. MaxCrashes
    BY ContainerAssumption DEF IInv, TypeOK
  <2> QED BY <2>1, <2>2, <2>3, <2>4, <2>5, <2>6, <2>7, <2>8, <2>9 DEF TypeOK
<1>2. PcShape'
  BY DEF IInv, TypeOK, PcShape
<1>3. LoopShape'
  BY DEF IInv, TypeOK, PcShape, LoopShape, InDocker
<1>4. BoxShape'
  BY DEF IInv, TypeOK, BoxShape
<1>5. CliShape'
  BY ContainerAssumption DEF IInv, TypeOK, PcShape, LoopShape, CliShape,
       BlockedShape, RunningShape, MarkerShape, InDocker, Running
<1>6. BlockedShape'
  BY DEF IInv, PcShape, BlockedShape, InDocker
<1>7. RunningShape'
  BY DEF IInv, TypeOK, PcShape, LoopShape, CliShape, BlockedShape, RunningShape,
       InDocker, Running
<1>8. MarkerShape'
  BY ContainerAssumption DEF IInv, TypeOK, PcShape, LoopShape, MarkerShape
<1>9. ReportShape'
  BY DEF IInv, TypeOK, PcShape, LoopShape, BoxShape, ReportShape
<1>10. OneAtATime'
  BY ContainerAssumption DEF IInv, TypeOK, CliShape, OneAtATime, Running
<1>11. MarkerCoversRun'
  BY ContainerAssumption DEF IInv, TypeOK, PcShape, LoopShape, CliShape,
       BlockedShape, RunningShape, MarkerShape, MarkerCoversRun, InDocker, Running
<1>12. ResultsAreTrue'
  BY DEF IInv, ResultsAreTrue
<1> QED
  BY <1>1, <1>2, <1>3, <1>4, <1>5, <1>6, <1>7, <1>8, <1>9, <1>10, <1>11, <1>12 DEF
       IInv

\* The service starts again.
LEMMA BootKeeps == ASSUME IInv, Boot PROVE IInv'
<1> USE DEF Boot,
       service, call, journal, daemon, budget, Registered, InContext, InCleanup
<1>1. TypeOK'
  BY ContainerAssumption DEF IInv, TypeOK
<1>2. PcShape'
  BY DEF IInv, TypeOK, PcShape
<1>3. LoopShape'
  BY DEF IInv, TypeOK, PcShape, LoopShape, InDocker
<1>4. CliShape'
  BY ContainerAssumption DEF IInv, TypeOK, PcShape, LoopShape, CliShape,
       BlockedShape, RunningShape, MarkerShape, InDocker, Running
<1>5. BlockedShape'
  BY DEF IInv, PcShape, BlockedShape, InDocker
<1>6. RunningShape'
  BY DEF IInv, TypeOK, PcShape, LoopShape, CliShape, BlockedShape, RunningShape,
       InDocker, Running
<1>7. MarkerShape'
  BY ContainerAssumption DEF IInv, TypeOK, PcShape, LoopShape, MarkerShape
<1>8. ReportShape'
  BY DEF IInv, TypeOK, PcShape, LoopShape, BoxShape, ReportShape
<1>9. MarkerCoversRun'
  BY ContainerAssumption DEF IInv, TypeOK, PcShape, LoopShape, CliShape,
       BlockedShape, RunningShape, MarkerShape, MarkerCoversRun, InDocker, Running
<1>10. BoxShape' /\ OneAtATime' /\ ResultsAreTrue'
  BY DEF IInv, BoxShape, OneAtATime, ResultsAreTrue, Running
<1> QED
  BY <1>1, <1>2, <1>3, <1>4, <1>5, <1>6, <1>7, <1>8, <1>9, <1>10 DEF IInv

\* Every step of the service, the runner and the daemon preserves the invariant.
LEMMA NextKeeps == IInv /\ [ContainerNext]_containerVars => IInv'
<1> SUFFICES ASSUME IInv, [ContainerNext]_containerVars PROVE IInv'
  OBVIOUS
<1>1. ASSUME Daemon PROVE IInv'
  <2>1. DaemonFrame
    BY <1>1 DEF Daemon, DaemonFrame
  <2>2. ASSUME Create PROVE IInv'
    BY <2>1, <2>2, CreateKeeps
  <2>3. ASSUME NEW r \in Runs, Created(r) PROVE IInv'
    BY <2>1, <2>3, CreatedKeeps
  <2>4. ASSUME Begin PROVE IInv'
    BY <2>1, <2>4, BeginKeeps
  <2>5. ASSUME NEW r \in Runs, Exit(r) PROVE IInv'
    BY <2>1, <2>5, ExitKeeps
  <2>6. ASSUME NEW r \in Runs, AutoRemove(r) PROVE IInv'
    BY <2>1, <2>6, AutoRemoveKeeps
  <2> QED BY <1>1, <2>2, <2>3, <2>4, <2>5, <2>6 DEF Daemon
<1>2. ASSUME Outage PROVE IInv'
  BY <1>2, OutageKeeps
<1>3. ASSUME NEW r \in Runs, Claim(r) PROVE IInv'
  BY <1>3, ClaimKeeps
<1>4. ASSUME Decline PROVE IInv'
  BY <1>4, DeclineKeeps
<1>5. ASSUME Enter PROVE IInv'
  BY <1>5, EnterKeeps
<1>6. ASSUME CheckBlocked PROVE IInv'
  BY <1>6, CheckBlockedKeeps
<1>7. ASSUME Prepare PROVE IInv'
  BY <1>7, PrepareKeeps
<1>8. ASSUME RunReturns PROVE IInv'
  BY <1>8, RunReturnsKeeps
<1>9. ASSUME Inspect PROVE IInv'
  BY <1>9, InspectKeeps
<1>10. ASSUME KillReturns PROVE IInv'
  BY <1>10, KillReturnsKeeps
<1>11. ASSUME RmReturns PROVE IInv'
  BY <1>11, RmReturnsKeeps
<1>12. ASSUME PsReturns PROVE IInv'
  BY <1>12, PsReturnsKeeps
<1>13. ASSUME Settle PROVE IInv'
  BY <1>13, SettleKeeps
<1>14. ASSUME Report PROVE IInv'
  BY <1>14, ReportKeeps
<1>15. ASSUME RevokeDeletes PROVE IInv'
  BY <1>15, RevokeDeletesKeeps
<1>16. ASSUME Leave PROVE IInv'
  BY <1>16, LeaveKeeps
<1>17. ASSUME List PROVE IInv'
  BY <1>17, ListKeeps
<1>18. ASSUME NextOrphan PROVE IInv'
  BY <1>18, NextOrphanKeeps
<1>19. ASSUME Recover PROVE IInv'
  BY <1>19, RecoverKeeps
<1>20. ASSUME Wall PROVE IInv'
  BY <1>20, WallKeeps
<1>21. ASSUME Cancel PROVE IInv'
  BY <1>21, CancelKeeps
<1>22. ASSUME Stop PROVE IInv'
  BY <1>22, StopKeeps
<1>23. ASSUME Revoke PROVE IInv'
  BY <1>23, RevokeKeeps
<1>24. ASSUME NEW power \in BOOLEAN, Crash(power) PROVE IInv'
  BY <1>24, CrashKeeps
<1>25. ASSUME Boot PROVE IInv'
  BY <1>25, BootKeeps
<1>26. ASSUME UNCHANGED containerVars PROVE IInv'
  BY <1>26 DEF containerVars, service, call, journal, daemon, budget, IInv, TypeOK,
       PcShape, LoopShape, BoxShape, CliShape, BlockedShape, RunningShape, MarkerShape,
       ReportShape, OneAtATime, MarkerCoversRun, ResultsAreTrue, Running, InDocker,
       Registered, InContext, InCleanup
<1> QED
  BY <1>1, <1>2, <1>3, <1>4, <1>5, <1>6, <1>7, <1>8, <1>9, <1>10, <1>11, <1>12,
       <1>13, <1>14, <1>15, <1>16, <1>17, <1>18, <1>19, <1>20, <1>21, <1>22, <1>23,
       <1>24, <1>25, <1>26 DEF ContainerNext, Work, Service

-----------------------------------------------------------------------------
(* Theorems *)

\* Invariance of the strengthened invariant, for any number of runs.
THEOREM Inductive == ContainerSafety => []IInv
<1>1. ContainerInit => IInv
  BY InitHolds
<1>2. IInv /\ [ContainerNext]_containerVars => IInv'
  BY NextKeeps
<1> QED BY <1>1, <1>2, PTL DEF ContainerSafety

\* Type correctness of the service, the docker calls and the journal.
THEOREM TypeCorrect == ContainerSafety => []TypeOK
<1>1. IInv => TypeOK
  BY DEF IInv
<1> QED BY <1>1, Inductive, PTL

\* While the service works, and after it was stopped or revoked, a job runs only
\* as the run in hand, or a cleanup failed and no run starts any more.
THEOREM NothingIsLeft == ContainerSafety => []NothingLeftRunning
<1>1. IInv => NothingLeftRunning
  BY DEF IInv, RunningShape, NothingLeftRunning, InHand, InDocker
<1> QED BY <1>1, Inductive, PTL

\* Two jobs never run at once, over failed cleanups, crashes and restarts.
THEOREM NoTwoJobs == ContainerSafety => []OneAtATime
<1>1. IInv => OneAtATime
  BY DEF IInv
<1> QED BY <1>1, Inductive, PTL

\* A job that runs without a result is the journal's open run: no crash makes
\* the journal forget a job that runs.
THEOREM MarkerCovers == ContainerSafety => []MarkerCoversRun
<1>1. IInv => MarkerCoversRun
  BY DEF IInv
<1> QED BY <1>1, Inductive, PTL

\* Results claim no more than the runner knows.
THEOREM TrueResults == ContainerSafety => []ResultsAreTrue
<1>1. IInv => ResultsAreTrue
  BY DEF IInv
<1> QED BY <1>1, Inductive, PTL

\* After the state is deleted no job runs, unless its cleanup failed.
THEOREM RevokedQuiet == ContainerSafety => []RevokedIsQuiet
<1>1. IInv => RevokedIsQuiet
  <2> SUFFICES ASSUME IInv, dead, NEW r \in Runs, Running(r) PROVE blocked
    BY DEF RevokedIsQuiet
  <2>1. up \in {"up", "gone"}
    BY DEF IInv, LoopShape
  <2>2. pc \notin InDocker
    BY DEF IInv, LoopShape, PcShape, InDocker, Registered, InContext, InCleanup
  <2> QED BY <2>1, <2>2 DEF IInv, RunningShape
<1> QED BY <1>1, Inductive, PTL

\* Both: what runs in the daemon is in hand, or the executor refuses further runs.
THEOREM InHandAlways == ContainerSafety => []JobsInHand
BY NothingIsLeft, RevokedQuiet, PTL DEF JobsInHand
=============================================================================
