# JanuaPort plugins: models, checks and proofs

This directory holds TLA+ models of the programs in this repository, the TLC
configurations that check them on small instances, and machine-checked proofs
(TLAPS) of the properties that matter most.  Every definition was written from
the source; `PROJECT.json` ("map") names the lines each one stands for.

## 1. The system

The repository holds the plugins that run beside a JanuaPort "box" (the core,
not part of this repository): programs that fetch signed work from the core, run
it under restrictions, and hand results back.

### Inventory

| Component | Source | State it keeps | Operations | What is hard |
|---|---|---|---|---|
| Device runner: journal and delivery | `desktop-runner/internal/client/state.go` | sealed journal file (results, loss counter, marker, slot watermarks), its copy in memory, reject counter | `ReserveRun`, `Mark`, `Append`, `DeliverOne`, `Recover`, `Revoke`, `ObserveTime` | power loss between any two writes, a save that fails after the rename, an answer for an entry that was evicted meanwhile, a box that refuses one result for ever |
| Device runner: execution | `engine.go`, `halt.go`, `pipe.go` | admission lock, run lock, halt state and version, active process, panel reservation, online flag, bundle | serial loop, claim, scheduled and ad-hoc runs, setup from the panel, halt/pause/resume, heartbeat cancellation, revocation | four goroutines and the HTTP answers that cross each other |
| Device runner: sync, environments, apps, offline clock | `engine.go` (`Sync`), `manifest.go`, `environment.go`, `appstore.go`, `state.go` | manifest with its sequence, environments and apps with their seals, watermark of the clock | `Sync`, `Prepare`, `Open`, `OfflineAllowed` | files that are replaced one by one, a clock set back, an older manifest, a revocation meanwhile |
| Device runner: containers | `container.go`, `container_engine.go` | the container of the run, `blocked` | `Run`, `cleanup`, `Recover` | a container that cannot be removed, a lost CLI call |
| Device runner: questions, helpers | `questions.go`, `pipe/questions.go`, `panel/model.go` | open question, its channel, the panel's event queue, the dialog | ask, answer, time out, withdraw | an answer racing the deadline, the halt, the end of the run and the next run's question of the same number |
| Device runner: panel connection | `pipe/`, `panelio/`, `fensterio/exchange.go`, `lokal.go` | one connection, commands and frames on it, the one who waits for the next frame | status, halt of a page, reconnect | the answer to a command is simply the next frame, and the runner sends its state by itself |
| Device runner: windows of apps, login of a person | `fenster/bruecke.go`, `fensterio/host.go`, `gateway.go`, `login*.go`, `webview_windows.go`, `anmeldung/` | session and its generation, messages of the page, reply queue, login under way, change of person, document and profile | messages, token, RPC, login, sign-out, change of person, its timer, start and end of a window | replies, tokens, timers and browsers that come back after the person has changed |
| Device runner: apps in the panel | `fensterio/runtime.go`, `cmd/bedienfeld/apps_windows.go` | the runner's manifest, the list of the menu, apps being opened, windows | watch, open, drain, update, close | two channels, and a window that starts while the UI thread takes other messages |
| Device runner: WebView2 binding | `edge/`, `wv2com/` | none | COM calls | vendored and generated |
| Script runner: sandbox | `mediator/sandbox.go`, `mediator/run.go`, `guard/` | connections, idle place, current run | hello, acquire, serve, tool calls, kill | late frames, an instance that dies while it waits, two containers at once |
| Script runner: pins, fetcher, store | `mediator/pins.go`, `fetcher/`, `store/` | wanted and approved marks, `repo_url`, verdict cache | poll, fetch, judge, list, hand out | two loops that share files only |
| Script runner: storage pins, courier | `storagepins/`, `fetcher/storage.go`, `mediator/storage*.go` | signed list, `state.json`, inbox | fetch, verify, publish, approve | a replayed list after a lost state, a limit counted while files go |
| Script runner: libraries | `libs/` | one directory per lock, jobs, leases | Ensure, prepare, borrow, Prune, Reset | two pins with one lock, removal of what is in use, archives that disagree |
| Script runner: ticker, schedules | `ticker/`, `schedules/` | cursor, misses, pause and last answer per schedule | due, skip, record | late polls, clock changes, pauses, late answers |
| Agent runner | `agent-runner/internal/runner` | conversation, budgets | model/tool loop | budgets, cancellation, partial answers |
| linkedin-seite | `linkedin-seite/` (Python) | write job, daily counters, token, worker pool | read, post, renew | a write that may have happened, a refresh token that is valid once |
| google-reporting, bing-webmaster | `*/` (Python) | token, pool | REST calls | the same pool as above, reading only |
| ebics-abholer | `ebics-abholer/` (PHP, sh) | statements, key file and its backups | fetch, store, receipt; init, hpb | death between file and receipt, two fetches |
| kartei-rpa | `kartei-rpa/` (PowerShell) | status of each record in the core | lock, book, write the number | death between booking and number, people in the same list |
| box scripts, tunnel | `box/`, `tunnel/` | none | provisioning, docs | not a state machine |

How they interact: the device runner polls the core over HTTPS (configuration,
manifest, claim, start, result, heartbeat, halt); its control panel talks to it
over a local pipe; each run is a child process (Python in a job object, or a
container) whose tool calls and questions the runner relays.  The script runner is
the same idea inside the box: a mediator accepts runs, takes code from a store
that a fetcher fills over shared files, borrows libraries, and runs the code in
a sandbox; its ticker starts runs through the gateway.  The sidecars are reached by
the core's gateway; ebics-abholer and kartei-rpa are started from outside.

The components, with what is and is not modelled of each, and the hazards, each
at its line with the properties that watch it, are in `PROJECT.json`.

### What makes each component correct

* Journal and delivery: every run that the box handed out is reported, once in
  the box's books; a process never runs without its marker on disk; a slot is
  never started twice; what is dropped is counted; after a revocation no file.
* Engine, halt, panel: one script at a time; none while stopped; no permission
  that was crossed is used; what is cancelled had a cause; revocation ends all.
* Halt state: a confirmed halt survives restarts and bad disks; the box learns.
* Sync: nothing older or erased comes back, no run beyond its grace, and a
  device that reaches the core catches up.
* Questions: an answer reaches the question it was given to; no dialog stays.
* Windows: a page, its profile and its replies hold the data of its person only; what it is
  told of a halt is true; one window per app, none older than the menu, none for a withdrawn app.
* Containers: nothing runs that nobody watches; results say no more than is known.
* Sandbox: one script in the one place; a request is answered from its own
  script only; every script ends; a healthy instance is used.
* Pins, storage pins: code runs only if it was proved to be on the default branch of the
  very repository, or is of the newest signed list ever seen.
* Libraries: what a run borrows stays as it is; a directory holds exactly what
  its lock says; nobody waits for ever.
* Ticker: no slot is fired twice and none is forgotten; a pause stands; the last answer counts
  as long as nobody sets the clock.
* Agent: it never claims a success that was none; every tool call has its result.
* Sidecars: "not executed" is true; the one valid refresh token is not lost; a
  statement that was receipted is there; nothing is booked twice.

## 2. Modules

| Module | Models | State | Actions |
|---|---|---|---|
| `Journal` | `state.go`: the journal as data | none | pure functions, one per call of `State` that changes the journal (`Appended`, `Marked`, `Reserved`, `Stored`, `HeadRemoved`, ...) |
| `Outbox` | `state.go`, the parts of `engine.go` and `pipe.go` that write the journal | `mem`, `disk`: the journal in memory and in the file; `worker`: the loop and the setup goroutine; `sender`, the request under way; the box's books | reserve, claim, setup, mark, spawn, end, report, send, answers (stored, 400, other, none), revocation, crash, power loss inside a save, start, recovery |
| `Halt` | `halt.go` with its two files | `halt`, `fault`, `version`, `pending`, `stored`, the report under way, ages by two clocks | command, expiry of a pause, report and its answers, clock set back, death, damage, load |
| `RunGate` | abstract specification | the run whose script lives, a set of crossed permissions | what a runner may do: start, stop, strike permissions |
| `Admission` | `engine.go`, `halt.go`, `pipe.go`: who may start a script | locks, halt, versions, panel reservation, one program counter per goroutine, its local variables | one action per stretch between two critical sections of `Engine.mu` |
| `Sync` | `Engine.Sync`, `environment.go`, `appstore.go`, `OfflineAllowed`, `ObserveTime` | the files (manifest, clock, environments, apps, seals), the bundle in memory, where the loop is, two clocks | one action per request and per write of a sync, start online and offline, death, failing write, changed files, revocation |
| `Questions` | bootstrap, `questions.go`, `pipe/questions.go`, `panel/model.go` | script, goroutine that asks, relay (pending, channel, events), frames of the pipe, dialog | ask, deliver, answer, deadline, halt, end and next run, attach, detach, expiry of the dialog |
| `Window` | `fenster/bruecke.go`, `fensterio/host.go`, `gateway.go`, `login.go`, `login_surface_windows.go`, `login_windows.go`, `loopback_windows.go`, `webview_windows.go`, `client/apptoken.go`, `applogin.go` | gateway (session, generation, mode), host (state, epoch, queue), the goroutine of each message, login, change of person, document, timer, what page and profile hold | one action per handler of the UI thread and per stretch of a message between two calls |
| `Exchange` | `fensterio/exchange.go`, `lokal.go`, `panelio/link.go`, `HandlePanel` | runner's state, commands and frames on the pipe, the waiter, the call of the page | ask, read, give up, deliver, other askers, clicks, answers, the cyclic state, broken connection |
| `AppWindows` | `fensterio/runtime.go`, `apps_windows.go`, `main_windows.go` | manifest of the runner, `Watch`, channel, list of the menu, openings, windows | manifests, watch, click, read, drain a list or an opened app, end of the start, close |
| `Container` | `container.go`, `container_engine.go`, `server_linux.go`, the unit file | service, program counter of `Run`/`cleanup`/`Recover`, `blocked`, journal marker, docker's daemon and CLI | one action per docker call and return, wall time, cancellation, stop, revocation, crash, boot |
| `Sandbox` | `mediator/sandbox.go`, `mediator/run.go`, `guard/` | guards, connections with both directions, `current`, `idle`, accept backlog, requests | one action per handler of guard, `serve` and `run` |
| `Pins` | `mediator/pins.go`, `desktop.go`, `fetcher/fetcher.go`, `store/` | pin files, wanted, `repo_url`, marks, store, the two caches and the list | each reading and writing of a file by the poll loop, the fetcher and `/desktop/package` is a step |
| `StoragePins` | `storagepins/`, `fetcher/storage.go`, `store/storage.go`, `mediator/storage.go` | journal in memory, `state.json`, the pass, a reading sink | read list, read packages, publish, fail, key set or gone, death, lost file, read, check again, hand over |
| `Courier` | `mediator/storage_fetch.go`, `storage.go` | inbox, the round with its budget, cooling files | list, count, fetch, cool down, remove |
| `Libs` | `libs/manager.go`, `mediator/libs.go` | directory per lock, `dirs`, jobs, the one place to build, leases, Reset | Ensure, each step of a job, borrow, give back, Prune, Reset, failures |
| `Wheels` | `libs/lock.go`, `wheel.go`, `plan.go`, `extract.go` | one directory under way: lock, plan, headers, tree, manifest, sums | an algorithm, one step per line, header and file |
| `Ticker` | `ticker/`, `schedules/`, `mediator/schedules.go` | wall clock, line of the file, record of the schedule, open calls with the time they have left | poll, answer, file and pin change, a clock that is set or stands still |
| `Agent` | `agent-runner/internal/runner`, `anthropic/`, `openai/` | locals of `run`, conversation, context | connect, list, model turn, tool, wall time, cancel |
| `PostPool` | `linkedin_seite/post_pool.py`, `post_adapter.py`, `redaktion.py`, `gateway.py`, `server.py` | entry, the one job, what is done, counters, LinkedIn | load, hash, begin, permit, write, send, confirm, deadline, death, restart, next day |
| `Workers` | `linkedin_seite/workers.py`, `oauth.py`, `linkedin_adapter.py` | requests, slots, threads that renew, token, LinkedIn's grant | queue, ask, permit, renew under the lock, cancel, death, close |
| `Ebics` | `fetch.php`, `logik.php`, `init.php`, `hpb.php` | directory, hidden parts, two fetches, bank, key file, backups | order, place, write, rename, undo, receipt, kill; `init.php` first and again, `hpb.php` |
| `Kartei` | `JanuaPort.Kartei.psm1`, `Invoke-Lauf.ps1` | records, specialist program, the run of each robot | list, lock (get, put), clicks, result (get, put), error, people |

`MCOutbox`, `MCContainer`, `MCSandbox`, `MCSync`, `MCPins` and `MCEbics` instantiate one module
each.  `MCAdmission` holds `Admission` and the panel's `Window`, `Exchange` and `AppWindows`,
`MCDevice` `Halt`, `Sync` and `Questions`, `MCRecords` `Outbox`, `Ticker`, `StoragePins` and
`Kartei`, and `MCServices` the other services of the box and the sidecars.  The modules in these
four share no variable, and a behaviour is one of a *scene* that is chosen at the start: the
others rest, so the run is the sum of its scenes and not their product.  Operators whose comment
begins with "Deviation" are altered forms of the code, used
only to show that a property can fail.

How they compose: `Journal` is shared by `Outbox` and its proofs.  `Outbox` and
`Admission` look at the same goroutines from two sides: `Outbox` keeps what is
written and sent and abstracts who may start; `Admission` keeps locks and
permissions and abstracts the files.  `Halt` keeps the files of the halt state,
which `Admission` reduces to a save that may fail.  `Container` replaces the process of `Outbox`
by a container on the Linux service.  `Admission` implements `RunGate` (refinement
below).  `Pins`, `StoragePins` and `Libs` give `Sandbox` what it takes as an approval that may be
withdrawn and as libraries; `Wheels` is what one building step of `Libs` does.

### Correspondence and abstractions

* `Outbox`.  A result is its run and its end; its payload, the cipher and the
  encoding are a size (`Size`), so that "the journal is full" is a small number.  A save
  is atomic in the file (temporary file, sync, rename) but may report an error
  after the rename: `SaveFails` leaves either file.  The box is external: it stores a
  result the first time and confirms repetitions; results of `Doubtful` runs may get
  a 400.  Entries are compared by value as in the code.
* `Admission`.  Code between two critical sections of `Engine.mu` is one step;
  `TryLock` fails when somebody holds the lock.  A slot is its minute.  An answer
  over HTTP arrives at any later moment.  The status query of the panel is a
  short-lived owner of the locks (`session`).  A script whose wall time is up ends "timeout", or
  "cancelled" if its first frame was not written by then.
* `Sync`.  A manifest verifies or does not, a package is whole or has a defect (tried in
  the order of the code); zip, lock and signature are data.  The wall clock may be set back, the
  monotonic clock counts from the start of the process.  `aged` and `counted` are history.
* `Questions`.  The relay and the panel compare ids, which begin at 1 in every process: a
  question is its run and its id, and code that compares ids does so in the model.  The pipe
  keeps order and may be cut.  The event queue has its capacity; a question without room for
  itself and its removal is answered without a choice.  The next run may begin while the panel
  still shows, or the pipe still carries, what belongs to the last one: `stale` is history and
  remembers which questions those were when the script asked.
* `Window`.  A reply, the memory of a document and the data of a profile are reduced to the
  owner of the session they were got with.  `blocked` implies `personal`, so the two flags are
  one mode. Handlers of the UI thread follow one another; messages, the login's goroutine, the
  timer and WebView2 are concurrent.  The native buttons are disabled while a login or change is
  under way, as the window sets them.  `Login.Pump`'s part in `UpdateApps` is left out.
  `LostGrants` is about the core: may it grant a session of a person whose answer is lost, so
  that "the same person as last time" is about a login nobody saw.
* `Exchange`.  Frames are the states and the error; the pipe keeps order and may be cut.
* `AppWindows`.  A manifest is its sequence and its apps.  Quitting the panel is left out.
* `Container`.  A docker call starts, may be completed by the daemon after the
  CLI died, and may fail or time out while the daemon is `flaky`.  Writes of the
  journal succeed (their failures are `Outbox`'s subject), and systemd kills the CLI
  before it restarts the service.
* `Sandbox`.  A frame is hello, an ordinary frame (log, output, tool call), one above
  the limit, or the end with its kind; limits of a run are a choice at every
  frame.  The socket keeps order, loses what is written after the other end
  closed, and lets a job already written be read.  `ran` of a connection and
  `honest` are history.  Docker's restart with its delay is `Dial`.  The script may hang;
  if something outlives `kill(-1)`, the guard ends and the container with it.
* `Pins`.  A commit is on the default branch of a repository or not, and branches may
  move; a tree is valid or not; the name of a pin is its commit.  `proved` remembers what was
  checked when.
* `StoragePins`.  A list is its sequence, time of issue and pins; the courier may bring any list
  ever signed, or none.  `topSeq` is history: the newest list that `Publish` accepted.  A write
  may report an error before its rename or after it, and then the file is newer than the memory;
  that list counts as not accepted, as the fetcher says of it.
* `Courier`, `Libs`.  Sizes are small units; that the inbox refuses to remove or read a file is
  left out; a directory is absent, half, whole, or what a failed removal left of it (`"rest"`
  with its manifest, `"torn"` without).
* `Wheels`.  A path is a short sequence, "A" and "a" fold together, tags and hashes are a
  few values; entry points, RECORD and the zip format are data.
* `Ticker`.  One schedule, whose cron expression is the set of its slots, given by the clock; the
  unit of time is the deadline of a call.  `Apart` states what `spacedFiveMinutes` guarantees.
  The clock of the machine may be set anywhere, or stand still with a sleeping machine, while the
  deadlines of open calls go by a clock of their own.  One poll scans `MaxScan` slots; what lies
  beyond is left out of record and count, as in `advance`.  `gone`, `paused` and `strayed` are
  history.  `time.Now` carries a monotonic reading and `Before` compares it, so a cursor does go
  back with a clock that is set back.  The same reading makes `Next` in the last second of a
  minute depend on it; the set of slots abstracts that.
* `Agent`.  A tool result is a list of block kinds, a turn is a stop reason with calls; the
  two protocols differ in what they keep of a result and in when an argument is refused.
* `PostPool`, `Workers`.  LinkedIn may act on a request whose answer is lost.  A worker may die
  at any step, a thread never does.  Counters are small.
* `Ebics`.  A statement has one name, paths are numbered; the disk may fail and a run may be
  killed at every step.  The bank offers a statement until it gets a positive receipt.  Two
  fetches may overlap, and `init.php` may be run again beside `hpb.php`: it writes back the file
  it has loaded.  `crossed` is history: two fetches that chose one name, a key file written back
  over a newer one.  Deleting the key file, which the message of `init.php` advises after a
  refusal, begins a new installation and is not a step.
* `Kartei`.  Any number of robots, each with a run of its own, over one list: nothing but the
  status keeps them apart.  A get and the update after it are two calls that overwrite the whole
  record; a click sequence books or not, and shows the number or not.  `raced` is history: the
  records on which an update fell although their status was no longer the one that was read.

## 3. Runs

| Run | Instance | Question | Result |
|---|---|---|---|
| `records` | scenes `outbox` (a schedule with two slots and a setup, journal of 4 units or 2 results, one crash, one failing save, one outage, a refused result is given up), `ticker`, `storage pins`, `kartei` (two robots) | `RunsSound`: one start per run and one result per run, wherever copies of it are; `TickerKeeps`, `LatestAnswerCounts`; `NoReplay`; `BookedOnce` | holds, 1.74 million states |
| `outbox_live` | a job and a setup, a box that may answer 400 and may revoke, one crash, one outage | is what leaves the journal at the box or counted (`NothingLost`); is silence final after a revocation (`NothingAfterRevocation`); does every run reach the box (`EveryOpenRunReported`, `EveryStartedRunSettled`) | holds, 354 000 states |
| `admission_safety` | scenes `admission` (two runs, two halt transitions, a setup, a second manifest or a revocation, heartbeat, two minutes), `persons` and `messages` (two people, two messages, two clicks, one token), `exchange` (one more question, two frames), `apps` (two apps, two manifests) | `ImplementsGate`: one script, none when stopped, a stop ends it; `StartsAreFresh`: no slot caught up, no crossed permission; `PageKeepsPerson`; `HaltIsTrue`; `OneWindowUpToDate` | holds |
| `admission_live` | scenes `admission` with a panel that asks for the status, `persons` (one person), `apps` (one app) | a revocation ends all runs (`RevokedEndsRuns`), a setup returns its locks (`SetupGivesBack`), logins end (`LoginEnds`), windows of withdrawn apps are closed (`WithdrawnCloses`) | holds |
| `container` | two runs, one outage of the daemon, one crash | `JobsInHand`: what is left in the daemon; `ResultsAreTrue`: what results claim; `RunsAndJobsEnd` | holds, 615 000 states |
| `sandbox` | two containers, two requests, one upset (a container dies, an unfit instance, a mediator restart, a withdrawn approval) | `OneScript`, `RequestsAreOwn` (own end, no start after withdrawal), `ScriptsEnd` | holds |
| `sandbox_stuck` | one container, one request | `InstancesServe` | violated, see findings |
| `device` | scenes `halt` (three commands, two failing writes or damaged files, two restarts, a lost report, clock set back), `sync` (one environment, one app, one upset), `clock` (no apps, three hours, clock set back by one), `questions` (two runs, two questions each, two connections) | `HaltKeeps` and `BoxLearns`: does a halt last and reach the box; `OfflineWithinGrace`, `NothingComesBack`, `DeviceCatchesUp`; `QuestionSound`: whose answer does a script get | holds, 197 000 states |
| `sync_stuck` | the sync, and a runner that dies between an environment and its seal | `DeviceCatchesUp` | violated |
| `services` | one scene per module of the box's services and the sidecars (two for `Ebics`) | the ten properties below | holds, 300 000 states |
| `pins_pending` | one URL, two commits, one failing call | `WantedGetsListed` | violated |
| `ebics_overlap` | two statements, two fetches at once | `StatementsKept` | violated |

The properties of `services`: `OnlyProvedRuns` and `RejectedIsWithdrawn` (`Pins`),
`InboxKeepsLimit` (`Courier`), `BorrowedStays` and `LibsGoOn` (`Libs`), `SealedIsSound`
(`Wheels`), `AgentSound` (`Agent`), `NotExecutedIsTrue` (`PostPool`), `GrantKept` (`Workers`),
`EbicsKeeps` (`Ebics`).  In a run of scenes a property is about the
states of its own scene; in the others its variables rest in their initial state.

Some properties have several parts that are one promise; the parts have names and comments of
their own in their modules: `RunsSound` (`StartedAtMostOnce`, `ResultsSound`), `NothingLost`,
`JobsInHand` (`NothingLeftRunning`, `RevokedIsQuiet`), `RequestsAreOwn` (`OwnEnd`,
`NoWithdrawnStart`), `HaltKeeps` (`ConfirmedHaltLasts`, `NothingOwed`), `StartsAreFresh`
(`NoCatchUp`, `NothingCrossedStarts`), `PageKeepsPerson` (`PageIsOwn`, `NoSessionAfterClose`),
`RunsAndJobsEnd`, `TickerKeeps` (`EverySlotOnce`, `PauseLasts`), `AgentSound`, `EbicsKeeps`,
`QuestionSound`, `LibsGoOn`.

Some properties name the events the code does not keep out.  The events are in the model and
happen in the runs; the property says that nothing else breaks the promise: `TickerKeeps` (for
"counted exactly once": the cursor went back with the clock, or one poll met more slots than it
scans), `LatestAnswerCounts` (the clock was set since one of the two calls was made),
`BookedOnce` (an update fell on a status that somebody had changed), `EbicsKeeps` (two fetches
chose one name; an older key file was written back), `QuestionSound` (an earlier run's question
of the same number was still at the panel or on the pipe).  `raced` and `crossed` are set in the
very step that writes across the change, and `stale` when the script asks, not by the mere
presence of a second actor.

The bounds, and why they are enough:

* `Outbox`.  Two goroutines are all that write the journal; two runs are enough for one to
  meet the remains of the other.  `MaxTime = 2` lets a slot be repeated and be
  passed.  A journal of two results is full while one entry is being sent and two
  runs report, which is the case that evicts the entry under way.  The reject limit
  is 10 in the code and 2 in `outbox_live`, where one refusal is not enough and two are; in
  `records` the first refusal gives an entry up, as `RunsSound` does not depend on the count.
* `Halt`.  `Throttle = 2` ticks with a clock set back by one tells apart an age that is
  under, at and over the limit.  Two restarts let a state be stored wrongly and
  read twice.  Its safety properties are proved without bounds.
* `Admission`.  Two halt versions let halt and resume cross one request, two minutes let a slot be
  caught up.  A device gets a new manifest or is revoked in one behaviour, not both.  The safety
  properties are proved without bounds and for both.
* `Window`.  Two people tell "own" from "foreign", and every reachable profile and last person
  is an initial state.  One late message crosses any number of changes (`persons`, one message
  at a time, two clicks); two messages meet in the slots, the queue and the fetch of a token
  around one login or sign-out (`messages`).  A third person or message behaves as one of these.
  Proved without bounds.
* `Exchange`.  Two frames on the way: a stale one before the answer.  `AppWindows`.  Two apps,
  because the UI thread is busy with one while it takes the other's messages; two manifests; a
  channel of one, which is full at once; two failed reads empty the list where the code takes
  three.  Their safety is proved without bounds.
* `Container`.  One outage or crash may happen at every step; with two
  runs the second meets what the first left.  The safety properties are proved without bounds.
* `Sandbox`.  Two containers on two connections are the case "the next one while the former is not
  over"; a third connection only waits in the backlog.  One frame before the end is enough
  to be late, and `MaxUpsets = 1` places one upset at any step.
* `Sync`.  Two manifests (none, one) and an older one; grace of two hours inside three; one
  upset at any step; one environment and one app, since the loop takes them one after the other
  and remembers nothing between them but the seals on disk.  Hours pass in the scene without
  apps only.
* `Questions`.  Two runs whose ids coincide, two questions so that one can be late for the other, an
  event queue of three where the code has eight: full with one question, its removal and one more.
* `Pins`.  Two repositories, a commit that is a script's or a device script's; one event (moved
  branch, new wish, failing call, restart) at any point of either loop.
* `StoragePins`.  Sequences 1 and 2, lists signed again later, a time of seven with an age of
  two: enough for a list to expire, be replaced and come back.  Proved without bounds.
* `Courier`.  Three files up to size two in a total of three: one missing file sorted before an
  existing one.
* `Libs`.  Three plans of one lock, one of them with wrong wheels; one run, two faults.
  `BorrowedStays` is proved without bounds.
* `Wheels`.  Up to four lines, two entries per wheel, limits of two and three: every limit is met
  and passed, two wheels share a directory, names clash in case, as file and as directory.
* `Ticker`.  Two slots and a gap in six units, a window of two, two changes of file, pin or clock.
  One poll scans one slot (10000 in the code): a jump over both slots reaches the limit.
* `Agent`.  Two steps, one tool call of budget, two pages: the budget ends a step half-way.
* `PostPool`.  Two actions a day, five HTTP permits, one upset: a picture post (four requests) and a
  second action meet both counters.
* `Workers`.  Two requests, one slot, one place in the queue, three ages of the token: one waits
  while the other's thread renews.
* `Ebics`.  Two statements, two runs, two numbers per name, two keys of the bank, one upset.
* `Kartei`.  Two records, two amounts, two robots, two runs, one change by people.

Deadlock is off where the system may stop or an instance may be used up: after a revocation the
runner ends, bounded restarts and events end, the last run is over.  `sandbox` and
`pins_pending` check it.

### Fairness

* `Outbox` (run `outbox_live`): the goroutines and the sender go on, the box answers or the
  request times out, the runner is started again after a crash, and outages end.
  This is what the serial loop with its deadlines, `Restart=` in the service
  and the scheduled task give; the box may answer 400 as often as it likes.  Only
  `DeliverOne` is strongly fair: the loop tries it at every turn, but a turn that writes
  the journal disables it in between.
* `Halt`: the tick goes on, the runner is restarted, a report is answered or lost
  (bounded).
* `Admission`: the goroutines' steps and `Revoke`; no fairness for scripts: they need
  not end by themselves, nor does the user do anything.
* `Window`: a message that runs goes on, the exchange of a login has a deadline, the UI thread
  takes its messages, an armed timer fires; none for the user, the core and WebView2 (an empty
  document may never come: the timer ends that).
* `AppWindows`: `Watch` and the opening goroutines go on and a window that starts is there or
  fails.  Strongly fair are the two ways to drain, since a window under way keeps the UI thread
  from both in between.  `Exchange` is checked for safety only.
* `Container`: the service's steps, its wall time, the restart by systemd when it failed
  (`Restart=on-failure`), the end of outages; none for the job's own exit.
* `Sandbox`: the guard cleans up and the wall time fires; none for script and
  gateway.  `EagerSpec` adds the good will of everybody else (docker restarts, requests
  come again, the approval returns) and is used by `sandbox_stuck` only: even then the
  registered instance waits for ever.
* `Sync`: the loop's own steps, scripts end (they have a wall clock), a dead runner is started
  again. Strongly fair are `GetConfig`, `GoodManifest`, `GoodPackage`, `AppSeals` and
  `LoopPass`: the network and the core may fail any number of times but not for ever, and an
  hour of waiting does pass.  Without it a device that is never reachable need not catch up.
* `Libs`: each job goes on, runs end and give back (they have a wall time), Reset's wait ends
  when nobody holds a lease; taking the one place to build is strongly fair, because others take
  it in between.
* `Pins`: both loops go on.  The other modules are checked for safety only.

## 4. What is proved

Every safety invariant and every action property of a passing run is a theorem of its module's
specification, proved for every value of the constants from the assumptions named in the module
(bounds are natural numbers, `None` is not a run, ...).  The bounds of the instances in section
3 matter for the liveness properties only.  A hypothesis beyond these assumptions is an event
the code does not exclude by itself; each is written in the theorem, is a constant of the
module, and without it the property is false:

| Hypothesis | Theorem | Without it |
|---|---|---|
| `~FirstUse` (`Halt`) | `HaltIsKept` | the very first halt of a device cannot be written and is forgotten by a restart |
| `~LostGrants` (`Window`) | `PageIsKept` | the core grants a session whose answer is lost |

None of the properties is inductive by itself.  Module by module, what the invariant adds and why:

* `OutboxProofs`.  First the calls of `State` as lemmas (what a save that evicts keeps, that it
  fits).  `CoreInv`: one goroutine holds work at a time (`LoneInv`), the marker "started" is in
  memory and file from before the process to after it (`StartedInv`), the file's watermarks are
  never behind the memory's (`SlotInv`), and when credentials are gone.  `OnceInv` says of every
  run who holds it.  `ResultInv` says where copies of a result may be: a run that a goroutine
  holds has none (`HandsInv`), a marker stands for a run without one in every copy its own
  result could meet (`BooksInv`), and a marker has a goroutine unless a local operation failed
  (`MarkerInv`).  After a report whose save failed late the file has the result and the memory
  still the marker, so the two copies need different claims.  `NothingIsLost` adds that memory
  and file each lack at most what their own loss counter says (`CountInv`), that an answer under
  way is for the entry that was sent and the refusals counted are those of one result
  (`SentInv`), and that what is held fits, since a save has seen to it (`FullInv`).
* `AdmissionProofs`.  `IInv` states who owns which lock at which program counter (`LocksInv`),
  which run is the active one, that keys are not reused, which minutes are past, what a snapshot
  of a permission is worth, and that every cancellation and kill has its cause.  From it
  `FreshStarts`, and `Implements`, the refinement of `RunGate`: initial states map to initial
  states and every step to a step of the gate or a stutter. `WindowInv` is about who may have
  got which session: `SessionIsOwn` (the gateway's session is that of the document's person, or
  of the device while nobody has signed in), `MessagesAreOwn` (a message whose epoch is the
  host's and whose generation is the gateway's carries that session or none; an older one can no
  longer reply), `RepliesAreOwn` (what waits in the queue), `PersonKnown` (the core's last
  person is the one signed in or about to be, so "the same person" is the one shown; this is
  where `~LostGrants` is needed), `OneLogin` (one change at a time, of the click that counts)
  and `DocumentIsOwn` (page and profile, empty while the change clears them). `ExchangeInv`:
  neither the runner, nor a frame on its way, nor the frame in hand says "angehalten" unless
  that was true since the call began.  `AppsInv`: an app that is being opened has no window.
* `ContainerProofs`.  The invariant relates the
  program counter to the daemon: which container may exist at which step, which docker
  call may still be completed, what `blocked` and the marker cover.
* `SandboxProofs`.  `IInv` says that two guards never have one connection (`HolderShape`), that a
  queued, new or idle connection carries nothing, that `eof` is the last that comes from it
  and that what it says of an end agrees with its one script (`ConnShape`), and
  that an end in a request's inbox is that of its own script (`InboxShape`).
* `DeviceProofs`.  Halt: the memory is the file or in the fault, what was confirmed is in the
  file or the file is damaged, which a start reads as stopped; a report on its way is owed and
  carries the present state if it carries the present version; the wall clock's age of the last
  report never exceeds the true one (`Clocks`). Sync: a revoked state is bare (`ErasedIsBare`),
  no manifest in hand or in use is older than the stored one (`NotOlder`), and the hours since
  the last sync are counted in spite of a clock set back (`HoursCounted`, `NothingAhead`).
  Questions: runner, relay and panel agree on which question is open (`PhaseFits`, `PanelKnows`),
  what is given is an answer to it or to one of its number that was left at the panel
  (`AnswersOwn`), and behind each that is not open, its removal is on the way (`WayOut`) and
  finds room (`RemovalFits`).
* `RunnerProofs`.  Libs: who works holds the one place to build (`OneBuilder`), a directory that
  is renamed and not yet durable belongs to the job that renamed it (`HalfIsOwned`), and what is
  lent has its manifest (`LentIsThere`).  Storage pins: a state with a sequence, in memory or in
  the file, is at least as new as the list accepted last (`Newest`), and without one the
  quarantine began after that list was issued (`Quarantined`): an old list that comes back was
  issued before the quarantine and is refused.  Pins: a mark is of a commit that was proved for
  its repository (`MarksProved`), whoever works knows which repository (`UrlsKnown`), a verdict
  rests on such a mark (`JudgedProved`).  Ticker: up to the cursor, and up to the slot fired last,
  every slot is settled (`SlotsRight`), and once while the cursor has not gone back (`OnceRight`);
  a call that saw no setting of the clock has had its time since its slot and no more, so nothing
  the last answer set is younger than the slots still out (`CallRight`, `RunRight`).
  Courier: the sum of what was charged and the budget left stay within the limit, and what was
  not charged yet is still on the list.  Wheels: what is registered, to be written and in the
  tree agree (`SeenInv`, `TodoInv`, `TreeInv`, `PlanInv`).
* `SidecarProofs`.  PostPool: a write is noted before it goes out, and who is told is told at
  the end (`NotedFirst`, `ToldAtTheEnd`, `Remembered`). Workers: a slot is free or of one
  request, which is being served (`PoolInv`), and the token here is what LinkedIn gave last,
  unless its answer was lost (`TokenInv`).  Kartei: a record that no update
  fell on across a change is held by one run at most (`Sound`), which knows its state by its
  place (`HeldBy`), and what says booked was booked so (`BookedAsShown`).  Ebics: unless
  `init.php` wrote an older file back, genuine keys in a backup are followed by genuine ones
  only (`KeysInv`), and unless two fetches chose one name, for every program counter of every
  fetch, which statements are on the shelf, written in part, or receipted (`RunFits`,
  `Receiptable`, `Delivered`).  Agent: calls and results of a conversation chain
  (`Chained`), and what is shown of a result is what its protocol keeps (`Shown`).
* `SumTheorems`.  Sums over a finite set, which the courier, the wheels and the journal need.
  The induction theorems of the library take an operator and cannot be used, so these go by the
  smallest counterexample: among the subsets for which a claim fails one has the least
  cardinality, and the set without one of its elements is smaller.

Properties that only theorems state, since a proof says more than a small instance: `TypeOK` of
the proved modules, `OneProcess`, `NoneWhileStopped`, `CancelledForCause`, `StopEndsCancelled`
(`Admission`), `MarkerBeforeProcess`, `SlotsNeverGoBack` (`Outbox`), `OneAtATime`,
`MarkerCoversRun` (`Container`), `ThrottleKept`, `FaultIsSticky` (`Halt`).

Only model-checked: the liveness properties (`EveryOpenRunReported`, `EveryStartedRunSettled`,
`RevokedEndsRuns`, `SetupGivesBack`, `LoginEnds`, `WithdrawnCloses`, `RunsAndJobsEnd`,
`ScriptsEnd`, `BoxLearns`, `DeviceCatchesUp`, `LibsGoOn`, `RejectedIsWithdrawn`).  They need
ENABLED, which is out of the prover's reach.

## 5. Findings

With a run that shows it:

* `sandbox_stuck` (`script-runner/internal/mediator/sandbox.go:134`): an instance that dies in
  the idle place keeps it; its successor is dropped although it is registered, and every request
  is answered "busy" until somebody restarts the container.
* `pins_pending` (`mediator/pins.go:144`): a failing read of git is answered "pending" and kept
  in the cache, although the comment of the type says that it is not: the commit stays pending.
* `ebics_overlap` (`ebics-abholer/fetch.php:122`): the timer's fetch and one by hand choose one
  path; the second rename replaces the first statement, and both are receipted.
* `sync_stuck` (`desktop-runner/internal/client/environment.go:390`): a death or failing write
  between the rename of an environment and its seal leaves a directory that every later sync
  refuses.

Seen with the same modules, without a run of their own; the cfg named gives the violation when
the property is added, the constant changed or the named part of the property dropped:

* `halt.go:31` (`NothingOwed`, `MCDevice.cfg` with `FirstUse = TRUE`): the first halt of a
  device whose write fails is reported to the box and forgotten by the next restart; the box
  keeps "angehalten".
* `engine.go:271` (`NotTurnedAway`, `MCAdmission_live.cfg`): the panel's status query takes the
  run lock with `TryLock` every second; a run that comes in that moment ends "internal".
* `engine.go:64` (`RevokedIsQuiet` of `Admission`, `MCAdmission_live.cfg`): a setup between
  marker and process is not seen by the revocation and starts after the state is deleted; it
  ends (`RevokedEndsRuns`), but it did start.
* `container_engine.go:77` (`RefusedMeansNotStarted` of `Container`, `MCContainer.cfg`): a job
  that did start can be reported "refused", which the contract defines as "vor Prozessstart".
* `manager.go:542` (`BorrowedIsWhole`, `MCServices.cfg`): a removal that fails half-way can
  leave a directory that still has its manifest; Acquire takes it for whole.
* `panel/model.go:122` (`QuestionSound` without the second part of `AnswersOwn`, `MCDevice.cfg`):
  since ids begin anew in each process, the answer to a question of the last run is taken for
  the same number of this one, if it is still on the pipe, or its dialog still open.
* `ticker/ticker.go:197` (`LatestAnswerCounts` without `strayed`, `MCRecords.cfg`): when the clock
  is set ahead, or the machine sleeps, while a call is open, the next slot fires and is answered
  before it; `Record` compares no slots, and the earlier answer, with its pause, replaces the
  later one.
* `ticker/ticker.go:128` and `:9-11`: "Läuft die Uhr rückwärts, bleibt der Cursor stehen", but
  `now` and cursor are of `time.Now` (`mediator.go:96`), whose monotonic readings `Before`
  compares, so the cursor goes back with the wall clock.  No slot fires twice even so
  (`lastFired`); what had been missed is counted again.
* `ticker/ticker.go:36,138,152`: "Was älter ist [...] zählt in `missed`" ends after 10000 slots of
  one poll; the rest, even a slot inside the window, is neither fired nor counted (`skipped`).
* `engine.go:381-387`: a start frame that cannot be written after the wall time is up makes the
  run "cancelled", though nobody cancelled it; a run that ends so later is a "timeout"
  (`Overdue` of `Admission`).
* `kartei-rpa/pad/FLOW-VORLAGE.md:116-119` (`BookedOnce` without `raced`, `MCRecords.cfg`): the
  check at the start of a run "auch greift, wenn ein anderer Rechner oder ein Mensch
  dazwischenkommt".  It does not when both have read before either has written
  (`JanuaPort.Kartei.psm1:364`): two robots find nothing locked, read the same record as
  `geprueft`, lock it one after the other and book twice.  `kartei-rpa/README.md:217` admits that
  the status is all there is.
* `ebics-abholer/init.php:72` (`KeysProved`, `MCServices.cfg`): run again, it writes the key file
  it loaded at its start over whatever `hpb.php` has stored meanwhile, in place: older keys of
  the bank come back, and whoever dies there leaves a damaged file.
* `fensterio/login.go:106` (`PageKeepsPerson`, `MCAdmission_safety.cfg` with `MaxClicks = 3` and
  `LostGrants = TRUE`): "changed" is the core's memory of its last grant; a grant whose answer
  was lost makes the next login of another person look like the same one, and the page is not
  loaded anew.
* `apps_windows.go:36`: an opening that had found its app and is overtaken by the list that
  withdraws it keeps its window, which nobody looks at again (`WithdrawnCloses` speaks of apps
  the menu still shows).
* `desktop-runner/README.md:201`: a frame "angehalten" that was on its way when a page's call
  began counts as its confirmation (`wasHalted` of `Exchange`).

## 6. Not modelled

* Data without a protocol: canonical JSON, signatures, zip and git objects, frames and their
  sizes, cron expressions, the frames' schema, camt and EBICS orders.  A model says "verifies or
  not".
* The named pipe with its access check; contracts, references and the app host of the script
  runner: validation without state.
* WebView2 and the bindings under `edge/`, `wv2com/`; navigation rules, origins and layout of
  the windows; the bytes of the OAuth exchange. Quitting the panel with open windows, and
  `Login.Pump` when a window is updated by a new list.
* Job objects, access lists, installation: calls of the operating system.  That a killed
  process group is gone is assumed by `Admission` and `Outbox`.
* google-reporting and bing-webmaster: the pool of `Workers` without the one shared refresh
  token, and adapters that translate requests.
* Box scripts and the tunnel: provisioning by hand, without a state of their own.
* Helpers of a run (screenshots, reader) and run directories: single calls.

## 7. Plan

Done: all state machines of the device runner, its panel and the script runner that the
inventory names, the agent, and the sidecars with a state that matters, in the order of what an
error would cost (lost or doubled work, work on a stopped device, work nobody watches, code
nobody approved, a person's data in another's hands, money).  All safety properties the runs
check are proved.

What is left, in this order:

1. Composition: `Libs` with `Sandbox` (a lease over the life of a run), `Sync` with `Admission`
   (a manifest that is taken over while a run starts; `Admission` has it as one step),
   `AppWindows` with `Window` (a new list while a person changes).
2. Refinements besides `RunGate`: an abstract outbox (handed out, at the box or counted) for
   `Outbox`, and the one place of `Sandbox` as a gate of the same kind.
3. The helpers of a run.

Runs are one per question, small machines share an MC module, and weaker properties give way to
deeper ones.
