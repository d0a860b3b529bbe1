------------------------------ MODULE Workers ------------------------------
(* The reading path of linkedin-seite: requests wait for one of a few isolated *)
(* worker processes; a worker asks the server process for a permit and for the  *)
(* access token before each request to LinkedIn (external). A token that is      *)
(* due is renewed in a thread of the server process, under a lock, with a        *)
(* refresh token that LinkedIn replaces each time. A request that is cancelled    *)
(* or out of time kills its worker, never the thread.                            *)
EXTENDS Naturals, FiniteSets

CONSTANTS Reads,         \* requests
          Workplaces,        \* indices of workers, two in the source
          MaxQueued,     \* MAX_QUEUED, 4 in the source
          DailyCap,      \* DAILY_CAP, 50 in the source
          MaxAges        \* bound on how often the token grows older

VARIABLES
    read,       \* per request: where it is, and its slot while it has one
    worker,     \* WorkerPool.slots: is there a process
    available,  \* WorkerPool.available
    pending,    \* WorkerPool.pending
    attempts,   \* WorkerPool.attempts of the day
    poolClosed, \* WorkerPool.closed
    thread,     \* per request: Tokens.access for it
    holder,     \* who holds Tokens.lock
    token,      \* Tokens.data: age of the access token, refresh token
    grant,      \* LinkedIn: the refresh token it accepts, and whether an
                \* answer of it was lost
    ages

workersVars == <<read, worker, available, pending, attempts, poolClosed, thread, holder,
                 token, grant, ages>>

NoSlot == "no slot"
ASSUME WorkersAssumption == NoSlot \notin Workplaces \cup Reads /\ IsFiniteSet(Reads)
WorkersInit ==
    /\ read = [r \in Reads |-> [at |-> "new", slot |-> NoSlot]]
    /\ worker = [i \in Workplaces |-> FALSE] /\ available = Workplaces /\ pending = 0
    /\ attempts = 0 /\ poolClosed = FALSE
    /\ thread = [r \in Reads |-> "none"] /\ holder = NoSlot
    /\ token = [age |-> "fresh", refresh |-> 0] /\ grant = [refresh |-> 0, lost |-> FALSE]
    /\ ages = 0

TokenUntouched == UNCHANGED <<thread, holder, token, grant, ages>>
At(r, places) == read[r].at \in places
In(r, a) == read' = [read EXCEPT ![r].at = a]

(* run: admitted while the queue has room. *)
Arrive(r) ==
    /\ At(r, {"new"})
    /\ \/ /\ (poolClosed \/ pending >= Cardinality(Workplaces) + MaxQueued)
          /\ In(r, "over") /\ UNCHANGED pending
       \/ /\ ~poolClosed /\ pending < Cardinality(Workplaces) + MaxQueued
          /\ In(r, "queued") /\ pending' = pending + 1
    /\ UNCHANGED <<worker, available, attempts, poolClosed>> /\ TokenUntouched
(* A free slot, and a process in it if there is none. *)
TakeSlot(r, i) ==
    /\ At(r, {"queued"}) /\ i \in available
    /\ available' = available \ {i} /\ worker' = [worker EXCEPT ![i] = TRUE]
    /\ read' = [read EXCEPT ![r] = [at |-> "working", slot |-> i]]
    /\ UNCHANGED <<pending, attempts, poolClosed>> /\ TokenUntouched

(* The finally block: a request without a result kills its worker; the slot is  *)
(* free again in any case (a process that survives SIGKILL is left out).         *)
Leaves(r, kills) ==
    /\ read' = [read EXCEPT ![r] = [at |-> "over", slot |-> NoSlot]]
    /\ pending' = pending - 1
    /\ IF read[r].slot = NoSlot THEN UNCHANGED <<worker, available>>
       ELSE /\ worker' = [worker EXCEPT ![read[r].slot] = ~kills]
            /\ available' = available \cup {read[r].slot}
(* The budget of the request, a caller that goes away, a worker that dies. *)
GivesUp(r) ==
    /\ At(r, {"queued", "working", "asking", "permitted"})
    /\ Leaves(r, TRUE)
    /\ UNCHANGED <<attempts, poolClosed>> /\ TokenUntouched
WorkerDies(i) ==
    /\ i \in available /\ worker[i] /\ worker' = [worker EXCEPT ![i] = FALSE]
    /\ UNCHANGED <<read, available, pending, attempts, poolClosed>> /\ TokenUntouched

(* A step of the adapter in the worker: it asks for the token before each GET,  *)
(* asks for a permit, and ends with sums or an error; in both cases the worker   *)
(* stays.                                                                        *)
AsksToken(r) ==
    /\ At(r, {"working"}) /\ In(r, "asking")
    /\ thread' = [thread EXCEPT ![r] = "wants"]
    /\ UNCHANGED <<worker, available, pending, attempts, poolClosed, holder, token, grant, ages>>
AsksPermit(r) ==
    /\ At(r, {"permitted"})
    /\ \/ attempts < DailyCap /\ attempts' = attempts + 1 /\ In(r, "working")
          /\ UNCHANGED <<worker, available, pending>>
       \/ attempts = DailyCap /\ Leaves(r, FALSE) /\ UNCHANGED attempts
    /\ UNCHANGED poolClosed /\ TokenUntouched
Results(r) ==
    /\ At(r, {"working"}) /\ Leaves(r, FALSE)
    /\ UNCHANGED <<attempts, poolClosed>> /\ TokenUntouched
ClosePool ==
    /\ ~poolClosed /\ poolClosed' = TRUE
    /\ worker' = [i \in Workplaces |-> FALSE]
    /\ UNCHANGED <<read, available, pending, attempts>> /\ TokenUntouched

(* Tokens.access: the age is read under the lock; a due token is exchanged,      *)
(* and the exchange is an attempt of the path that asks.                          *)
Due == token.age # "fresh"
Locks(r) ==
    /\ thread[r] = "wants" /\ holder = NoSlot /\ holder' = r
    /\ thread' = [thread EXCEPT ![r] = IF ~Due THEN "has"
                    ELSE IF attempts < DailyCap THEN "exchanges" ELSE "failed"]
    /\ attempts' = IF thread'[r] = "exchanges" THEN attempts + 1 ELSE attempts
    /\ UNCHANGED <<read, worker, available, pending, poolClosed, token, grant, ages>>
(* Deviation: the new tokens are dropped when nobody waits for them any more. *)
ExchangedForWaiting(r, outcome) ==
    /\ thread[r] = "exchanges"
    /\ outcome \in {"answered", "answer lost"} => token.refresh = grant.refresh
    /\ grant' = IF outcome = "refused" THEN grant
                ELSE [refresh |-> grant.refresh + 1, lost |-> outcome = "answer lost"]
    /\ token' = IF outcome = "answered" /\ At(r, {"asking"})
                THEN [age |-> "fresh", refresh |-> grant.refresh + 1] ELSE token
    /\ thread' = [thread EXCEPT ![r] = IF outcome = "answered" THEN "has" ELSE "failed"]
    /\ UNCHANGED <<read, worker, available, pending, attempts, poolClosed, holder, ages>>
(* LinkedIn takes the refresh token it gave last and gives the next; its answer  *)
(* may be lost or unusable, or it refuses. The new tokens are stored at once,     *)
(* also when nobody waits for them any more.                                     *)
Exchanged(r, outcome) ==
    /\ thread[r] = "exchanges"
    /\ outcome \in {"answered", "answer lost"} => token.refresh = grant.refresh
    /\ grant' = IF outcome = "refused" THEN grant
                ELSE [refresh |-> grant.refresh + 1, lost |-> outcome = "answer lost"]
    /\ token' = IF outcome = "answered" THEN [age |-> "fresh", refresh |-> grant.refresh + 1]
                ELSE token
    /\ thread' = [thread EXCEPT ![r] = IF outcome = "answered" THEN "has" ELSE "failed"]
    /\ UNCHANGED <<read, worker, available, pending, attempts, poolClosed, holder, ages>>
(* The lock is released; the reply goes to a worker that still waits for it. An   *)
(* expired token and a failed exchange are errors of the request.                 *)
Unlocks(r) ==
    LET good == thread[r] = "has" /\ token.age # "expired" IN
    /\ thread[r] \in {"has", "failed"} /\ holder' = NoSlot
    /\ thread' = [thread EXCEPT ![r] = "none"]
    /\ IF ~At(r, {"asking"}) THEN UNCHANGED <<read, worker, available, pending>>
       ELSE IF good THEN In(r, "permitted") /\ UNCHANGED <<worker, available, pending>>
       ELSE Leaves(r, FALSE)
    /\ UNCHANGED <<attempts, poolClosed, token, grant, ages>>
TokenAges ==
    /\ ages < MaxAges /\ ages' = ages + 1 /\ token.age # "expired"
    /\ token' = [token EXCEPT !.age = IF @ = "fresh" THEN "due" ELSE "expired"]
    /\ UNCHANGED <<read, worker, available, pending, attempts, poolClosed, thread, holder, grant>>

Outcomes == {"answered", "answer lost", "refused"}
ReadStep(r) == \/ Arrive(r) \/ GivesUp(r) \/ AsksToken(r) \/ AsksPermit(r) \/ Results(r)
               \/ Locks(r) \/ Unlocks(r)
               \/ \E i \in Workplaces : TakeSlot(r, i)
               \/ \E o \in Outcomes : Exchanged(r, o)
WorkersNext == \/ \E r \in Reads : ReadStep(r)
               \/ \E i \in Workplaces : WorkerDies(i)
               \/ ClosePool \/ TokenAges
WorkersSpec == WorkersInit /\ [][WorkersNext]_workersVars

(* The refresh token that is held is the one LinkedIn accepts, whoever gave up   *)
(* during the exchange, unless LinkedIn's own answer was lost; and every slot is  *)
(* free or in the hands of one request, every request that waits is counted.      *)
GrantKept ==
    /\ grant.lost \/ token.refresh = grant.refresh
    /\ pending = Cardinality({r \in Reads : At(r, {"queued", "working", "asking", "permitted"})})
    /\ \A i \in Workplaces : (i \in available) <=> (\A r \in Reads : read[r].slot # i)
    /\ \A r, s \in Reads : r # s /\ read[r].slot = read[s].slot => read[r].slot = NoSlot
=============================================================================
