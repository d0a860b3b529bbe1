----------------------------- MODULE StoragePins -----------------------------
(***************************************************************************)
(* Pins from storage: the core signs a list, a courier that nobody trusts  *)
(* brings it into the inbox, the storage goroutine of the fetcher verifies *)
(* list and packages and publishes state.json, the mediator reads that     *)
(* file before it hands code to a sandbox (storagepins/*, fetcher/         *)
(* storage.go, store/storage.go, mediator/storage.go).  A package is good  *)
(* or not: approvals carry the hash of a good one.                         *)
(***************************************************************************)
EXTENDS Integers, FiniteSets

CONSTANTS PinNames,
          MaxAge, Skew,      \* storagepins.MaxAge and Skew, in units of time
          MaxHour,           \* bound on the time
          Lists,             \* what the core signs over time: [seq, issued, pins]
          MaxStorageFaults   \* bound on failing writes, a lost file, deaths, key gone

ASSUME StorageAssumption ==
    /\ {MaxAge, Skew, MaxHour} \subseteq Nat \ {0}
    /\ Lists \subseteq [seq : Nat \ {0}, issued : Nat, pins : SUBSET PinNames]
    \* A list is signed anew with the same pins, a later one with a later time.
    /\ \A l, m \in Lists : l.seq < m.seq => l.issued <= m.issued
    /\ MaxStorageFaults \in Nat

VARIABLES
    hour,         \* the clock of the box, which is not set back
    journal,      \* Journal: loaded, start, state
    stateFile,    \* state.json, or EmptyFor("lost")
    pass,         \* storageOnce: where it is, the list, the packages found good
    sink,         \* storageObjects of the mediator: where it is, for which approval
    handedOver,   \* history: what the mediator handed to a sandbox last
    topSeq,       \* history: the highest sequence Publish accepted for the key
    storageFaults

storeVars   == <<journal, stateFile, pass, topSeq>>
sinkVars    == <<sink, handedOver>>
storageVars == <<hour, storeVars, sinkVars, storageFaults>>

NoList == [seq |-> 0, issued |-> 0, pins |-> {}]
EmptyFor(key) == [key |-> key, seq |-> 0, issued |-> 0, pins |-> {}, approved |-> {}]
PassIdle == [at |-> "idle", list |-> NoList, good |-> {}]
SinkIdle == [at |-> "idle", pin |-> "none", of |-> EmptyFor("lost")]
StorageFault == storageFaults < MaxStorageFaults /\ storageFaults' = storageFaults + 1

StorageInit ==
    /\ hour = 0
    /\ journal = [loaded |-> FALSE, start |-> 0, state |-> EmptyFor("")]
    /\ stateFile = EmptyFor("lost") /\ pass = PassIdle /\ topSeq = 0
    /\ sink = SinkIdle /\ storageFaults = 0
    /\ handedOver = [seq |-> 0, top |-> 0, age |-> 0]

HourPasses ==
    /\ hour < MaxHour /\ hour' = hour + 1
    /\ UNCHANGED <<storeVars, sinkVars, storageFaults>>

\* Nobody trusts the inbox: whatever was signed so far may lie in it, by a
\* clock that may be ahead of ours, or nothing that has a signature.
Inbox == {l \in Lists : l.issued <= hour + Skew} \cup {NoList}

-----------------------------------------------------------------------------
(* Journal *)

FetcherRest == UNCHANGED <<hour, sinkVars>>

\* write: a temporary file, fsync, rename, fsync of the directory.  j is the
\* journal if it fails: what failed after the rename is in the file even so.
Write(s, j, ok, broken) ==
    \/ /\ stateFile' = s /\ journal' = [j EXCEPT !.state = s] /\ pass' = ok
       /\ UNCHANGED storageFaults
    \/ /\ StorageFault /\ journal' = j /\ pass' = broken
       /\ stateFile' \in {s, stateFile}

\* validState: there, and written for this key.
Usable == stateFile.key # "lost"

\* What SetKey makes of the journal: the file is read once; another key, or
\* none, begins a new quarantine.
Keyed(key) ==
    LET s == IF journal.loaded THEN journal.state
             ELSE IF Usable THEN stateFile ELSE EmptyFor(key) IN
    IF s.key # key THEN [loaded |-> TRUE, start |-> hour, state |-> EmptyFor(key)]
    ELSE [journal EXCEPT !.loaded = TRUE, !.state = s]

SetKey ==
    /\ pass.at = "idle"
    /\ Write(Keyed("key").state, Keyed("key"), [PassIdle EXCEPT !.at = "list"], PassIdle)
    /\ UNCHANGED topSeq /\ FetcherRest

\* runner-pins.pub cannot be loaded: no approvals, the sequence is lost.
KeyMissing ==
    /\ pass.at = "idle" /\ StorageFault
    /\ journal' = Keyed("") /\ stateFile' \in {stateFile, Keyed("").state}
    /\ UNCHANGED <<pass, topSeq>> /\ FetcherRest

\* Check and Verify: after a reset no list counts until everything that was
\* signed before has expired; then sequence, age and signature.
Check(l) ==
    LET s == journal.state IN
    /\ l # NoList
    /\ s.seq = 0 => hour > journal.start + MaxAge + Skew
    /\ l.seq >= s.seq /\ (l.seq = s.seq => l.issued >= s.issued)
    /\ l.issued <= hour + Skew /\ hour - l.issued <= MaxAge

Failed == [journal.state EXCEPT !.approved = {}]

\* The list is read and checked; anything else ends in Fail.
ReadList ==
    /\ pass.at = "list"
    /\ \/ \E l \in Inbox : /\ Check(l)
                           /\ pass' = [pass EXCEPT !.at = "packages", !.list = l]
                           /\ UNCHANGED <<journal, stateFile, storageFaults>>
       \/ (\E l \in Inbox : ~Check(l)) /\ Write(Failed, journal, PassIdle, PassIdle)
    /\ UNCHANGED topSeq /\ FetcherRest

\* Those that are there, good, and within the total.
ReadPackages ==
    /\ pass.at = "packages"
    /\ \E good \in SUBSET pass.list.pins :
          pass' = [pass EXCEPT !.at = "publish", !.good = good]
    /\ UNCHANGED <<journal, stateFile, topSeq, storageFaults>> /\ FetcherRest

\* Publish checks once more, after all reading.
PublishList ==
    LET l == pass.list
        s == [key |-> "key", seq |-> l.seq, issued |-> l.issued, pins |-> l.pins, approved |-> pass.good] IN
    /\ pass.at = "publish"
    /\ IF Check(l)
       THEN /\ Write(s, journal, PassIdle, [pass EXCEPT !.at = "fail"])
            /\ topSeq' = IF pass' = PassIdle /\ l.seq > topSeq THEN l.seq ELSE topSeq
       ELSE pass' = [pass EXCEPT !.at = "fail"] /\ UNCHANGED <<journal, stateFile, topSeq, storageFaults>>
    /\ FetcherRest

\* storageFailed after Publish: no approvals, the sequence stays.
Fail ==
    /\ pass.at = "fail"
    /\ Write(Failed, journal, PassIdle, PassIdle)
    /\ UNCHANGED topSeq /\ FetcherRest

\* Deviation: the quarantine of the last process counts on.
StoreDiesUnquarantined ==
    /\ StorageFault
    /\ journal' = [journal EXCEPT !.loaded = FALSE]
    /\ pass' = PassIdle /\ stateFile' \in {stateFile, EmptyFor("lost")}
    /\ UNCHANGED topSeq /\ FetcherRest

\* A new process, perhaps with a volume whose file is lost or damaged.
StoreDies ==
    /\ StorageFault
    /\ journal' = [loaded |-> FALSE, start |-> hour, state |-> EmptyFor("")]
    /\ pass' = PassIdle /\ stateFile' \in {stateFile, EmptyFor("lost")}
    /\ UNCHANGED topSeq /\ FetcherRest

-----------------------------------------------------------------------------
(* storageObjects of the mediator, before every handing over *)

MediatorRest == UNCHANGED <<hour, storeVars, storageFaults>>

\* ReadState: a file with an accepted list.
Readable == Usable /\ stateFile.seq > 0

\* Readable, Fresh, and the approval of the pin.
Approves(p) ==
    /\ Readable /\ p \in stateFile.approved
    /\ stateFile.issued <= hour + Skew /\ hour - stateFile.issued <= MaxAge

BeginSink(p) ==
    /\ sink.at = "idle" /\ Approves(p)
    /\ sink' = [at |-> "package", pin |-> p, of |-> stateFile]
    /\ UNCHANGED handedOver /\ MediatorRest

\* The hash of what is read is the hash that was approved, or it ends.
ReadPackage ==
    /\ sink.at = "package"
    /\ sink' \in {[sink EXCEPT !.at = "again"], SinkIdle}
    /\ UNCHANGED handedOver /\ MediatorRest

Handed(s) == [seq |-> s.seq, top |-> topSeq, age |-> hour - s.issued]

\* A rename or an expiry while reading does not authorise the old state.
HandOver ==
    /\ sink.at = "again"
    /\ handedOver' = IF Approves(sink.pin) THEN Handed(stateFile) ELSE handedOver
    /\ sink' = SinkIdle
    /\ MediatorRest

StorageNext ==
    \/ HourPasses \/ SetKey \/ KeyMissing \/ ReadList \/ ReadPackages \/ PublishList \/ Fail \/ StoreDies
    \/ (\E p \in PinNames : BeginSink(p)) \/ ReadPackage \/ HandOver

StorageSpec == StorageInit /\ [][StorageNext]_storageVars
-----------------------------------------------------------------------------
\* "the last accepted envelope and sequence still prevent replay": approvals
\* in state.json are of no list older than the newest that Publish accepted,
\* and neither was what a sandbox was handed, which had not expired: over
\* deaths, a lost file, a write that fails before or after its rename, a key
\* that is gone for a while, a courier that brings old lists back, and
\* packages that change while they are read.
NoReplay ==
    /\ stateFile.approved # {} => stateFile.seq >= topSeq
    /\ handedOver.seq >= handedOver.top /\ handedOver.age <= MaxAge
=============================================================================
