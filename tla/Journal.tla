------------------------------ MODULE Journal ------------------------------
(***************************************************************************)
(* The journal of the desktop runner as a value: what one call of State    *)
(* (desktop-runner/internal/client/state.go) makes of the journal it       *)
(* clones, before the new value is written and published.  Every operator  *)
(* here is a pure function; Outbox composes them with memory, disk, the    *)
(* serial loop, the panel runs and the box.                                *)
(*                                                                         *)
(* A run is identified by its key: a schedule slot, an ad-hoc job or a     *)
(* panel setup.  A result is its key and the class of its end:             *)
(*   "refused"      no process was started for it,                         *)
(*   "finished"     ok, error, timeout, limit, internal or cancelled,      *)
(*   "interrupted"  written by Recover from the marker of a dead process.  *)
(***************************************************************************)
EXTENDS Integers, Sequences, FiniteSets, Functions

CONSTANTS Schedules,    \* names <pin>/<schedule>
          MaxTime,      \* slots are the minutes 1..MaxTime
          Jobs,         \* ad-hoc job ids the box may hand out
          Setups,       \* panel setups the box may authorise
          None,         \* absence of a marker, a result, a message
          MaxResults,   \* 200 in the source
          JournalMax,   \* 16 MiB in the source
          MaxSlots,     \* 4096 in the source
          Size          \* encoded size of a run's result, and of its marker

Key(kind, name, at) == [kind |-> kind, name |-> name, at |-> at]

SlotKeys  == {Key("slot", s, t) : s \in Schedules, t \in 1..MaxTime}
JobKeys   == {Key("job", j, 0) : j \in Jobs}
SetupKeys == {Key("setup", u, 0) : u \in Setups}
Keys      == SlotKeys \cup JobKeys \cup SetupKeys

Ends    == {"refused", "finished", "interrupted"}
Results == [key : Keys, end : Ends]
Markers == [key : Keys, phase : {"claimed", "started"}]

Result(k, end) == [key |-> k, end |-> end]

ASSUME BoundsAssumption == /\ MaxTime \in Nat
                           /\ MaxResults \in Nat \ {0}
                           /\ JournalMax \in Nat
                           /\ MaxSlots \in Nat

(* 80 KiB per result against 16 MiB: a single entry always fits.           *)
ASSUME SizeAssumption == /\ Size \in [Keys -> Nat]
                         /\ \A k \in Keys : 2 * Size[k] <= JournalMax

ASSUME NoneAssumption == /\ None \notin Keys
                         /\ None \notin Results
                         /\ None \notin Markers

Journals == [results : Seq(Results),
             dropped : Nat,
             marker  : Markers \cup {None},
             slots   : [Schedules -> 0..MaxTime]]

Empty == [results |-> <<>>, dropped |-> 0, marker |-> None,
          slots |-> [s \in Schedules |-> 0]]

ResultsIn(j) == {j.results[i] : i \in DOMAIN j.results}
KeysOf(rs) == {rs[i].key : i \in DOMAIN rs}

(***************************************************************************)
(* saveJournal's limits: at most MaxResults entries, and the sealed bytes  *)
(* of results and marker together within JournalMax.                       *)
(***************************************************************************)
Bytes(rs, marker) ==
    SumFunction([i \in DOMAIN rs |-> Size[rs[i].key]])
      + (IF marker = None THEN 0 ELSE Size[marker.key])

Fits(rs, marker) == Len(rs) <= MaxResults /\ Bytes(rs, marker) <= JournalMax

WithoutOldest(rs, n) == SubSeq(rs, n + 1, Len(rs))

(* The loop drops one oldest entry at a time until the rest fits.          *)
Evicted(j) ==
    CHOOSE n \in 0..Len(j.results) :
        /\ n = Len(j.results) \/ Fits(WithoutOldest(j.results, n), j.marker)
        /\ \A m \in 0..(n - 1) : ~ Fits(WithoutOldest(j.results, m), j.marker)

(* Deviation: entries fall without being counted.                          *)
StoredUncounted(j) == [j EXCEPT !.results = WithoutOldest(@, Evicted(j))]

(* The journal that reaches the disk, and on success the memory.           *)
Stored(j) == [j EXCEPT !.results = WithoutOldest(@, Evicted(j)),
                       !.dropped = @ + Evicted(j)]

(* Append: the entry goes to the end and closes its own marker only.       *)
Appended(j, r) ==
    [j EXCEPT !.results = Append(@, r),
              !.marker  = IF @ # None /\ @.key = r.key THEN None ELSE @]

(* Mark: refused (ErrBusy) while the marker belongs to another run.        *)
MayMark(j, k) == j.marker # None => j.marker.key = k
Marked(j, k, phase) == [j EXCEPT !.marker = [key |-> k, phase |-> phase]]

(* Deviation: any slot but the last one is new.                            *)
MayReserveOther(j, s, t) == j.slots[s] # t /\ j.marker = None

(* ReserveRun: slot and claimed marker become durable in one save.         *)
KnownSchedules(j) == {s \in Schedules : j.slots[s] > 0}
MayReserve(j, s, t) ==
    /\ j.slots[s] < t
    /\ j.marker = None
    /\ Cardinality(KnownSchedules(j)) < MaxSlots \/ j.slots[s] > 0
Reserved(j, s, t) ==
    [j EXCEPT !.slots[s] = t,
              !.marker   = [key |-> Key("slot", s, t), phase |-> "claimed"]]

(* DeliverOne removes the entry it sent only if it is still the oldest.    *)
IsHead(j, r) == j.results # <<>> /\ Head(j.results) = r
HeadRemoved(j, r) == IF IsHead(j, r) THEN [j EXCEPT !.results = Tail(@)] ELSE j
HeadDropped(j) == [j EXCEPT !.results = Tail(@), !.dropped = @ + 1]
=============================================================================
