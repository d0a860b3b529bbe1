---------------------------- MODULE OutboxProofs ----------------------------
(***************************************************************************)
(* Proofs about Journal and Outbox, for every set of schedules, jobs and   *)
(* setups, every limit and every bound.                                    *)
(*                                                                         *)
(* The safety properties are not inductive: that a run is started once     *)
(* depends on who holds it (a goroutine, a marker in memory, a marker on   *)
(* disk) and on what the slots and the box remember of it after a restart, *)
(* when a failed save has left the file ahead of the memory.  What its     *)
(* results say depends on where copies of them are as well, and what is    *)
(* lost on how often a result was refused.                                 *)
(***************************************************************************)
EXTENDS Outbox, SumTheorems, SequenceTheorems, TLAPS

-----------------------------------------------------------------------------
(* The journal: what its operations return, preserve and bound.            *)

(* saveJournal's eviction stops at or before the empty list.               *)
LEMMA EvictedRange ==
    ASSUME NEW j \in Journals
    PROVE  /\ Evicted(j) \in 0..Len(j.results)
           /\ \/ Evicted(j) = Len(j.results)
              \/ Fits(WithoutOldest(j.results, Evicted(j)), j.marker)
           /\ \A m \in 0..(Evicted(j) - 1) : ~ Fits(WithoutOldest(j.results, m), j.marker)
<1> DEFINE Enough(n) == n = Len(j.results) \/ Fits(WithoutOldest(j.results, n), j.marker)
           T == {n \in 0..Len(j.results) : Enough(n)}
<1>1. Len(j.results) \in Nat
  BY LenProperties DEF Journals
<1>2. T \in SUBSET Nat /\ T # {}
  <2>1. Len(j.results) \in T
    BY <1>1
  <2> QED BY <2>1, <1>1
<1>3. PICK n \in T : \A m \in T : n <= m
  <2> HIDE DEF T
  <2> QED BY <1>2, LeastNatural
<1>4. \A m \in 0..(n - 1) : ~ Fits(WithoutOldest(j.results, m), j.marker)
  BY <1>1, <1>3
<1>5. \E k \in 0..Len(j.results) :
         /\ k = Len(j.results) \/ Fits(WithoutOldest(j.results, k), j.marker)
         /\ \A m \in 0..(k - 1) : ~ Fits(WithoutOldest(j.results, m), j.marker)
  BY <1>3, <1>4
<1> QED
  BY <1>5 DEF Evicted

(* A journal has the four parts of its record.                             *)
LEMMA JournalParts ==
    ASSUME NEW j \in Journals
    PROVE  /\ j.results \in Seq(Results)
           /\ j.dropped \in Nat
           /\ j.marker \in Markers \cup {None}
           /\ j.slots \in [Schedules -> 0..MaxTime]
           /\ Len(j.results) \in Nat
           /\ DOMAIN j.results = 1..Len(j.results)
           /\ ResultsIn(j) \subseteq Results
BY LenProperties, ElementOfSeq DEF Journals, ResultsIn

(* The empty journal of a new or revoked device.                           *)
LEMMA EmptyType ==
    Empty \in Journals /\ ResultsIn(Empty) = {} /\ Empty.marker = None
BY EmptySeq, BoundsAssumption DEF Empty, Journals, ResultsIn

(* Dropping the oldest entries leaves entries of the journal.              *)
LEMMA SuffixType ==
    ASSUME NEW j \in Journals, NEW n \in 0..Len(j.results)
    PROVE  /\ WithoutOldest(j.results, n) \in Seq(Results)
           /\ Len(WithoutOldest(j.results, n)) = Len(j.results) - n
           /\ {WithoutOldest(j.results, n)[i] : i \in DOMAIN WithoutOldest(j.results, n)}
                \subseteq ResultsIn(j)
<1> DEFINE rs == j.results
           L == Len(rs)
           w == SubSeq(rs, n + 1, L)
<1>1. rs \in Seq(Results) /\ L \in Nat /\ DOMAIN rs = 1..L
  BY JournalParts
<1>2. \A i \in n+1 .. L : rs[i] \in Results
  BY <1>1, ElementOfSeq
<1>3. /\ w \in Seq(Results)
      /\ Len(w) = IF n + 1 <= L THEN L - (n + 1) + 1 ELSE 0
      /\ \A i \in 1 .. L - (n + 1) + 1 : w[i] = rs[n + 1 + i - 1]
  <2> HIDE DEF L, rs
  <2> QED BY <1>1, <1>2, SubSeqProperties
<1>4. Len(w) = L - n
  BY <1>1, <1>3
<1>5. DOMAIN w = 1..(L - n)
  BY <1>3, <1>4, LenProperties
<1>6. \A i \in 1..(L - n) : w[i] = rs[n + i] /\ n + i \in DOMAIN rs
  BY <1>1, <1>3
<1> QED
  BY <1>3, <1>4, <1>5, <1>6 DEF WithoutOldest, ResultsIn

(* A saved journal is a journal; only results and loss counter differ from *)
(* the one handed to saveJournal, and it invents no result.                *)
LEMMA StoredType ==
    ASSUME NEW j \in Journals
    PROVE  /\ Stored(j) \in Journals
           /\ Stored(j).marker = j.marker
           /\ Stored(j).slots = j.slots
           /\ Stored(j).dropped >= j.dropped
           /\ ResultsIn(Stored(j)) \subseteq ResultsIn(j)
<1> DEFINE n == Evicted(j)
           w == WithoutOldest(j.results, n)
<1>1. n \in Nat
  BY EvictedRange, JournalParts
<1>2. w \in Seq(Results) /\ {w[i] : i \in DOMAIN w} \subseteq ResultsIn(j)
  BY EvictedRange, SuffixType
<1>3. Stored(j) = [j EXCEPT !.results = w, !.dropped = @ + n]
  BY DEF Stored
<1> HIDE DEF w, n
<1>4. Stored(j) = [results |-> w, dropped |-> j.dropped + n,
                   marker |-> j.marker, slots |-> j.slots]
  BY <1>3 DEF Journals
<1>5. /\ j.dropped \in Nat
      /\ j.marker \in Markers \cup {None}
      /\ j.slots \in [Schedules -> 0..MaxTime]
  BY JournalParts
<1>6. Stored(j) \in Journals
  BY <1>1, <1>2, <1>4, <1>5 DEF Journals
<1> QED
  BY <1>1, <1>2, <1>4, <1>5, <1>6 DEF ResultsIn

(* Append adds exactly its result and closes at most its own marker.       *)
LEMMA AppendedType ==
    ASSUME NEW j \in Journals, NEW r \in Results
    PROVE  /\ Appended(j, r) \in Journals
           /\ ResultsIn(Appended(j, r)) = ResultsIn(j) \cup {r}
           /\ Appended(j, r).slots = j.slots
           /\ Appended(j, r).marker \in {j.marker, None}
           /\ Appended(j, r).marker # None =>
                 Appended(j, r).marker = j.marker /\ j.marker.key # r.key
<1> DEFINE a == Append(j.results, r)
           k == IF j.marker # None /\ j.marker.key = r.key THEN None ELSE j.marker
<1>1. /\ a \in Seq(Results)
      /\ Len(a) = Len(j.results) + 1
      /\ \A i \in 1..Len(j.results) : a[i] = j.results[i]
      /\ a[Len(j.results) + 1] = r
  BY JournalParts, AppendProperties
<1>2. DOMAIN a = 1..(Len(j.results) + 1)
  BY <1>1, LenProperties
<1>3. {a[i] : i \in DOMAIN a} = ResultsIn(j) \cup {r}
  <2> HIDE DEF a
  <2> DEFINE rs == j.results
             L == Len(rs)
  <2>1. L \in Nat /\ DOMAIN rs = 1..L
    BY JournalParts
  <2>2. /\ DOMAIN a = 1..(L + 1)
        /\ \A i \in 1..L : a[i] = rs[i]
        /\ a[L + 1] = r
    BY <1>1, <1>2
  <2> HIDE DEF rs, L
  <2>3. {a[i] : i \in DOMAIN a} = {rs[i] : i \in DOMAIN rs} \cup {r}
    <3>1. ASSUME NEW i \in 1..(L + 1) PROVE a[i] \in {rs[n] : n \in 1..L} \cup {r}
      <4>1. i \in 1..L \/ i = L + 1
        BY <2>1
      <4> QED BY <2>2, <4>1
    <3>2. ASSUME NEW i \in 1..L PROVE rs[i] \in {a[n] : n \in 1..(L + 1)}
      <4>1. i \in 1..(L + 1)
        BY <2>1
      <4> QED BY <2>2, <4>1
    <3>3. r \in {a[n] : n \in 1..(L + 1)}
      BY <2>1, <2>2
    <3> QED BY <2>1, <2>2, <3>1, <3>2, <3>3
  <2> QED BY <2>3 DEF rs, ResultsIn
<1>4. Appended(j, r) = [j EXCEPT !.results = a, !.marker = k]
  BY DEF Appended
<1>5. /\ k \in Markers \cup {None}
      /\ j.dropped \in Nat
      /\ j.slots \in [Schedules -> 0..MaxTime]
  BY JournalParts
<1>6. k \in {j.marker, None} /\ (k # None => k = j.marker /\ j.marker.key # r.key)
  OBVIOUS
<1> HIDE DEF a, k
<1>7. Appended(j, r) = [results |-> a, dropped |-> j.dropped, marker |-> k, slots |-> j.slots]
  BY <1>4 DEF Journals
<1>8. Appended(j, r) \in Journals
  BY <1>1, <1>5, <1>7 DEF Journals
<1> QED
  BY <1>3, <1>6, <1>7, <1>8 DEF ResultsIn

(* Mark and ReserveRun set the marker; ReserveRun also advances the slot.  *)
LEMMA MarkedType ==
    ASSUME NEW j \in Journals, NEW k \in Keys, NEW p \in {"claimed", "started"}
    PROVE  /\ Marked(j, k, p) \in Journals
           /\ ResultsIn(Marked(j, k, p)) = ResultsIn(j)
           /\ Marked(j, k, p).slots = j.slots
           /\ Marked(j, k, p).marker = [key |-> k, phase |-> p]
BY JournalParts DEF Marked, Journals, Markers, ResultsIn

LEMMA ReservedType ==
    ASSUME NEW j \in Journals, NEW s \in Schedules, NEW t \in 1..MaxTime
    PROVE  /\ Reserved(j, s, t) \in Journals
           /\ ResultsIn(Reserved(j, s, t)) = ResultsIn(j)
           /\ Reserved(j, s, t).slots = [j.slots EXCEPT ![s] = t]
           /\ Reserved(j, s, t).marker = [key |-> Key("slot", s, t), phase |-> "claimed"]
<1>1. Key("slot", s, t) \in Keys
  BY DEF Keys, SlotKeys
<1>2. [j.slots EXCEPT ![s] = t] \in [Schedules -> 0..MaxTime]
  BY JournalParts, BoundsAssumption
<1> QED
  BY <1>1, <1>2, JournalParts DEF Reserved, Journals, Markers, ResultsIn

(* Removing the head, delivered or given up, keeps everything else.        *)
LEMMA TailType ==
    ASSUME NEW j \in Journals, j.results # <<>>
    PROVE  /\ Tail(j.results) \in Seq(Results)
           /\ {Tail(j.results)[i] : i \in DOMAIN Tail(j.results)} \subseteq ResultsIn(j)
           /\ Head(j.results) \in ResultsIn(j)
<1>1. /\ Tail(j.results) \in Seq(Results)
      /\ Len(Tail(j.results)) = Len(j.results) - 1
      /\ \A i \in 1..(Len(j.results) - 1) : Tail(j.results)[i] = j.results[i + 1]
      /\ Head(j.results) = j.results[1]
      /\ Len(j.results) \in Nat \ {0}
  BY JournalParts, HeadTailProperties, EmptySeq
<1>2. DOMAIN Tail(j.results) = 1..(Len(j.results) - 1)
  BY <1>1, LenProperties
<1> QED
  BY <1>1, <1>2, JournalParts DEF ResultsIn

LEMMA HeadRemovedType ==
    ASSUME NEW j \in Journals, NEW r
    PROVE  /\ HeadRemoved(j, r) \in Journals
           /\ ResultsIn(HeadRemoved(j, r)) \subseteq ResultsIn(j)
           /\ HeadRemoved(j, r).slots = j.slots
           /\ HeadRemoved(j, r).marker = j.marker
BY JournalParts, TailType DEF HeadRemoved, IsHead, Journals, ResultsIn

LEMMA HeadDroppedType ==
    ASSUME NEW j \in Journals, j.results # <<>>
    PROVE  /\ HeadDropped(j) \in Journals
           /\ ResultsIn(HeadDropped(j)) \subseteq ResultsIn(j)
           /\ HeadDropped(j).slots = j.slots
           /\ HeadDropped(j).marker = j.marker
<1> DEFINE t == Tail(j.results)
           d == j.dropped + 1
<1>1. t \in Seq(Results) /\ {t[i] : i \in DOMAIN t} \subseteq ResultsIn(j)
  BY TailType
<1>2. /\ d \in Nat
      /\ j.marker \in Markers \cup {None}
      /\ j.slots \in [Schedules -> 0..MaxTime]
  BY JournalParts
<1>3. HeadDropped(j) = [j EXCEPT !.results = t, !.dropped = d]
  BY DEF HeadDropped
<1> HIDE DEF t, d
<1>4. HeadDropped(j) = [results |-> t, dropped |-> d, marker |-> j.marker, slots |-> j.slots]
  BY <1>3 DEF Journals
<1>5. HeadDropped(j) \in Journals
  BY <1>1, <1>2, <1>4 DEF Journals
<1>6. ResultsIn(HeadDropped(j)) = {t[i] : i \in DOMAIN t}
  BY <1>4 DEF ResultsIn
<1> QED
  BY <1>1, <1>4, <1>5, <1>6

(* What is stored fits, or nothing is left.                                *)
LEMMA StoredFits ==
    ASSUME NEW j \in Journals
    PROVE  Stored(j).results = <<>> \/ Fits(Stored(j).results, Stored(j).marker)
<1> DEFINE n == Evicted(j)
           w == WithoutOldest(j.results, n)
<1>1. n \in 0..Len(j.results) /\ (n = Len(j.results) \/ Fits(w, j.marker))
  BY EvictedRange
<1>2. w \in Seq(Results) /\ Len(w) = Len(j.results) - n /\ Len(j.results) \in Nat
  BY <1>1, SuffixType, JournalParts
<1>3. Stored(j).results = w /\ Stored(j).marker = j.marker
  <2>1. Stored(j) = [j EXCEPT !.results = w, !.dropped = @ + n]
    BY DEF Stored
  <2> HIDE DEF w, n
  <2> QED BY <2>1 DEF Journals
<1> HIDE DEF w
<1>4. n = Len(j.results) => w = <<>>
  <2>1. n = Len(j.results) => Len(w) = 0
    BY <1>2
  <2> QED BY <1>2, <2>1, EmptySeq
<1> QED BY <1>1, <1>3, <1>4

(* What fits goes on to fit when the oldest entry is gone.                 *)
LEMMA TailFits ==
    ASSUME NEW j \in Journals, j.results # <<>>, Fits(j.results, j.marker)
    PROVE  Fits(Tail(j.results), j.marker)
<1> DEFINE rs == j.results
           t == Tail(rs)
           N == Len(rs) - 1
           f == [i \in DOMAIN rs |-> Size[rs[i].key]]
           g == [i \in DOMAIN t |-> Size[t[i].key]]
           mark == IF j.marker = None THEN 0 ELSE Size[j.marker.key]
<1>1. /\ t \in Seq(Results) /\ Len(t) = N
      /\ \A i \in 1..N : t[i] = rs[i + 1]
      /\ Len(rs) \in Nat \ {0} /\ DOMAIN rs = 1..Len(rs) /\ rs \in Seq(Results)
  BY JournalParts, HeadTailProperties, EmptySeq
<1>2. DOMAIN t = 1..N /\ N \in Nat /\ N + 1 = Len(rs)
  BY <1>1, LenProperties
<1>3. \A i \in 1..(N + 1) : f[i] \in Nat
  <2>1. \A i \in 1..Len(rs) : rs[i] \in Results
    BY <1>1, ElementOfSeq
  <2>2. \A i \in 1..Len(rs) : Size[rs[i].key] \in Nat
    BY <2>1, SizeAssumption DEF Results
  <2> HIDE DEF rs
  <2> QED BY <1>1, <1>2, <2>2
<1>4. \A i \in 1..N : g[i] = f[i + 1]
  <2> HIDE DEF rs, t, N
  <2>1. \A i \in 1..N : i + 1 \in 1..Len(rs)
    BY <1>2
  <2> QED BY <1>1, <1>2, <2>1
<1>5. SumFunction(f) = SumFunctionOnSet(f, 1..(N + 1)) /\ SumFunction(g) = SumFunctionOnSet(g, 1..N)
  <2>1. DOMAIN f = 1..(N + 1) /\ DOMAIN g = 1..N
    BY <1>1, <1>2
  <2> HIDE DEF f, g
  <2> QED BY <2>1 DEF SumFunction
<1>6. mark \in Nat
  BY JournalParts, SizeAssumption DEF Markers
<1>7. Bytes(rs, j.marker) = SumFunction(f) + mark /\ Bytes(t, j.marker) = SumFunction(g) + mark
  BY DEF Bytes
<1>8. Len(rs) <= MaxResults /\ Bytes(rs, j.marker) <= JournalMax
  BY DEF Fits
<1> HIDE DEF rs, t, f, g, mark, N
<1>9. SumFunction(g) <= SumFunction(f)
  BY <1>2, <1>3, <1>4, <1>5, SumOfTail
<1>10. SumFunction(g) \in Nat /\ SumFunction(f) \in Nat
  <2>1. IsFiniteSet(1..(N + 1)) /\ IsFiniteSet(1..N)
    BY <1>2, FS_Interval
  <2>2. \A i \in 1..N : i + 1 \in 1..(N + 1)
    BY <1>2
  <2> QED BY <1>3, <1>4, <1>5, <2>1, <2>2, SumIsNatural
<1>11. Bytes(t, j.marker) <= JournalMax
  BY <1>6, <1>7, <1>8, <1>9, <1>10, BoundsAssumption
<1>12. Len(t) <= MaxResults
  BY <1>1, <1>2, <1>8, BoundsAssumption
<1> QED BY <1>11, <1>12 DEF Fits, t, rs

(* So giving the oldest entry up evicts no other one.                      *)
LEMMA NothingMoreEvicted ==
    ASSUME NEW j \in Journals, j.results # <<>>, Fits(j.results, j.marker)
    PROVE  Stored(HeadDropped(j)).results = Tail(j.results)
<1> DEFINE d == HeadDropped(j)
           t == Tail(j.results)
<1>1. d \in Journals /\ d.marker = j.marker
  BY HeadDroppedType
<1>2. d.results = t
  BY DEF HeadDropped, Journals
<1>3. Fits(t, d.marker)
  BY <1>1, TailFits
<1>4. t \in Seq(Results)
  BY TailType
<1> HIDE DEF d, t
<1>5. WithoutOldest(t, 0) = t
  <2>1. SubSeq(t, 1, Len(t)) = t
    BY <1>4
  <2> QED BY <2>1 DEF WithoutOldest
<1>6. Evicted(d) = 0
  <2>1. Evicted(d) \in Nat /\ \A m \in 0..(Evicted(d) - 1) : ~ Fits(WithoutOldest(t, m), d.marker)
    BY <1>1, <1>2, EvictedRange, JournalParts
  <2>2. Evicted(d) # 0 => 0 \in 0..(Evicted(d) - 1)
    BY <2>1
  <2> QED BY <1>3, <1>5, <2>1, <2>2
<1>7. Stored(d).results = WithoutOldest(d.results, 0)
  BY <1>1, <1>6 DEF Stored, Journals
<1> QED BY <1>2, <1>5, <1>7 DEF d, t

-----------------------------------------------------------------------------
(* The outbox: who holds a run, and what its results say.                  *)

(* The marker "started" is in memory and in the file from before the       *)
(* process to after it.                                                    *)
StartedInv ==
    \A w \in Workers :
        worker[w].pc \in {"prepared", "running"} /\ ~ dead =>
            /\ mem.marker = [key |-> worker[w].key, phase |-> "started"]
            /\ disk.marker = mem.marker

(* What a journal, or the box, remembers of a run.                         *)
Used(j, k) == IF k \in SlotKeys THEN j.slots[k.name] >= k.at ELSE k \in handed

-----------------------------------------------------------------------------
(* Type correctness.                                                       *)

(* A successful save leaves well-typed copies of the journal.              *)
LEMMA SavesType ==
    ASSUME TypeOK, NEW j \in Journals, Saves(j)
    PROVE  mem' \in Journals /\ disk' \in Journals /\ dead' \in BOOLEAN /\ faults' \in Nat
BY StoredType DEF Saves, TypeOK

(* So does a failing one, whichever file it leaves behind.                 *)
LEMMA SaveFailsType ==
    ASSUME TypeOK, NEW j \in Journals, SaveFails(j)
    PROVE  mem' \in Journals /\ disk' \in Journals /\ dead' \in BOOLEAN /\ faults' \in Nat
BY StoredType DEF SaveFails, TypeOK

(* What a goroutine does next is one of the four kinds of work.            *)
LEMMA NowType ==
    ASSUME TypeOK, NEW w \in Workers, NEW pc, NEW k \in Keys, NEW end,
           Now(w, pc, k, end),
           \/ pc \in {"claimed", "prepared", "running"} /\ end = None
           \/ pc = "ended" /\ end \in Ends
    PROVE  worker' \in [Workers -> Busy \cup {Idle}]
<1>1. [pc |-> pc, key |-> k, end |-> end] \in Busy
  BY DEF Busy
<1> QED
  BY <1>1 DEF Now, TypeOK

LEMMA RestsType ==
    ASSUME TypeOK, NEW w \in Workers, Rests(w)
    PROVE  worker' \in [Workers -> Busy \cup {Idle}]
BY DEF Rests, TypeOK

(* A goroutine that is not idle holds a run; one that has ended, an end.   *)
LEMMA BusyWorker ==
    ASSUME TypeOK, NEW w \in Workers, worker[w].pc # "idle"
    PROVE  /\ worker[w].key \in Keys
           /\ worker[w].pc = "ended" => worker[w].end \in Ends
           /\ worker[w].pc # "ended" => worker[w].end = None
BY DEF TypeOK, Busy, Idle

LEMMA ResultType ==
    ASSUME NEW k \in Keys, NEW end \in Ends
    PROVE  Result(k, end) \in Results
BY DEF Result, Results

(* Every step keeps the type invariant.                                    *)
LEMMA TypeStep ==
    ASSUME TypeOK, [Next]_vars
    PROVE  TypeOK'
<1> USE DEF journalVars, boxVars, historyVars
<1>1. ASSUME NEW s \in Schedules, NEW t \in 1..MaxTime, ReserveRun(s, t)
      PROVE  TypeOK'
  <2> DEFINE j == Reserved(mem, s, t)
             k == Key("slot", s, t)
  <2>1. k \in Keys
    BY DEF Keys, SlotKeys
  <2>2. mem \in Journals
    BY DEF TypeOK
  <2>3. j \in Journals
    BY <2>2, ReservedType
  <2>4. mem' \in Journals /\ disk' \in Journals /\ dead' \in BOOLEAN /\ faults' \in Nat
    BY <1>1, <2>3, SavesType, SaveFailsType DEF ReserveRun
  <2>5. worker' \in [Workers -> Busy \cup {Idle}]
    <3>1. CASE Now("loop", "claimed", k, None)
      BY <2>1, <3>1, NowType DEF Workers
    <3>2. CASE UNCHANGED worker
      BY <3>2 DEF TypeOK
    <3> QED BY <1>1, <3>1, <3>2 DEF ReserveRun
  <2> QED
    BY <1>1, <2>4, <2>5 DEF ReserveRun, TypeOK
<1>2. ASSUME NEW k \in JobKeys, ClaimJob(k)
      PROVE  TypeOK'
  <2> DEFINE j == Marked(mem, k, "claimed")
  <2>1. j \in Journals /\ k \in Keys
    BY MarkedType DEF TypeOK, Keys
  <2>2. mem' \in Journals /\ disk' \in Journals /\ dead' \in BOOLEAN /\ faults' \in Nat
    <3>1. CASE UNCHANGED journalVars
      BY <3>1 DEF TypeOK
    <3>2. CASE Saves(j)
      BY <2>1, <3>2, SavesType
    <3>3. CASE SaveFails(j)
      BY <2>1, <3>3, SaveFailsType
    <3> QED BY <1>2, <3>1, <3>2, <3>3 DEF ClaimJob
  <2>3. worker' \in [Workers -> Busy \cup {Idle}]
    <3>1. CASE Now("loop", "claimed", k, None)
      BY <2>1, <3>1, NowType DEF Workers
    <3>2. CASE UNCHANGED worker
      BY <3>2 DEF TypeOK
    <3> QED BY <1>2, <3>1, <3>2 DEF ClaimJob
  <2>4. handed' \subseteq Keys
    BY <1>2, <2>1 DEF ClaimJob, TypeOK
  <2> QED
    BY <1>2, <2>2, <2>3, <2>4 DEF ClaimJob, TypeOK
<1>3. ASSUME NEW k \in SetupKeys, StartPanelSetup(k)
      PROVE  TypeOK'
  <2>1. k \in Keys
    BY DEF Keys
  <2>2. worker' \in [Workers -> Busy \cup {Idle}]
    BY <1>3, <2>1, NowType DEF StartPanelSetup, Workers
  <2>3. handed' \subseteq Keys
    BY <1>3, <2>1 DEF StartPanelSetup, TypeOK
  <2> QED
    BY <1>3, <2>2, <2>3 DEF StartPanelSetup, TypeOK
<1>4. ASSUME NEW w \in Workers, NEW end \in Ends, EndEarly(w, end)
      PROVE  TypeOK'
  <2>1. worker' \in [Workers -> Busy \cup {Idle}]
    BY <1>4, BusyWorker, NowType DEF EndEarly
  <2> QED
    BY <1>4, <2>1 DEF EndEarly, TypeOK
<1>5. CASE Abandon
  <2>1. worker' \in [Workers -> Busy \cup {Idle}]
    BY <1>5, RestsType DEF Abandon, Workers
  <2> QED
    BY <1>5, <2>1 DEF Abandon, TypeOK
<1>6. ASSUME NEW w \in Workers, MarkStarted(w)
      PROVE  TypeOK'
  <2> DEFINE k == worker[w].key
             j == Marked(mem, k, "started")
  <2>1. k \in Keys
    BY <1>6, BusyWorker DEF MarkStarted
  <2>2. j \in Journals
    BY <2>1, MarkedType DEF TypeOK
  <2>3. mem' \in Journals /\ disk' \in Journals /\ dead' \in BOOLEAN /\ faults' \in Nat
    <3>1. CASE UNCHANGED journalVars
      BY <3>1 DEF TypeOK
    <3>2. CASE Saves(j)
      BY <2>2, <3>2, SavesType
    <3>3. CASE SaveFails(j)
      BY <2>2, <3>3, SaveFailsType
    <3> QED BY <1>6, <3>1, <3>2, <3>3 DEF MarkStarted
  <2>4. worker' \in [Workers -> Busy \cup {Idle}]
    <3>1. CASE Now(w, "prepared", k, None)
      BY <2>1, <3>1, NowType
    <3>2. CASE Now(w, "ended", k, "finished")
      BY <2>1, <3>2, NowType DEF Ends
    <3> QED BY <1>6, <3>1, <3>2 DEF MarkStarted
  <2> QED
    BY <1>6, <2>3, <2>4 DEF MarkStarted, TypeOK
<1>7. ASSUME NEW w \in Workers, Spawn(w)
      PROVE  TypeOK'
  <2>1. worker[w].key \in Keys
    BY <1>7, BusyWorker DEF Spawn
  <2>2. worker' \in [Workers -> Busy \cup {Idle}]
    BY <1>7, <2>1, NowType DEF Spawn
  <2>3. spawned' \in [Keys -> Nat]
    BY <1>7, <2>1 DEF Spawn, TypeOK
  <2> QED
    BY <1>7, <2>2, <2>3 DEF Spawn, TypeOK
<1>8. ASSUME NEW w \in Workers, ProcessEnds(w)
      PROVE  TypeOK'
  <2>1. worker' \in [Workers -> Busy \cup {Idle}]
    BY <1>8, BusyWorker, NowType DEF ProcessEnds, Ends
  <2> QED
    BY <1>8, <2>1 DEF ProcessEnds, TypeOK
<1>9. ASSUME NEW w \in Workers, Report(w)
      PROVE  TypeOK'
  <2> DEFINE k == worker[w].key
             j == Appended(mem, Result(k, worker[w].end))
  <2>1. k \in Keys /\ worker[w].end \in Ends
    BY <1>9, BusyWorker DEF Report
  <2>2. j \in Journals
    BY <2>1, ResultType, AppendedType DEF TypeOK
  <2>3. mem' \in Journals /\ disk' \in Journals /\ dead' \in BOOLEAN /\ faults' \in Nat
    <3>1. CASE UNCHANGED journalVars
      BY <3>1 DEF TypeOK
    <3>2. CASE Saves(j)
      BY <2>2, <3>2, SavesType
    <3>3. CASE SaveFails(j)
      BY <2>2, <3>3, SaveFailsType
    <3> QED BY <1>9, <3>1, <3>2, <3>3 DEF Report
  <2>4. worker' \in [Workers -> Busy \cup {Idle}]
    BY <1>9, RestsType DEF Report
  <2>5. reported' \subseteq Keys
    BY <1>9, <2>1 DEF Report, TypeOK
  <2> QED
    BY <1>9, <2>3, <2>4, <2>5 DEF Report, TypeOK
<1>10. CASE DeliverOne
  <2>1. Head(mem.results) \in Results
    BY <1>10, TailType, JournalParts DEF DeliverOne, TypeOK
  <2> QED
    BY <1>10, <2>1 DEF DeliverOne, TypeOK
<1>11. ASSUME NEW r \in Results, CoreAnswer(r)
       PROVE  TypeOK'
  <2>1. PICK answer \in {"204", "400", "409", "401"} :
          /\ core' = IF answer = "204" THEN [core EXCEPT ![r.key] = r] ELSE core
          /\ refusals' = IF answer = "400" /\ refusals[r.key] < RejectLimit
                           THEN [refusals EXCEPT ![r.key] = @ + 1] ELSE refusals
          /\ reply' = IF sending = r /\ reply = None THEN answer ELSE reply
    BY <1>11 DEF CoreAnswer
  <2>2. core' \in [Keys -> Results \cup {None}]
    BY <2>1 DEF TypeOK, Results
  <2>3. refusals' \in [Keys -> Nat]
    BY <2>1 DEF TypeOK, Results
  <2>4. reply' \in {"204", "400", "409", "401", "timeout", None}
    BY <2>1 DEF TypeOK
  <2> QED
    BY <1>11, <2>2, <2>3, <2>4 DEF CoreAnswer, TypeOK
<1>12. CASE Timeout
  BY <1>12 DEF Timeout, TypeOK
<1>13. CASE Confirmed
  <2>1. HeadRemoved(mem, sending) \in Journals
    BY HeadRemovedType DEF TypeOK
  <2>2. mem' \in Journals /\ disk' \in Journals /\ dead' \in BOOLEAN /\ faults' \in Nat
    <3>1. CASE UNCHANGED journalVars
      BY <3>1 DEF TypeOK
    <3> QED BY <1>13, <2>1, <3>1, SavesType, SaveFailsType DEF Confirmed
  <2>3. reject' \in [res : Results \cup {None}, n : Nat]
    BY <1>13 DEF Confirmed, TypeOK, NoReject
  <2> QED
    BY <1>13, <2>2, <2>3 DEF Confirmed, Sent, TypeOK
<1>14. CASE Rejected
  <2>1. Counted(sending) \in [res : Results \cup {None}, n : Nat]
    BY DEF Counted, TypeOK
  <2>2. reject' \in [res : Results \cup {None}, n : Nat]
    BY <1>14, <2>1 DEF Rejected, TypeOK, NoReject
  <2>3. mem' \in Journals /\ disk' \in Journals /\ dead' \in BOOLEAN /\ faults' \in Nat
    <3>1. CASE UNCHANGED journalVars
      BY <3>1 DEF TypeOK
    <3>2. CASE IsHead(mem, sending) /\ (Saves(HeadDropped(mem)) \/ SaveFails(HeadDropped(mem)))
      <4>1. HeadDropped(mem) \in Journals
        BY <3>2, HeadDroppedType DEF IsHead, TypeOK
      <4> QED BY <3>2, <4>1, SavesType, SaveFailsType
    <3> QED BY <1>14, <3>1, <3>2 DEF Rejected
  <2> QED
    BY <1>14, <2>2, <2>3 DEF Rejected, Sent, TypeOK
<1>15. CASE NotDelivered
  BY <1>15 DEF NotDelivered, Sent, NoReject, TypeOK
<1>16. CASE CoreRevokes
  BY <1>16 DEF CoreRevokes, TypeOK
<1>17. CASE Revoke
  <2>1. worker' \in [Workers -> Busy \cup {Idle}]
    <3>1. ASSUME NEW x \in Busy \cup {Idle}
          PROVE  Killed(x) \in Busy \cup {Idle}
      <4>1. CASE x.pc = "running"
        <5>1. x \in [pc : {"claimed", "prepared", "running"}, key : Keys, end : {None}]
          BY <4>1 DEF Busy, Idle
        <5>2. Killed(x) = [pc |-> "ended", key |-> x.key, end |-> "finished"]
          BY <4>1, <5>1 DEF Killed
        <5> QED BY <5>1, <5>2 DEF Busy, Ends
      <4>2. CASE x.pc # "running"
        BY <4>2 DEF Killed
      <4> QED BY <4>1, <4>2
    <3> QED BY <1>17, <3>1 DEF Revoke, TypeOK
  <2>2. mem' \in Journals /\ disk' \in Journals
    BY <1>17, EmptyType DEF Revoke, TypeOK
  <2> QED
    <3>1. faults' \in Nat
      BY <1>17 DEF Revoke, TypeOK
    <3>2. credential' \in BOOLEAN /\ dead' \in BOOLEAN
      BY <1>17, Zenon DEF Revoke
    <3>3. UNCHANGED <<phase, sending, reject, boxVars, handed, historyVars, crashes, outages>>
      BY <1>17 DEF Revoke
    <3> QED BY <2>1, <2>2, <3>1, <3>2, <3>3 DEF TypeOK
<1>18. ASSUME Gone, crashes' \in Nat, UNCHANGED faults
       PROVE  TypeOK'
  BY <1>18, EmptyType DEF Gone, TypeOK, NoReject
<1>19. CASE OpenState
  BY <1>19 DEF OpenState, TypeOK
<1>20. CASE Recover
  <2> DEFINE k == mem.marker.key
             j == Appended(mem, Result(k, "interrupted"))
  <2>1. CASE mem.marker = None
    BY <1>20, <2>1 DEF Recover, TypeOK
  <2>2. CASE mem.marker # None
    <3>1. k \in Keys
      BY <2>2, JournalParts DEF TypeOK, Markers
    <3>2. j \in Journals
      BY <3>1, ResultType, AppendedType DEF TypeOK, Ends
    <3>3. mem' \in Journals /\ disk' \in Journals /\ dead' \in BOOLEAN /\ faults' \in Nat
      <4>1. CASE Saves(j)
        BY <3>2, <4>1, SavesType
      <4>2. CASE faults' = faults + 1 /\ disk' \in {disk, Stored(j)} /\ mem' = Empty
                 /\ UNCHANGED dead
        BY <3>2, <4>2, StoredType, EmptyType DEF TypeOK
      <4> QED BY <1>20, <2>2, <4>1, <4>2 DEF Recover
    <3>4. reported' \subseteq Keys /\ phase' \in {"off", "boot", "on"}
      BY <1>20, <2>2, <3>1 DEF Recover, TypeOK
    <3> QED BY <1>20, <2>2, <3>3, <3>4 DEF Recover, TypeOK
  <2> QED BY <2>1, <2>2
<1>21. CASE UNCHANGED vars
  BY <1>21 DEF vars, TypeOK
<1>22. CASE Crash \/ Quit
  BY <1>18, <1>22 DEF Crash, Quit, TypeOK
<1> QED
  BY <1>1, <1>2, <1>3, <1>4, <1>5, <1>6, <1>7, <1>8, <1>9, <1>10, <1>11, <1>12,
     <1>13, <1>14, <1>15, <1>16, <1>17, <1>19, <1>20, <1>21, <1>22 DEF Next

(* The state of a device that has just been paired.                        *)
LEMMA TypeInit == Init => TypeOK
<1> SUFFICES ASSUME Init PROVE TypeOK
  OBVIOUS
<1>1. mem \in Journals /\ disk \in Journals
  BY EmptyType DEF Init
<1>2. core \in [Keys -> Results \cup {None}] /\ refusals \in [Keys -> Nat]
  BY DEF Init
<1>3. spawned \in [Keys -> Nat] /\ worker \in [Workers -> Busy \cup {Idle}]
  BY DEF Init
<1>4. reject \in [res : Results \cup {None}, n : Nat]
  BY DEF Init, NoReject
<1> QED
  BY <1>1, <1>2, <1>3, <1>4 DEF Init, TypeOK

(* In every reachable state the runner's memory and file, the goroutines,  *)
(* the requests and the box have the shape the code gives them.            *)
THEOREM TypeCorrect == Spec => []TypeOK
BY TypeInit, TypeStep, PTL DEF Spec

-----------------------------------------------------------------------------
(* The part of the invariant that does not depend on who has been revoked: *)
(* where the marker is while a process runs, which copy of the slots is    *)
(* ahead, and when the credential is there.                                *)

(* The two goroutines never have a run at the same time.                   *)
LoneInv == /\ worker["loop"].pc = "idle" \/ worker["panel"].pc = "idle"
           /\ phase # "on" => \A w \in Workers : worker[w].pc = "idle"

(* A failed save can leave the file ahead of the memory, never behind.     *)
SlotInv == phase # "off" /\ ~ dead => \A s \in Schedules : mem.slots[s] <= disk.slots[s]

CredentialInv == /\ phase = "boot" => ~ dead
                 /\ phase # "off" /\ ~ dead => credential

CoreInv == TypeOK /\ LoneInv /\ StartedInv /\ SlotInv /\ CredentialInv

(* What a save does to the parts of the journal that admission looks at.   *)
LEMMA SavesEffect ==
    ASSUME NEW j \in Journals, Saves(j)
    PROVE  /\ mem'.marker = j.marker /\ disk'.marker = j.marker
           /\ mem'.slots = j.slots /\ disk'.slots = j.slots
           /\ dead' = dead
BY StoredType DEF Saves

LEMMA SaveFailsEffect ==
    ASSUME NEW j \in Journals, SaveFails(j)
    PROVE  /\ mem' = mem
           /\ disk'.marker \in {disk.marker, j.marker}
           /\ disk'.slots \in {disk.slots, j.slots}
           /\ dead' = dead
BY StoredType DEF SaveFails

(* The runner's own writes keep the order of the two copies of the slots.  *)
LEMMA SlotsAfterWrite ==
    ASSUME CoreInv, phase # "off", ~ dead, NEW j \in Journals, Saves(j) \/ SaveFails(j),
           \A s \in Schedules : j.slots[s] >= mem.slots[s]
    PROVE  /\ \A s \in Schedules : mem'.slots[s] <= disk'.slots[s]
           /\ \A s \in Schedules : mem'.slots[s] >= mem.slots[s]
           /\ \A s \in Schedules : disk'.slots[s] >= mem.slots[s]
<1>1. /\ mem.slots \in [Schedules -> Nat]
      /\ disk.slots \in [Schedules -> Nat]
      /\ j.slots \in [Schedules -> Nat]
  BY JournalParts, BoundsAssumption DEF CoreInv, TypeOK
<1>2. \A s \in Schedules : mem.slots[s] <= disk.slots[s]
  BY DEF CoreInv, SlotInv
<1>3. CASE Saves(j)
  BY <1>1, <1>3, SavesEffect
<1>4. CASE SaveFails(j)
  BY <1>1, <1>2, <1>4, SaveFailsEffect
<1> QED
  BY <1>3, <1>4

(* While one goroutine has a run, the other has none.                      *)
LEMMA Alone ==
    ASSUME LoneInv, NEW w \in Workers, worker[w].pc # "idle", NEW v \in Workers, v # w
    PROVE  worker[v].pc = "idle"
BY DEF LoneInv, Workers

(* A step of the goroutine that has the run leaves the other one idle.     *)
LEMMA NowAfter ==
    ASSUME TypeOK, NEW w \in Workers, NEW pc, NEW k, NEW end, Now(w, pc, k, end)
    PROVE  /\ worker'[w] = [pc |-> pc, key |-> k, end |-> end]
           /\ \A v \in Workers : v # w => worker'[v] = worker[v]
BY DEF Now, TypeOK

LEMMA RestsAfter ==
    ASSUME TypeOK, NEW w \in Workers, Rests(w)
    PROVE  /\ worker'[w].pc = "idle"
           /\ \A v \in Workers : v # w => worker'[v] = worker[v]
BY DEF Rests, TypeOK, Idle

(* Every step keeps it.  TypeOK' is TypeStep; the other parts follow from  *)
(* what each action does to the goroutines and to the journal.             *)
LEMMA CoreStep ==
    ASSUME CoreInv, [Next]_vars
    PROVE  CoreInv'
<1> USE DEF journalVars, boxVars, historyVars
<1> DEFINE Rest == LoneInv' /\ StartedInv' /\ SlotInv' /\ CredentialInv'
<1> SUFFICES Rest
  BY TypeStep DEF CoreInv
<1>t. TypeOK /\ mem \in Journals /\ disk \in Journals
  BY DEF CoreInv, TypeOK
<1>a. LoneInv /\ StartedInv /\ SlotInv /\ CredentialInv
  BY DEF CoreInv
<1>1. ASSUME NEW s \in Schedules, NEW t \in 1..MaxTime, ReserveRun(s, t)
      PROVE  Rest
  <2> DEFINE j == Reserved(mem, s, t)
             k == Key("slot", s, t)
  <2>1. j \in Journals /\ mem.slots \in [Schedules -> 0..MaxTime]
    BY <1>t, ReservedType, JournalParts
  <2>2. \A u \in Schedules : j.slots[u] >= mem.slots[u]
    <3>1. mem.slots[s] < t
      BY <1>1 DEF ReserveRun, MayReserve
    <3>2. \A u \in Schedules : j.slots[u] = IF u = s THEN t ELSE mem.slots[u]
      BY <1>t, <2>1 DEF Reserved, Journals
    <3> QED BY <2>1, <3>1, <3>2, BoundsAssumption
  <2>3. phase = "on" /\ phase' = phase /\ ~ dead /\ dead' = dead /\ credential' = credential
    BY <1>1, <2>1, SavesEffect, SaveFailsEffect DEF ReserveRun
  <2>4. SlotInv'
    BY <1>1, <2>1, <2>2, <2>3, SlotsAfterWrite DEF ReserveRun, SlotInv
  <2>5. /\ worker'["loop"].pc \in {"idle", "claimed"}
        /\ worker'["panel"].pc = "idle"
    <3>1. CASE Now("loop", "claimed", k, None)
      BY <1>1, <1>t, <3>1 DEF ReserveRun, PanelFree, Workers, Now, TypeOK
    <3>2. CASE UNCHANGED worker
      BY <1>1, <3>2 DEF ReserveRun, PanelFree, LoopFree
    <3> QED BY <1>1, <3>1, <3>2 DEF ReserveRun
  <2> QED
    BY <1>a, <2>3, <2>4, <2>5 DEF LoneInv, StartedInv, CredentialInv, Workers
<1>2. ASSUME NEW k \in JobKeys, ClaimJob(k)
      PROVE  Rest
  <2> DEFINE j == Marked(mem, k, "claimed")
  <2>1. j \in Journals /\ j.slots = mem.slots
    BY <1>t, MarkedType DEF Keys
  <2>2. \A u \in Schedules : j.slots[u] >= mem.slots[u]
    <3>1. mem.slots \in [Schedules -> 0..MaxTime]
      BY <1>t, JournalParts
    <3> QED BY <2>1, <3>1, BoundsAssumption
  <2>3. CASE UNCHANGED <<journalVars, worker>>
    BY <1>2, <1>a, <2>3 DEF ClaimJob, LoneInv, StartedInv, SlotInv, CredentialInv
  <2>4. CASE PanelFree /\ (Saves(j) \/ SaveFails(j))
                /\ (Now("loop", "claimed", k, None) \/ UNCHANGED worker)
    <3>1. phase = "on" /\ phase' = phase /\ ~ dead /\ dead' = dead /\ credential' = credential
      BY <1>2, <2>1, <2>4, SavesEffect, SaveFailsEffect DEF ClaimJob
    <3>2. SlotInv'
      BY <2>1, <2>2, <2>4, <3>1, SlotsAfterWrite DEF SlotInv
    <3>3. /\ worker'["loop"].pc \in {"idle", "claimed"}
          /\ worker'["panel"].pc = "idle"
      <4>1. CASE Now("loop", "claimed", k, None)
        BY <1>t, <2>4, <4>1 DEF PanelFree, Workers, Now, TypeOK
      <4>2. CASE UNCHANGED worker
        BY <1>2, <2>4, <4>2 DEF ClaimJob, PanelFree, LoopFree
      <4> QED BY <2>4, <4>1, <4>2
    <3> QED
      BY <1>a, <3>1, <3>2, <3>3 DEF LoneInv, StartedInv, CredentialInv, Workers
  <2> QED
    BY <1>2, <2>3, <2>4 DEF ClaimJob
<1>3. ASSUME NEW k \in SetupKeys, StartPanelSetup(k)
      PROVE  Rest
  <2>1. worker'["panel"].pc = "claimed" /\ worker'["loop"].pc = "idle"
    BY <1>3, <1>t DEF StartPanelSetup, Now, Workers, TypeOK
  <2> QED
    BY <1>3, <1>a, <2>1
       DEF StartPanelSetup, LoneInv, StartedInv, SlotInv, CredentialInv, Workers
(* The goroutine w goes on with its run; no journal call is made.          *)
<1>4. ASSUME NEW w \in Workers, worker[w].pc # "idle", phase = "on",
             NEW pc, NEW k, NEW end, Now(w, pc, k, end) \/ Rests(w),
             pc = "running" => k = worker[w].key /\ worker[w].pc = "prepared",
             pc # "prepared",
             UNCHANGED <<phase, mem, disk, dead, credential>>
      PROVE  Rest
  <2>1. \A v \in Workers : v # w => worker'[v] = worker[v] /\ worker[v].pc = "idle"
    BY <1>4, <1>t, <1>a, Alone, NowAfter, RestsAfter
  <2>2. LoneInv'
    BY <1>4, <2>1 DEF LoneInv, Workers
  <2>3. \/ worker'[w].pc = "idle"
        \/ worker'[w].pc = pc /\ worker'[w].key = k
    BY <1>4, <1>t DEF Now, Rests, Idle, TypeOK
  <2>4. StartedInv'
    <3> SUFFICES ASSUME NEW v \in Workers, worker'[v].pc \in {"prepared", "running"}, ~ dead'
                 PROVE  /\ mem'.marker = [key |-> worker'[v].key, phase |-> "started"]
                        /\ disk'.marker = mem'.marker
      BY DEF StartedInv
    <3>1. v = w
      BY <2>1
    <3>2. worker'[w].key = worker[w].key /\ worker[w].pc = "prepared"
      BY <1>4, <2>3, <3>1
    <3> QED BY <1>4, <1>a, <3>1, <3>2 DEF StartedInv
  <2> QED
    BY <1>4, <1>a, <2>2, <2>4 DEF SlotInv, CredentialInv
<1>5. ASSUME NEW w \in Workers, NEW end \in Ends, EndEarly(w, end)
      PROVE  Rest
  <2>1. Now(w, "ended", worker[w].key, end) /\ worker[w].pc # "idle" /\ phase = "on"
    BY <1>5 DEF EndEarly
  <2>2. UNCHANGED <<phase, mem, disk, dead, credential>>
    BY <1>5 DEF EndEarly
  <2> QED BY <2>1, <2>2, <1>4
<1>6. CASE Abandon
  <2>1. Rests("loop") /\ worker["loop"].pc # "idle" /\ phase = "on"
    BY <1>6 DEF Abandon
  <2>2. UNCHANGED <<phase, mem, disk, dead, credential>>
    BY <1>6 DEF Abandon
  <2>3. "loop" \in Workers
    BY DEF Workers
  <2> QED BY <2>1, <2>2, <2>3, <1>4
<1>7. ASSUME NEW w \in Workers, MarkStarted(w)
      PROVE  Rest
  <2> DEFINE k == worker[w].key
             j == Marked(mem, k, "started")
  <2>1. k \in Keys /\ worker[w].pc # "idle" /\ phase = "on"
    BY <1>7, <1>t, BusyWorker DEF MarkStarted
  <2>2. j \in Journals /\ j.slots = mem.slots /\ j.marker = [key |-> k, phase |-> "started"]
    BY <1>t, <2>1, MarkedType
  <2>3. \A u \in Schedules : j.slots[u] >= mem.slots[u]
    <3>1. mem.slots \in [Schedules -> 0..MaxTime]
      BY <1>t, JournalParts
    <3> QED BY <2>2, <3>1, BoundsAssumption
  <2>4. CASE Now(w, "ended", k, "finished") /\ UNCHANGED journalVars
    <3>1. UNCHANGED <<phase, mem, disk, dead, credential>>
      BY <1>7, <2>4 DEF MarkStarted
    <3> QED BY <2>1, <2>4, <3>1, <1>4
  <2>5. CASE /\ ~ dead
             /\ \/ Saves(j) /\ Now(w, "prepared", k, None)
                \/ SaveFails(j) /\ Now(w, "ended", k, "finished")
    <3>1. phase' = phase /\ dead' = dead /\ credential' = credential
      BY <1>7, <2>2, <2>5, SavesEffect, SaveFailsEffect DEF MarkStarted
    <3>2. SlotInv'
      BY <2>1, <2>2, <2>3, <2>5, <3>1, SlotsAfterWrite DEF SlotInv
    <3>3. \A v \in Workers : v # w => worker'[v].pc = "idle"
      BY <2>1, <2>5, <1>t, <1>a, Alone, NowAfter
    <3>4. StartedInv'
      <4>1. CASE Saves(j) /\ Now(w, "prepared", k, None)
        <5>1. worker'[w] = [pc |-> "prepared", key |-> k, end |-> None]
          BY <4>1, <1>t DEF Now, TypeOK
        <5>2. mem'.marker = j.marker /\ disk'.marker = j.marker
          BY <4>1, <2>2, SavesEffect
        <5> QED BY <5>1, <5>2, <2>2, <3>3 DEF StartedInv
      <4>2. CASE Now(w, "ended", k, "finished")
        <5>1. worker'[w] = [pc |-> "ended", key |-> k, end |-> "finished"]
          BY <4>2, <1>t DEF Now, TypeOK
        <5> QED BY <5>1, <3>3 DEF StartedInv
      <4> QED BY <2>5, <4>1, <4>2
    <3>5. LoneInv'
      BY <2>1, <3>1, <3>3 DEF LoneInv, Workers
    <3> QED BY <1>a, <3>1, <3>2, <3>4, <3>5 DEF CredentialInv
  <2> QED
    BY <1>7, <2>4, <2>5 DEF MarkStarted
<1>8. ASSUME NEW w \in Workers, Spawn(w)
      PROVE  Rest
  <2>1. Now(w, "running", worker[w].key, None) /\ worker[w].pc = "prepared" /\ phase = "on"
    BY <1>8 DEF Spawn
  <2>2. UNCHANGED <<phase, mem, disk, dead, credential>>
    BY <1>8 DEF Spawn
  <2> QED BY <2>1, <2>2, <1>4
<1>9. ASSUME NEW w \in Workers, ProcessEnds(w)
      PROVE  Rest
  <2>1. Now(w, "ended", worker[w].key, "finished") /\ worker[w].pc # "idle" /\ phase = "on"
    BY <1>9 DEF ProcessEnds
  <2>2. UNCHANGED <<phase, mem, disk, dead, credential>>
    BY <1>9 DEF ProcessEnds
  <2> QED BY <2>1, <2>2, <1>4
<1>10. ASSUME NEW w \in Workers, Report(w)
       PROVE  Rest
  <2> DEFINE k == worker[w].key
             j == Appended(mem, Result(k, worker[w].end))
  <2>1. k \in Keys /\ worker[w].end \in Ends /\ worker[w].pc # "idle" /\ phase = "on"
    BY <1>10, <1>t, BusyWorker DEF Report
  <2>2. j \in Journals /\ j.slots = mem.slots
    BY <2>1, <1>t, ResultType, AppendedType
  <2>3. \A u \in Schedules : j.slots[u] >= mem.slots[u]
    <3>1. mem.slots \in [Schedules -> 0..MaxTime]
      BY <1>t, JournalParts
    <3> QED BY <2>2, <3>1, BoundsAssumption
  <2>4. CASE UNCHANGED journalVars
    <3>1. Rests(w) /\ UNCHANGED <<phase, mem, disk, dead, credential>>
      BY <1>10, <2>4 DEF Report
    <3> QED BY <2>1, <3>1, <1>4
  <2>5. CASE ~ dead /\ (Saves(j) \/ SaveFails(j))
    <3>1. phase' = phase /\ dead' = dead /\ credential' = credential
      BY <1>10, <2>2, <2>5, SavesEffect, SaveFailsEffect DEF Report
    <3>2. SlotInv'
      BY <2>1, <2>2, <2>3, <2>5, <3>1, SlotsAfterWrite DEF SlotInv
    <3>3. \A v \in Workers : worker'[v].pc = "idle"
      BY <1>10, <2>1, <1>t, <1>a, Alone, RestsAfter DEF Report
    <3> QED BY <1>a, <2>1, <3>1, <3>2, <3>3 DEF CredentialInv, StartedInv, LoneInv, Workers
  <2> QED
    BY <1>10, <2>4, <2>5 DEF Report
(* No goroutine moves; the oldest entry may go.                            *)
<1>11. ASSUME NEW j \in Journals, phase = "on", ~ dead, Saves(j) \/ SaveFails(j),
              j.marker = mem.marker, j.slots = mem.slots,
              UNCHANGED <<phase, worker, credential>>
       PROVE  Rest
  <2>1. \A u \in Schedules : j.slots[u] >= mem.slots[u]
    <3>1. mem.slots \in [Schedules -> 0..MaxTime]
      BY <1>t, JournalParts
    <3> QED BY <1>11, <3>1, BoundsAssumption
  <2>2. dead' = dead /\ SlotInv'
    BY <1>11, <2>1, SlotsAfterWrite, SavesEffect, SaveFailsEffect DEF SlotInv
  <2>3. /\ mem'.marker = mem.marker
        /\ disk.marker = mem.marker => disk'.marker = mem.marker
    BY <1>11, SavesEffect, SaveFailsEffect
  <2>4. StartedInv'
    BY <1>11, <1>a, <2>2, <2>3 DEF StartedInv
  <2> QED BY <1>11, <1>a, <2>2, <2>4 DEF LoneInv, CredentialInv
<1>12. ASSUME UNCHANGED <<phase, mem, disk, dead, worker, credential>>
       PROVE  Rest
  BY <1>12, <1>a DEF LoneInv, StartedInv, SlotInv, CredentialInv
<1>13. CASE Confirmed
  <2> DEFINE j == HeadRemoved(mem, sending)
  <2>1. j \in Journals /\ j.marker = mem.marker /\ j.slots = mem.slots
    BY <1>t, HeadRemovedType
  <2>2. phase = "on" /\ UNCHANGED <<phase, worker, credential>>
    BY <1>13 DEF Confirmed
  <2>3. CASE UNCHANGED journalVars
    BY <2>2, <2>3, <1>12
  <2>4. CASE ~ dead /\ (Saves(j) \/ SaveFails(j))
    <3> HIDE DEF j
    <3> QED BY <2>1, <2>2, <2>4, <1>11
  <2> QED BY <1>13, <2>3, <2>4 DEF Confirmed
<1>14. CASE Rejected
  <2> DEFINE j == HeadDropped(mem)
  <2>1. phase = "on" /\ UNCHANGED <<phase, worker, credential>>
    BY <1>14 DEF Rejected
  <2>2. CASE UNCHANGED journalVars
    BY <2>1, <2>2, <1>12
  <2>3. CASE ~ dead /\ IsHead(mem, sending) /\ (Saves(j) \/ SaveFails(j))
    <3>1. j \in Journals /\ j.marker = mem.marker /\ j.slots = mem.slots
      BY <1>t, <2>3, HeadDroppedType DEF IsHead
    <3> HIDE DEF j
    <3> QED BY <2>1, <2>3, <3>1, <1>11
  <2> QED BY <1>14, <2>2, <2>3 DEF Rejected
<1>15. CASE \/ DeliverOne \/ Timeout \/ NotDelivered \/ CoreRevokes \/ UNCHANGED vars
            \/ \E r \in Results : CoreAnswer(r)
  <2>1. UNCHANGED <<phase, mem, disk, dead, worker, credential>>
    BY <1>15 DEF DeliverOne, Timeout, NotDelivered, CoreRevokes, CoreAnswer, vars
  <2> QED BY <2>1, <1>12
<1>16. CASE Revoke
  <2>1. dead' /\ phase = "on" /\ phase' = phase
    BY <1>16 DEF Revoke
  <2>2. \A w \in Workers : worker[w].pc = "idle" => worker'[w].pc = "idle"
    BY <1>16 DEF Revoke, Killed
  <2> QED BY <1>a, <2>1, <2>2 DEF LoneInv, StartedInv, SlotInv, CredentialInv, Workers
<1>17. CASE Crash \/ Quit
  <2>1. phase' = "off" /\ \A w \in Workers : worker'[w].pc = "idle"
    BY <1>17 DEF Crash, Quit, Gone, Idle
  <2> QED BY <2>1 DEF LoneInv, StartedInv, SlotInv, CredentialInv, Workers
<1>18. CASE OpenState
  <2>1. /\ phase = "off" /\ phase' = "boot" /\ mem' = disk /\ disk' = disk
        /\ ~ dead' /\ credential' /\ worker' = worker
    BY <1>18 DEF OpenState
  <2>2. disk.slots \in [Schedules -> 0..MaxTime]
    BY <1>t, JournalParts
  <2> QED BY <1>a, <2>1, <2>2, BoundsAssumption
             DEF LoneInv, StartedInv, SlotInv, CredentialInv, Workers
<1>19. CASE Recover
  <2> DEFINE k == mem.marker.key
             j == Appended(mem, Result(k, "interrupted"))
  <2>1. phase = "boot" /\ ~ dead /\ credential /\ UNCHANGED <<worker, credential>>
    BY <1>19, <1>a DEF Recover, CredentialInv
  <2>2. \A w \in Workers : worker'[w].pc = "idle"
    BY <2>1, <1>a DEF LoneInv
  <2>3. LoneInv' /\ StartedInv'
    BY <2>2 DEF LoneInv, StartedInv, Workers
  <2>4. CASE mem.marker = None
    BY <1>19, <1>a, <2>1, <2>3, <2>4 DEF Recover, SlotInv, CredentialInv
  <2>5. CASE mem.marker # None /\ Saves(j) /\ phase' = "on"
    <3>1. k \in Keys
      BY <2>5, <1>t, JournalParts DEF Markers
    <3>2. j \in Journals /\ j.slots = mem.slots
      BY <3>1, <1>t, ResultType, AppendedType DEF Ends
    <3>3. mem.slots \in [Schedules -> 0..MaxTime]
      BY <1>t, JournalParts
    <3>4. \A u \in Schedules : j.slots[u] >= mem.slots[u]
      BY <3>2, <3>3, BoundsAssumption
    <3>5. dead' = dead /\ SlotInv'
      BY <2>1, <2>5, <3>2, <3>4, SlotsAfterWrite, SavesEffect DEF SlotInv
    <3> QED BY <2>1, <2>3, <2>5, <3>5 DEF CredentialInv
  <2>6. CASE phase' = "off"
    BY <2>3, <2>6 DEF SlotInv, CredentialInv
  <2> QED BY <1>19, <2>4, <2>5, <2>6 DEF Recover
<1> QED
  BY <1>1, <1>2, <1>3, <1>5, <1>6, <1>7, <1>8, <1>9, <1>10, <1>13, <1>14, <1>15,
     <1>16, <1>17, <1>18, <1>19 DEF Next

(* Memory and file are empty, and nobody has a run, at the start.          *)
LEMMA CoreInit == Init => CoreInv
<1> SUFFICES ASSUME Init PROVE CoreInv
  OBVIOUS
<1>1. TypeOK
  BY TypeInit
<1>2. LoneInv /\ StartedInv
  BY DEF Init, LoneInv, StartedInv, Idle, Workers
<1>3. SlotInv /\ CredentialInv
  BY DEF Init, SlotInv, CredentialInv
<1> QED BY <1>1, <1>2, <1>3 DEF CoreInv

LEMMA CoreAlways == Spec => []CoreInv
BY CoreInit, CoreStep, PTL DEF Spec

(* While a process runs and the device is not revoked, the file holds its  *)
(* marker "started": a runner that dies at any point reports the run as    *)
(* interrupted instead of forgetting it (executeReserved marks before      *)
(* Spawn; nothing else may take the marker away in between).               *)
THEOREM MarkerSafe == Spec => []MarkerBeforeProcess
<1>1. CoreInv => MarkerBeforeProcess
  BY DEF CoreInv, StartedInv, MarkerBeforeProcess
<1> QED
  BY <1>1, CoreAlways, PTL

(* After State.Revoke, or once the credential is gone, no call of either   *)
(* goroutine writes the journal file again.                                *)
THEOREM RevocationFinal == Spec => NothingAfterRevocation
<1>1. ASSUME CoreInv, [Next]_vars, dead \/ ~ credential
      PROVE  disk' = disk
  <2> USE DEF journalVars
  <2>1. phase = "boot" => ~ dead /\ credential
    BY <1>1 DEF CoreInv, CredentialInv
  <2>2. phase = "on" => dead
    BY <1>1 DEF CoreInv, CredentialInv
  <2>3. ASSUME NEW s \in Schedules, NEW t \in 1..MaxTime, ReserveRun(s, t)
        PROVE  disk' = disk
    BY <2>2, <2>3 DEF ReserveRun
  <2>4. ASSUME NEW k \in JobKeys, ClaimJob(k) PROVE disk' = disk
    BY <2>2, <2>4 DEF ClaimJob
  <2>5. ASSUME NEW k \in SetupKeys, StartPanelSetup(k) PROVE disk' = disk
    BY <2>2, <2>5 DEF StartPanelSetup
  <2>6. ASSUME NEW w \in Workers, MarkStarted(w) PROVE disk' = disk
    BY <2>2, <2>6 DEF MarkStarted
  <2>7. ASSUME NEW w \in Workers, Report(w) PROVE disk' = disk
    BY <2>2, <2>7 DEF Report
  <2>8. CASE Confirmed \/ Rejected \/ Revoke
    BY <2>2, <2>8 DEF Confirmed, Rejected, Revoke
  <2>9. CASE Recover
    BY <1>1, <2>1, <2>9 DEF Recover
  <2>10. CASE \/ \E w \in Workers, end \in Ends : EndEarly(w, end)
              \/ \E w \in Workers : Spawn(w) \/ ProcessEnds(w)
              \/ \E r \in Results : CoreAnswer(r)
              \/ Abandon \/ DeliverOne \/ Timeout \/ NotDelivered \/ CoreRevokes
              \/ Crash \/ Quit \/ OpenState \/ UNCHANGED vars
    BY <2>10 DEF EndEarly, Spawn, ProcessEnds, CoreAnswer, Abandon, DeliverOne, Timeout,
                 NotDelivered, CoreRevokes, Crash, Quit, Gone, OpenState, vars
  <2> QED
    BY <1>1, <2>3, <2>4, <2>5, <2>6, <2>7, <2>8, <2>9, <2>10 DEF Next
<1>2. CoreInv /\ [Next]_vars => [dead \/ ~ credential => disk' = disk]_vars
  BY <1>1
<1> QED
  BY <1>2, CoreAlways, PTL DEF Spec, NothingAfterRevocation

-----------------------------------------------------------------------------
(* The slots never fall back, and a run that was started is remembered.    *)

LEMMA SlotKeyParts ==
    ASSUME NEW k \in SlotKeys
    PROVE  k.name \in Schedules /\ k.at \in 1..MaxTime
BY DEF SlotKeys, Key

LEMMA SlotKeyRecord ==
    ASSUME NEW s \in Schedules, NEW t \in 1..MaxTime
    PROVE  /\ Key("slot", s, t) \in SlotKeys
           /\ Key("slot", s, t).name = s
           /\ Key("slot", s, t).at = t
BY DEF SlotKeys, Key

LEMMA OtherKeys ==
    ASSUME NEW k \in JobKeys \cup SetupKeys
    PROVE  k \in Keys /\ k \notin SlotKeys
BY DEF Keys, SlotKeys, JobKeys, SetupKeys, Key

(* What one step may do to the slots: neither the copy that the next call  *)
(* goes by nor the file falls behind what the copy said before.            *)
SlotsKept == /\ \A s \in Schedules : Truth'.slots[s] >= Truth.slots[s]
             /\ \A s \in Schedules : disk'.slots[s] >= Truth.slots[s]

(* The journal value of every call but ReserveRun has the slots of mem.    *)
LEMMA SameSlots ==
    ASSUME TypeOK, NEW j \in Journals, j.slots = mem.slots
    PROVE  \A s \in Schedules : j.slots[s] >= mem.slots[s]
<1>1. mem.slots \in [Schedules -> 0..MaxTime]
  BY JournalParts DEF TypeOK
<1> QED BY <1>1, BoundsAssumption

LEMMA SlotsStep ==
    ASSUME CoreInv, [Next]_vars, ~ dead'
    PROVE  SlotsKept
<1> USE DEF journalVars, boxVars, historyVars
<1>t. /\ TypeOK /\ mem \in Journals /\ disk \in Journals
      /\ mem.slots \in [Schedules -> 0..MaxTime]
      /\ disk.slots \in [Schedules -> 0..MaxTime]
  BY JournalParts DEF CoreInv, TypeOK
<1>a. /\ phase # "off" /\ ~ dead => \A s \in Schedules : mem.slots[s] <= disk.slots[s]
      /\ phase = "boot" => ~ dead
  BY DEF CoreInv, SlotInv, CredentialInv
(* A call of State that writes the journal.                                *)
<1>1. ASSUME NEW j \in Journals, phase # "off", phase' = phase, ~ dead,
             Saves(j) \/ SaveFails(j), \A s \in Schedules : j.slots[s] >= mem.slots[s]
      PROVE  SlotsKept
  BY <1>1, SlotsAfterWrite DEF SlotsKept, Truth
(* A call that leaves it alone.                                            *)
<1>2. ASSUME UNCHANGED <<phase, mem, disk, dead>>
      PROVE  SlotsKept
  BY <1>2, <1>t, <1>a, BoundsAssumption DEF SlotsKept, Truth
<1>3. ASSUME NEW s \in Schedules, NEW t \in 1..MaxTime, ReserveRun(s, t)
      PROVE  SlotsKept
  <2> DEFINE j == Reserved(mem, s, t)
  <2>1. j \in Journals
    BY <1>t, ReservedType
  <2>2. \A u \in Schedules : j.slots[u] >= mem.slots[u]
    <3>1. mem.slots[s] < t
      BY <1>3 DEF ReserveRun, MayReserve
    <3>2. \A u \in Schedules : j.slots[u] = IF u = s THEN t ELSE mem.slots[u]
      BY <1>t DEF Reserved, Journals
    <3> QED BY <1>t, <3>1, <3>2, BoundsAssumption
  <2>3. phase = "on" /\ phase' = phase /\ ~ dead /\ (Saves(j) \/ SaveFails(j))
    BY <1>3 DEF ReserveRun
  <2> HIDE DEF j
  <2> QED BY <2>1, <2>2, <2>3, <1>1
<1>4. ASSUME NEW k \in JobKeys, ClaimJob(k)
      PROVE  SlotsKept
  <2> DEFINE j == Marked(mem, k, "claimed")
  <2>1. j \in Journals /\ j.slots = mem.slots
    BY <1>t, MarkedType DEF Keys
  <2>2. phase = "on" /\ phase' = phase /\ ~ dead
    BY <1>4 DEF ClaimJob
  <2>3. Saves(j) \/ SaveFails(j) \/ UNCHANGED journalVars
    BY <1>4 DEF ClaimJob
  <2> HIDE DEF j
  <2> QED BY <2>1, <2>2, <2>3, <1>t, <1>1, <1>2, SameSlots
<1>5. ASSUME NEW w \in Workers, MarkStarted(w)
      PROVE  SlotsKept
  <2> DEFINE j == Marked(mem, worker[w].key, "started")
  <2>1. worker[w].key \in Keys
    BY <1>5, <1>t, BusyWorker DEF MarkStarted
  <2>2. j \in Journals /\ j.slots = mem.slots
    BY <1>t, <2>1, MarkedType
  <2>3. phase = "on" /\ phase' = phase
    BY <1>5 DEF MarkStarted
  <2>4. (~ dead /\ (Saves(j) \/ SaveFails(j))) \/ UNCHANGED journalVars
    BY <1>5 DEF MarkStarted
  <2> HIDE DEF j
  <2> QED BY <2>2, <2>3, <2>4, <1>t, <1>1, <1>2, SameSlots
<1>6. ASSUME NEW w \in Workers, Report(w)
      PROVE  SlotsKept
  <2> DEFINE j == Appended(mem, Result(worker[w].key, worker[w].end))
  <2>1. worker[w].key \in Keys /\ worker[w].end \in Ends
    BY <1>6, <1>t, BusyWorker DEF Report
  <2>2. j \in Journals /\ j.slots = mem.slots
    BY <1>t, <2>1, ResultType, AppendedType
  <2>3. phase = "on" /\ phase' = phase
    BY <1>6 DEF Report
  <2>4. (~ dead /\ (Saves(j) \/ SaveFails(j))) \/ UNCHANGED journalVars
    BY <1>6 DEF Report
  <2> HIDE DEF j
  <2> QED BY <2>2, <2>3, <2>4, <1>t, <1>1, <1>2, SameSlots
<1>7. CASE Confirmed
  <2> DEFINE j == HeadRemoved(mem, sending)
  <2>1. j \in Journals /\ j.slots = mem.slots
    BY <1>t, HeadRemovedType
  <2>2. phase = "on" /\ phase' = phase
    BY <1>7 DEF Confirmed
  <2>3. (~ dead /\ (Saves(j) \/ SaveFails(j))) \/ UNCHANGED journalVars
    BY <1>7 DEF Confirmed
  <2> HIDE DEF j
  <2> QED BY <2>1, <2>2, <2>3, <1>t, <1>1, <1>2, SameSlots
<1>8. CASE Rejected
  <2> DEFINE j == HeadDropped(mem)
  <2>1. IsHead(mem, sending) => j \in Journals /\ j.slots = mem.slots
    BY <1>t, HeadDroppedType DEF IsHead
  <2>2. phase = "on" /\ phase' = phase
    BY <1>8 DEF Rejected
  <2>3. \/ ~ dead /\ IsHead(mem, sending) /\ (Saves(j) \/ SaveFails(j))
        \/ UNCHANGED journalVars
    BY <1>8 DEF Rejected
  <2> HIDE DEF j
  <2> QED BY <2>1, <2>2, <2>3, <1>t, <1>1, <1>2, SameSlots
<1>9. CASE Crash \/ Quit
  <2>1. disk' = disk /\ phase' = "off" /\ phase # "off" /\ ~ dead
    BY <1>9 DEF Crash, Quit, Gone
  <2> QED BY <2>1, <1>t, <1>a, BoundsAssumption DEF SlotsKept, Truth
<1>10. CASE OpenState
  <2>1. disk' = disk /\ mem' = disk /\ phase = "off" /\ phase' = "boot"
    BY <1>10 DEF OpenState
  <2> QED BY <2>1, <1>t, BoundsAssumption DEF SlotsKept, Truth
<1>11. CASE Recover
  <2> DEFINE k == mem.marker.key
             j == Appended(mem, Result(k, "interrupted"))
  <2>1. phase = "boot" /\ ~ dead
    BY <1>11, <1>a DEF Recover
  <2>2. CASE mem.marker = None
    <3>1. phase' = "on" /\ UNCHANGED <<mem, disk, dead>>
      BY <1>11, <2>2 DEF Recover
    <3> QED BY <2>1, <3>1, <1>t, <1>a, BoundsAssumption DEF SlotsKept, Truth
  <2>3. CASE mem.marker # None
    <3>1. k \in Keys
      BY <2>3, <1>t, JournalParts DEF Markers
    <3>2. j \in Journals /\ j.slots = mem.slots
      BY <3>1, <1>t, ResultType, AppendedType DEF Ends
    <3>3. \/ Saves(j) /\ phase' = "on"
          \/ disk' \in {disk, Stored(j)} /\ phase' = "off"
      BY <1>11, <2>3 DEF Recover
    <3> HIDE DEF j
    <3>4. CASE Saves(j) /\ phase' = "on"
      BY <3>4, <3>2, <2>1, <1>t, SameSlots, SlotsAfterWrite DEF SlotsKept, Truth
    <3>5. CASE disk' \in {disk, Stored(j)} /\ phase' = "off"
      <4>1. disk'.slots \in {disk.slots, mem.slots}
        BY <3>2, <3>5, StoredType
      <4> QED BY <4>1, <3>5, <2>1, <1>t, <1>a, BoundsAssumption DEF SlotsKept, Truth
    <3> QED BY <3>3, <3>4, <3>5
  <2> QED BY <2>2, <2>3
<1>12. CASE Revoke
  BY <1>12 DEF Revoke
<1>13. CASE \/ \E k \in SetupKeys : StartPanelSetup(k)
            \/ \E w \in Workers, end \in Ends : EndEarly(w, end)
            \/ \E w \in Workers : Spawn(w) \/ ProcessEnds(w)
            \/ \E r \in Results : CoreAnswer(r)
            \/ Abandon \/ DeliverOne \/ Timeout \/ NotDelivered \/ CoreRevokes
            \/ UNCHANGED vars
  <2>1. UNCHANGED <<phase, mem, disk, dead>>
    BY <1>13 DEF StartPanelSetup, EndEarly, Spawn, ProcessEnds, CoreAnswer, Abandon,
                 DeliverOne, Timeout, NotDelivered, CoreRevokes, vars
  <2> QED BY <2>1, <1>2
<1> QED
  BY <1>3, <1>4, <1>5, <1>6, <1>7, <1>8, <1>9, <1>10, <1>11, <1>12, <1>13 DEF Next

(* Whatever restarts, failing writes and clock jumps come between, the     *)
(* watermark of a schedule, as the next call of ReserveRun would read it,  *)
(* never falls back on a device that is not revoked.                       *)
THEOREM WatermarkMonotone == Spec => SlotsNeverGoBack
<1>1. CoreInv /\ [Next]_vars =>
        [\A s \in Schedules : Truth'.slots[s] >= Truth.slots[s] \/ dead']_vars
  BY SlotsStep DEF SlotsKept
<1> QED
  BY <1>1, CoreAlways, PTL DEF Spec, SlotsNeverGoBack

-----------------------------------------------------------------------------
(* The process of a run is started at most once.  The invariant behind it: *)
(* a run that somebody has, or that was started, is remembered wherever    *)
(* the next admission looks, in memory and, after a restart, on disk.      *)

Remembered(k) == Used(disk, k) /\ (phase # "off" => Used(mem, k))

OnceRuns ==
    /\ \A k \in Keys : spawned[k] > 0 => Remembered(k)
    /\ \A w \in Workers : worker[w].pc # "idle" => Remembered(worker[w].key)
    /\ \A w \in Workers : worker[w].pc \in {"claimed", "prepared"} =>
                            spawned[worker[w].key] = 0
    /\ \A k \in Keys : spawned[k] <= 1

OnceInv == (dead => revoked) /\ (~ revoked => OnceRuns)

(* What is remembered stays so, because neither the slots nor the list of  *)
(* what the box has given out ever shrinks.                                *)
LEMMA RememberedKept ==
    ASSUME CoreInv, TypeOK', SlotsKept, handed \subseteq handed',
           NEW k \in Keys, Remembered(k)
    PROVE  Remembered(k)'
<1>1. CASE k \notin SlotKeys
  BY <1>1 DEF Remembered, Used
<1>2. CASE k \in SlotKeys
  <2>1. k.name \in Schedules /\ k.at \in Nat
    BY <1>2, SlotKeyParts, BoundsAssumption
  <2>2. Truth.slots[k.name] >= k.at
    BY <1>2 DEF Remembered, Used, Truth
  <2>3. Truth.slots[k.name] \in Nat
    BY <2>1, JournalParts, BoundsAssumption DEF Truth, CoreInv, TypeOK
  <2>4. Truth'.slots[k.name] \in Nat /\ disk'.slots[k.name] \in Nat
    BY <2>1, JournalParts, BoundsAssumption DEF Truth, TypeOK
  <2>5. Truth'.slots[k.name] >= k.at /\ disk'.slots[k.name] >= k.at
    BY <2>1, <2>2, <2>3, <2>4 DEF SlotsKept
  <2> QED BY <1>2, <2>5 DEF Remembered, Used, Truth
<1> QED BY <1>1, <1>2

(* A run that is admitted now was never started, and is remembered then.   *)
LEMMA AdmittedNew ==
    ASSUME CoreInv, OnceInv, ~ revoked, NEW k \in Keys, ~ Remembered(k)
    PROVE  spawned[k] = 0
BY DEF OnceInv, OnceRuns, CoreInv, TypeOK

(* Until a revocation, which nobody takes back, nothing is forgotten.      *)
LEMMA GoesOn ==
    ASSUME CoreInv, OnceInv, [Next]_vars
    PROVE  /\ dead' => revoked'
           /\ ~ revoked' =>
                /\ ~ revoked /\ ~ dead' /\ handed \subseteq handed'
                /\ \A k \in Keys : Remembered(k) => Remembered(k)'
<1> USE DEF journalVars, boxVars, historyVars
<1>0. TypeOK'
  BY CoreStep DEF CoreInv
<1>1. dead' => revoked'
  <2>1. CASE Revoke
    BY <2>1 DEF Revoke
  <2>2. CASE ~ Revoke
    <3>1. dead' => dead
      BY <2>2 DEF Next, vars, ReserveRun, ClaimJob, StartPanelSetup, EndEarly, Abandon,
           MarkStarted, Spawn, ProcessEnds, Report, DeliverOne, CoreAnswer, Timeout, Confirmed,
           Rejected, NotDelivered, CoreRevokes, Crash, Quit, Gone, OpenState, Recover,
           Saves, SaveFails
    <3>2. revoked => revoked'
      BY DEF Next, vars, ReserveRun, ClaimJob, StartPanelSetup, EndEarly, Abandon,
           MarkStarted, Spawn, ProcessEnds, Report, DeliverOne, CoreAnswer, Timeout, Confirmed,
           Rejected, NotDelivered, CoreRevokes, Revoke, Crash, Quit, Gone, OpenState, Recover,
           Saves, SaveFails
    <3> QED BY <3>1, <3>2 DEF OnceInv
  <2> QED BY <2>1, <2>2
<1>2. /\ ~ revoked' => ~ revoked
      /\ handed \subseteq handed'
  BY DEF Next, vars, ReserveRun, ClaimJob, StartPanelSetup, EndEarly, Abandon,
         MarkStarted, Spawn, ProcessEnds, Report, DeliverOne, CoreAnswer, Timeout, Confirmed,
         Rejected, NotDelivered, CoreRevokes, Revoke, Crash, Quit, Gone, OpenState, Recover
<1>3. ~ revoked' => ~ dead' /\ SlotsKept
  BY <1>1, SlotsStep
<1>4. ~ revoked' => \A k \in Keys : Remembered(k) => Remembered(k)'
  BY <1>0, <1>2, <1>3, RememberedKept
<1> QED
  BY <1>1, <1>2, <1>3, <1>4

LEMMA OnceStep ==
    ASSUME CoreInv, OnceInv, [Next]_vars
    PROVE  OnceInv'
<1> USE DEF journalVars, boxVars, historyVars
<1>t. /\ TypeOK /\ mem \in Journals /\ disk \in Journals
      /\ mem.slots \in [Schedules -> 0..MaxTime]
      /\ LoneInv /\ SlotInv
  BY JournalParts DEF CoreInv, TypeOK
<1> SUFFICES ASSUME ~ revoked' PROVE OnceRuns'
  BY GoesOn DEF OnceInv
<1>2. ~ revoked
  BY GoesOn
<1>3. ~ dead'
  BY GoesOn
<1>4. \A k \in Keys : Remembered(k) => Remembered(k)'
  BY GoesOn
<1>5. /\ \A k \in Keys : spawned[k] > 0 => Remembered(k)
      /\ \A w \in Workers : worker[w].pc # "idle" => Remembered(worker[w].key)
      /\ \A w \in Workers : worker[w].pc \in {"claimed", "prepared"} =>
                              spawned[worker[w].key] = 0
      /\ \A k \in Keys : spawned[k] <= 1
      /\ \A w \in Workers : worker[w].pc # "idle" => worker[w].key \in Keys
  BY <1>2, <1>t, BusyWorker DEF OnceInv, OnceRuns
(* A goroutine takes up a run that nothing remembered.                     *)
<1>6. ASSUME NEW v \in Workers, NEW k \in Keys, Now(v, "claimed", k, None),
             ~ Remembered(k), Remembered(k)', spawned' = spawned
      PROVE  OnceRuns'
  <2>1. spawned[k] = 0
    BY <1>2, <1>6, AdmittedNew
  <2>2. worker'[v].key = k /\ \A w \in Workers : w # v => worker'[w] = worker[w]
    BY <1>6, <1>t DEF Now, TypeOK
  <2>3. \A w \in Workers : worker'[w].pc # "idle" => Remembered(worker[w].key)'
    BY <1>4, <1>5, <1>6, <2>2
  <2> QED BY <1>4, <1>5, <1>6, <2>1, <2>2, <2>3 DEF OnceRuns
(* Every goroutine rests or goes on with the run it has.                   *)
<1>7. ASSUME spawned' = spawned,
             \A w \in Workers :
               \/ worker'[w].pc = "idle"
               \/ /\ worker[w].pc # "idle" /\ worker'[w].key = worker[w].key
                  /\ worker'[w].pc \in {"claimed", "prepared"} =>
                       worker[w].pc \in {"claimed", "prepared"}
      PROVE  OnceRuns'
  BY <1>4, <1>5, <1>7 DEF OnceRuns
<1>8. CASE UNCHANGED <<spawned, worker>>
  BY <1>7, <1>8
<1>9. ASSUME NEW s \in Schedules, NEW t \in 1..MaxTime, ReserveRun(s, t)
      PROVE  OnceRuns'
  <2> DEFINE j == Reserved(mem, s, t)
             k == Key("slot", s, t)
  <2>1. k \in SlotKeys /\ k \in Keys /\ k.name = s /\ k.at = t
    BY SlotKeyRecord DEF Keys
  <2>2. CASE Saves(j) /\ Now("loop", "claimed", k, None)
    <3>1. j \in Journals /\ j.slots[s] = t
      <4>1. mem \in Journals /\ mem.slots \in [Schedules -> 0..MaxTime]
        BY <1>t
      <4>2. Reserved(mem, s, t) \in Journals
        BY <4>1, ReservedType
      <4>3. Reserved(mem, s, t).slots = [mem.slots EXCEPT ![s] = t]
        BY <4>1 DEF Reserved, Journals
      <4> QED BY <4>1, <4>2, <4>3
    <3>2. mem'.slots[s] = t /\ disk'.slots[s] = t
      BY <2>2, <3>1, SavesEffect
    <3>3. phase = "on" /\ mem.slots[s] < t /\ spawned' = spawned
      BY <1>9 DEF ReserveRun, MayReserve
    <3>4. ~ Remembered(k)
      BY <1>t, <2>1, <3>3, BoundsAssumption DEF Remembered, Used
    <3>5. Remembered(k)'
      BY <2>1, <3>2, BoundsAssumption DEF Remembered, Used
    <3> HIDE DEF k
    <3> QED BY <1>6, <2>1, <2>2, <3>3, <3>4, <3>5 DEF Workers
  <2> QED BY <1>9, <1>8, <2>2 DEF ReserveRun
<1>10. ASSUME NEW k \in JobKeys \cup SetupKeys, NEW v \in Workers,
              Now(v, "claimed", k, None),
              k \notin handed, handed' = handed \cup {k}, spawned' = spawned
       PROVE  OnceRuns'
  <2>1. k \in Keys /\ k \notin SlotKeys
    BY OtherKeys
  <2>2. ~ Remembered(k) /\ Remembered(k)'
    BY <1>10, <2>1 DEF Remembered, Used
  <2> QED BY <1>6, <1>10, <2>1, <2>2
<1>11. ASSUME NEW k \in JobKeys, ClaimJob(k)
       PROVE  OnceRuns'
  <2>1. k \notin handed /\ handed' = handed \cup {k} /\ spawned' = spawned
    BY <1>11 DEF ClaimJob
  <2>2. Now("loop", "claimed", k, None) \/ UNCHANGED worker
    BY <1>11 DEF ClaimJob
  <2> QED BY <1>8, <1>10, <2>1, <2>2 DEF Workers
<1>12. ASSUME NEW k \in SetupKeys, StartPanelSetup(k)
       PROVE  OnceRuns'
  <2>1. /\ k \notin handed /\ handed' = handed \cup {k} /\ spawned' = spawned
        /\ Now("panel", "claimed", k, None)
    BY <1>12 DEF StartPanelSetup
  <2> QED BY <1>10, <2>1 DEF Workers
<1>13. ASSUME NEW v \in Workers, Spawn(v)
       PROVE  OnceRuns'
  <2>1. PICK k \in Keys : /\ k = worker[v].key
                          /\ worker[v].pc = "prepared" /\ spawned[k] = 0 /\ Remembered(k)
    BY <1>13, <1>5 DEF Spawn
  <2>2. \A i \in Keys : spawned'[i] = IF i = k THEN 1 ELSE spawned[i]
    BY <1>13, <2>1, <1>t DEF Spawn, TypeOK
  <2>3. \A w \in Workers : w # v => worker'[w].pc = "idle"
    BY <1>13, <1>t, <2>1, Alone DEF Spawn, Now, TypeOK
  <2>4. worker'[v] = [pc |-> "running", key |-> k, end |-> None]
    BY <1>13, <1>t, <2>1 DEF Spawn, Now, TypeOK
  <2>5. Remembered(k)' /\ \A i \in Keys : spawned'[i] > 0 => Remembered(i)'
    BY <1>4, <1>5, <2>1, <2>2
  <2>6. \A w \in Workers : worker'[w].pc # "idle" => Remembered(worker[w].key)'
    BY <2>3, <2>4, <2>5
  <2> QED BY <1>5, <2>2, <2>3, <2>4, <2>5, <2>6 DEF OnceRuns
<1>14. CASE \/ \E w \in Workers, end \in Ends : EndEarly(w, end)
            \/ \E w \in Workers : MarkStarted(w) \/ ProcessEnds(w) \/ Report(w)
            \/ Abandon
  <2>1. PICK w \in Workers :
          /\ worker[w].pc # "idle"
          /\ \/ Rests(w)
             \/ \E pc \in {"prepared", "ended"}, end \in Ends \cup {None} :
                  /\ Now(w, pc, worker[w].key, end)
                  /\ pc = "prepared" => worker[w].pc = "claimed"
    BY <1>14 DEF EndEarly, MarkStarted, ProcessEnds, Report, Abandon, Ends, Workers
  <2>2. spawned' = spawned
    BY <1>14 DEF EndEarly, MarkStarted, ProcessEnds, Report, Abandon
  <2>3. \A v \in Workers : v # w => worker'[v].pc = "idle"
    BY <1>t, <2>1, Alone DEF Rests, Now, TypeOK
  <2>4. \/ worker'[w].pc = "idle"
        \/ /\ worker'[w].key = worker[w].key
           /\ worker'[w].pc \in {"claimed", "prepared"} => worker[w].pc = "claimed"
    BY <1>t, <2>1 DEF Rests, Now, Idle, TypeOK
  <2> QED BY <1>7, <2>1, <2>2, <2>3, <2>4
<1>15. CASE \/ Crash \/ Quit
  BY <1>7, <1>15 DEF Crash, Quit, Gone, Idle
<1>16. CASE \/ DeliverOne \/ Timeout \/ Confirmed \/ Rejected \/ NotDelivered
            \/ CoreRevokes \/ OpenState \/ Recover \/ UNCHANGED vars
            \/ \E r \in Results : CoreAnswer(r)
  BY <1>8, <1>16 DEF DeliverOne, Timeout, Confirmed, Rejected, NotDelivered, CoreRevokes,
                     OpenState, Recover, CoreAnswer, vars
<1>17. CASE Revoke
  BY <1>3, <1>17 DEF Revoke
<1> QED
  BY <1>9, <1>11, <1>12, <1>13, <1>14, <1>15, <1>16, <1>17 DEF Next

(* Whatever crashes, failing saves, lost requests and clock jumps come in  *)
(* between, no slot, job or setup is started twice on a device that is not *)
(* revoked: a slot is reserved durably before anything else happens, a job *)
(* or a setup is handed out once, and both goroutines give a run up rather *)
(* than repeat it.                                                         *)
THEOREM StartedOnce == Spec => []StartedAtMostOnce
<1>1. Init => OnceInv
  BY DEF Init, OnceInv, OnceRuns, Idle
<1>2. CoreInv /\ OnceInv /\ [Next]_vars => OnceInv'
  BY OnceStep
<1>3. OnceInv => StartedAtMostOnce
  BY DEF OnceInv, OnceRuns, StartedAtMostOnce
<1> QED
  BY <1>1, <1>2, <1>3, CoreAlways, PTL DEF Spec

-----------------------------------------------------------------------------
(* What the results say.  The invariant behind it: a run that somebody     *)
(* has, or whose marker would make a result of it, has no result in any    *)
(* copy that could meet the new one.  After a report whose save failed the *)
(* file may hold the result and the memory the marker: the next save takes *)
(* the one away, the next start the other.                                 *)

Out == net \cup ({core[k] : k \in Keys} \ {None}) \cup ({sending} \ {None})

Fresh(rs, marker) == marker # None => \A r \in rs : r.key # marker.key

(* Used after the step, of a journal as it was before.                     *)
UsedThen(j, k) == IF k \in SlotKeys THEN j.slots[k.name] >= k.at ELSE k \in handed'
MarkerUsed(j) == j.marker # None => Used(j, j.marker.key)

BooksInv ==
    /\ \A r, s \in Everywhere : r.key = s.key => r = s
    /\ \A r \in Everywhere :
          Remembered(r.key) /\ (r.end = "refused" => spawned[r.key] = 0)
    /\ Fresh(ResultsIn(mem) \cup Out, mem.marker)
    /\ Fresh(Everywhere, disk.marker)
    /\ MarkerUsed(mem) /\ MarkerUsed(disk)

HandsInv ==
    \A w \in Workers : worker[w].pc # "idle" =>
        /\ \A r \in Everywhere : r.key # worker[w].key
        /\ worker[w].pc = "ended" /\ worker[w].end = "refused" => spawned[worker[w].key] = 0

MarkerInv ==
    /\ phase = "boot" => mem = disk
    /\ dead /\ phase # "off" => mem.marker = None
    /\ NoOrphanMarker

ResultInv == MarkerInv /\ (~ revoked => BooksInv /\ HandsInv)

LEMMA EverywhereParts ==
    ASSUME TypeOK
    PROVE  /\ Everywhere = ResultsIn(mem) \cup ResultsIn(disk) \cup Out
           /\ Everywhere \subseteq Results
<1>1. ResultsIn(mem) \subseteq Results /\ ResultsIn(disk) \subseteq Results
  BY JournalParts DEF TypeOK
<1>2. Out \subseteq Results
  BY DEF Out, TypeOK
<1> QED
  BY <1>1, <1>2 DEF Everywhere, Out

(* Every step but a start: the memory stays, is saved, or is gone; the     *)
(* file stays or is the new one.  N holds the result that is new, if any.  *)
LEMMA WriteBooks ==
    ASSUME TypeOK, TypeOK', BooksInv, NEW j \in Journals, NEW N \in SUBSET Results,
           \/ mem' = Stored(j) /\ disk' = Stored(j)
           \/ mem' \in {mem, Empty} /\ disk' \in {disk, Stored(j)},
           Out' \subseteq Out \cup ResultsIn(mem),
           ResultsIn(j) \subseteq ResultsIn(mem) \cup N,
           Fresh(ResultsIn(mem) \cup Out \cup N, j.marker),
           j.marker # None => UsedThen(j, j.marker.key),
           handed \subseteq handed',
           \A k \in Keys : Remembered(k) => Remembered(k)',
           \A r \in N : /\ Remembered(r.key)'
                        /\ r.end = "refused" => spawned[r.key] = 0
                        /\ \A s \in Everywhere : s.key # r.key,
           \A r, s \in N : r = s,
           \A r \in Everywhere \cup N : spawned'[r.key] = spawned[r.key]
    PROVE  BooksInv' /\ Everywhere' \subseteq Everywhere \cup N
<1>1. /\ Everywhere = ResultsIn(mem) \cup ResultsIn(disk) \cup Out
      /\ Everywhere \subseteq Results
  BY EverywhereParts
<1>2. Everywhere' = ResultsIn(mem)' \cup ResultsIn(disk)' \cup Out'
  BY DEF Everywhere, Out
<1>3. /\ ResultsIn(Stored(j)) \subseteq ResultsIn(mem) \cup N
      /\ Stored(j).marker = j.marker /\ Stored(j).slots = j.slots
  BY StoredType
<1>4. ResultsIn(Empty) = {} /\ Empty.marker = None
  BY EmptyType
<1>5. /\ \/ ResultsIn(mem)' \subseteq ResultsIn(mem)
         \/ ResultsIn(mem)' \subseteq ResultsIn(mem) \cup N /\ mem' = Stored(j)
      /\ \/ ResultsIn(disk)' = ResultsIn(disk)
         \/ ResultsIn(disk)' \subseteq ResultsIn(mem) \cup N /\ disk' = Stored(j)
  BY <1>3, <1>4 DEF ResultsIn
<1>6. Everywhere' \subseteq Everywhere \cup N
  BY <1>1, <1>2, <1>5
<1>7. \A r, s \in Everywhere' : r.key = s.key => r = s
  BY <1>6 DEF BooksInv
<1>8. \A r \in Everywhere' :
         Remembered(r.key)' /\ (r.end = "refused" => spawned'[r.key] = 0)
  BY <1>1, <1>6 DEF BooksInv, Results
<1>9. Fresh(ResultsIn(mem)' \cup Out', mem'.marker)
  <2>1. CASE mem' = Stored(j)
    <3>1. ResultsIn(mem)' \subseteq ResultsIn(mem) \cup N
      BY <1>5
    <3>2. mem'.marker = j.marker
      BY <1>3, <2>1
    <3> QED BY <3>1, <3>2 DEF Fresh
  <2>2. CASE mem' = mem
    <3>1. ResultsIn(mem)' = ResultsIn(mem)
      BY <2>2 DEF ResultsIn
    <3> QED BY <2>2, <3>1 DEF Fresh, BooksInv
  <2>3. CASE mem' = Empty
    BY <1>4, <2>3 DEF Fresh
  <2> QED BY <2>1, <2>2, <2>3
<1>10. Fresh(Everywhere', disk'.marker)
  <2>1. CASE mem' = Stored(j) /\ disk' = Stored(j)
    <3>1. Everywhere' \subseteq ResultsIn(mem) \cup N \cup Out
      BY <1>2, <1>3, <2>1 DEF ResultsIn
    <3> QED BY <1>3, <2>1, <3>1 DEF Fresh
  <2>2. CASE mem' \in {mem, Empty} /\ disk' = Stored(j)
    <3>1. ResultsIn(mem)' \subseteq ResultsIn(mem)
      BY <1>4, <2>2 DEF ResultsIn
    <3>2. ResultsIn(disk)' \subseteq ResultsIn(mem) \cup N
      BY <1>3, <2>2 DEF ResultsIn
    <3>3. Everywhere' \subseteq ResultsIn(mem) \cup N \cup Out
      BY <1>2, <3>1, <3>2
    <3> QED BY <1>3, <2>2, <3>3 DEF Fresh
  <2>3. CASE mem' \in {mem, Empty} /\ disk' = disk
    <3>1. ResultsIn(mem)' \subseteq ResultsIn(mem) /\ ResultsIn(disk)' = ResultsIn(disk)
      BY <1>4, <2>3 DEF ResultsIn
    <3>2. Everywhere' \subseteq Everywhere
      BY <1>1, <1>2, <3>1
    <3> QED BY <2>3, <3>2 DEF Fresh, BooksInv
  <2> QED BY <2>1, <2>2, <2>3
<1>11. MarkerUsed(mem)' /\ MarkerUsed(disk)'
  <2>1. ASSUME NEW i, i \in {mem, disk, Empty, Stored(j)}, i.marker # None
        PROVE  UsedThen(i, i.marker.key)
    <3>1. CASE i \in {mem, disk}
      BY <2>1, <3>1 DEF BooksInv, MarkerUsed, Used, UsedThen
    <3>2. CASE i = Stored(j)
      BY <1>3, <2>1, <3>2 DEF UsedThen
    <3> QED BY <1>4, <2>1, <3>1, <3>2
  <2>2. mem' \in {mem, disk, Empty, Stored(j)} /\ disk' \in {mem, disk, Empty, Stored(j)}
    OBVIOUS
  <2>3. /\ mem'.marker # None => UsedThen(mem', mem'.marker.key)
        /\ disk'.marker # None => UsedThen(disk', disk'.marker.key)
    BY <2>1, <2>2
  <2> QED BY <2>3 DEF MarkerUsed, Used, UsedThen
<1> QED
  BY <1>6, <1>7, <1>8, <1>9, <1>10, <1>11 DEF BooksInv

(* The marker belongs to a goroutine unless a local operation failed; it   *)
(* is gone with the revocation, and at a start the memory is the file.     *)
LEMMA MarkerStep ==
    ASSUME CoreInv, MarkerInv, [Next]_vars
    PROVE  MarkerInv'
<1> USE DEF journalVars, boxVars, historyVars
<1>t. TypeOK /\ mem \in Journals /\ disk \in Journals /\ faults \in Nat /\ LoneInv
  BY DEF CoreInv, TypeOK
<1>n. ASSUME NEW j, SaveFails(j)
      PROVE  faults' # 0 /\ mem' = mem /\ dead' = dead
  BY <1>n, <1>t DEF SaveFails
(* A step after which no marker is left, or which stays as it was with its *)
(* goroutine.                                                              *)
<1>k. ASSUME phase' # "boot",
             dead' => (dead /\ phase # "off") \/ mem'.marker = None,
             \/ mem'.marker = None
             \/ phase' # "on"
             \/ faults' # 0
             \/ /\ phase = "on" /\ faults' = faults
                /\ \A w \in Workers :
                     worker[w].pc # "idle" =>
                       worker'[w].pc # "idle" /\ worker'[w].key = worker[w].key,
             mem'.marker \in {mem.marker, None}
      PROVE  MarkerInv'
  BY <1>k DEF MarkerInv, NoOrphanMarker
<1>1. ASSUME NEW s \in Schedules, NEW t \in 1..MaxTime, ReserveRun(s, t)
      PROVE  MarkerInv'
  <2> DEFINE j == Reserved(mem, s, t)
             k == Key("slot", s, t)
  <2>1. phase' = "on" /\ phase = "on" /\ ~ dead
    BY <1>1 DEF ReserveRun
  <2>2. CASE Saves(j) /\ Now("loop", "claimed", k, None)
    <3>1. j \in Journals /\ j.marker = [key |-> k, phase |-> "claimed"]
      BY <1>t, ReservedType
    <3>2. mem'.marker.key = k /\ dead' = dead
      BY <2>2, <3>1, SavesEffect
    <3>3. worker'["loop"] = [pc |-> "claimed", key |-> k, end |-> None]
      BY <1>t, <2>2, NowAfter DEF Workers
    <3>4. worker'["loop"].pc # "idle" /\ worker'["loop"].key = k
      BY <3>3
    <3> QED BY <2>1, <3>2, <3>4 DEF MarkerInv, NoOrphanMarker, Workers
  <2>3. CASE SaveFails(j)
    BY <1>n, <1>k, <2>1, <2>3
  <2> QED BY <1>1, <2>2, <2>3 DEF ReserveRun
<1>2. ASSUME NEW k \in JobKeys, ClaimJob(k)
      PROVE  MarkerInv'
  <2> DEFINE j == Marked(mem, k, "claimed")
  <2>1. phase' = "on" /\ phase = "on" /\ ~ dead
    BY <1>2 DEF ClaimJob
  <2>2. CASE Saves(j) /\ Now("loop", "claimed", k, None)
    <3>1. j \in Journals /\ j.marker = [key |-> k, phase |-> "claimed"]
      BY <1>t, MarkedType DEF Keys
    <3>2. mem'.marker.key = k /\ dead' = dead
      BY <2>2, <3>1, SavesEffect
    <3>3. worker'["loop"] = [pc |-> "claimed", key |-> k, end |-> None]
      BY <1>t, <2>2, NowAfter DEF Workers
    <3>4. worker'["loop"].pc # "idle" /\ worker'["loop"].key = k
      BY <3>3
    <3> QED BY <2>1, <3>2, <3>4 DEF MarkerInv, NoOrphanMarker, Workers
  <2>3. CASE SaveFails(j)
    BY <1>n, <1>k, <2>1, <2>3
  <2>4. CASE UNCHANGED <<journalVars, worker>>
    BY <1>k, <2>1, <2>4
  <2> QED BY <1>2, <2>2, <2>3, <2>4 DEF ClaimJob
(* A goroutine goes on with its run, or takes up another one.              *)
<1>3. ASSUME phase = "on", phase' = "on", UNCHANGED journalVars,
             NEW w \in Workers, NEW pc, NEW k, NEW end, Now(w, pc, k, end), pc # "idle",
             worker[w].pc = "idle" \/ worker[w].key = k
      PROVE  MarkerInv'
  <2>1. /\ worker'[w] = [pc |-> pc, key |-> k, end |-> end]
        /\ \A v \in Workers : v # w => worker'[v] = worker[v]
    BY <1>3, <1>t, NowAfter
  <2>2. worker'[w].pc # "idle" /\ worker'[w].key = k
    BY <1>3, <2>1
  <2> QED BY <1>3, <1>k, <2>1, <2>2
<1>4. CASE \/ \E k \in SetupKeys : StartPanelSetup(k)
           \/ \E w \in Workers, end \in Ends : EndEarly(w, end)
           \/ \E w \in Workers : Spawn(w) \/ ProcessEnds(w)
  <2>1. PICK w, pc, k, end :
          /\ w \in Workers /\ pc \in {"claimed", "running", "ended"}
          /\ Now(w, pc, k, end) /\ phase = "on" /\ phase' = "on" /\ UNCHANGED journalVars
          /\ worker[w].pc = "idle" \/ worker[w].key = k
    BY <1>4 DEF StartPanelSetup, EndEarly, Spawn, ProcessEnds, PanelFree, Workers
  <2> QED BY <1>3, <2>1
<1>5. ASSUME NEW w \in Workers, MarkStarted(w)
      PROVE  MarkerInv'
  <2> DEFINE k == worker[w].key
             j == Marked(mem, k, "started")
  <2>0. k \in Keys /\ phase' = "on" /\ phase = "on"
    BY <1>5, <1>t, BusyWorker DEF MarkStarted
  <2>1. CASE ~ dead /\ Saves(j) /\ Now(w, "prepared", k, None)
    <3>1. j \in Journals /\ j.marker = [key |-> k, phase |-> "started"]
      BY <1>t, <2>0, MarkedType
    <3>2. mem'.marker.key = k /\ dead' = dead
      BY <2>1, <3>1, SavesEffect
    <3>3. worker'[w] = [pc |-> "prepared", key |-> k, end |-> None]
      BY <1>t, <2>1, NowAfter
    <3>4. worker'[w].pc # "idle" /\ worker'[w].key = k
      BY <3>3
    <3> QED BY <2>0, <2>1, <3>2, <3>4 DEF MarkerInv, NoOrphanMarker
  <2>2. CASE ~ dead /\ SaveFails(j)
    BY <1>n, <1>k, <2>0, <2>2
  <2>3. CASE UNCHANGED journalVars /\ Now(w, "ended", k, "finished")
    BY <1>3, <2>0, <2>3
  <2> QED BY <1>5, <2>1, <2>2, <2>3 DEF MarkStarted
<1>6. CASE Abandon
  <2>1. phase' = "on" /\ phase = "on" /\ faults' # 0 /\ mem' = mem /\ dead' = dead
    BY <1>6, <1>t DEF Abandon
  <2> QED BY <1>k, <2>1
<1>7. ASSUME NEW w \in Workers, Report(w)
      PROVE  MarkerInv'
  <2> DEFINE k == worker[w].key
             j == Appended(mem, Result(k, worker[w].end))
  <2>0. phase' = "on" /\ phase = "on" /\ k \in Keys /\ worker[w].end \in Ends /\ worker[w].pc # "idle"
    BY <1>7, <1>t, BusyWorker DEF Report
  <2>1. CASE ~ dead /\ Saves(j)
    <3>1. /\ j \in Journals
          /\ j.marker # None => j.marker = mem.marker /\ mem.marker.key # k
      BY <1>t, <2>0, AppendedType, ResultType DEF Result
    <3>2. mem'.marker = j.marker /\ dead' = dead /\ faults' = faults
      BY <2>1, <3>1, SavesEffect DEF Saves
    <3>3. faults = 0 => mem'.marker = None
      <4> SUFFICES ASSUME faults = 0, j.marker # None PROVE FALSE
        BY <3>2
      <4>1. PICK v \in Workers : worker[v].pc # "idle" /\ worker[v].key = mem.marker.key
        BY <2>0, <3>1 DEF MarkerInv, NoOrphanMarker
      <4>2. v = w
        BY <1>t, <2>0, <4>1, Alone
      <4> QED BY <3>1, <4>1, <4>2
    <3> QED BY <2>0, <2>1, <3>2, <3>3 DEF MarkerInv, NoOrphanMarker
  <2>2. CASE ~ dead /\ SaveFails(j)
    BY <1>n, <1>k, <2>0, <2>2
  <2>3. CASE dead /\ UNCHANGED journalVars
    <3>1. mem'.marker = None
      BY <2>0, <2>3 DEF MarkerInv
    <3> QED BY <2>0, <3>1 DEF MarkerInv, NoOrphanMarker
  <2> QED BY <1>7, <2>1, <2>2, <2>3 DEF Report
<1>8. CASE Confirmed \/ Rejected
  <2>0. phase = "on" /\ phase' = "on" /\ UNCHANGED worker
    BY <1>8 DEF Confirmed, Rejected
  <2>1. PICK j \in Journals :
          /\ j.marker = mem.marker
          /\ UNCHANGED journalVars \/ (~ dead /\ (Saves(j) \/ SaveFails(j)))
    <3>1. CASE Confirmed
      BY <1>t, <3>1, HeadRemovedType DEF Confirmed
    <3>2. CASE Rejected /\ IsHead(mem, sending)
      BY <1>t, <3>2, HeadDroppedType DEF Rejected, IsHead
    <3>3. CASE Rejected /\ ~ IsHead(mem, sending)
      BY <1>t, <3>3 DEF Rejected
    <3> QED BY <1>8, <3>1, <3>2, <3>3
  <2>2. CASE UNCHANGED journalVars
    BY <1>k, <2>0, <2>2
  <2>3. CASE ~ dead /\ Saves(j)
    <3>1. mem'.marker = mem.marker /\ ~ dead' /\ faults' = faults
      BY <2>1, <2>3, SavesEffect DEF Saves
    <3> QED BY <1>k, <2>0, <3>1
  <2>4. CASE ~ dead /\ SaveFails(j)
    BY <1>n, <1>k, <2>0, <2>4
  <2> QED BY <2>1, <2>2, <2>3, <2>4
<1>9. CASE Revoke
  <2>1. mem'.marker = None /\ phase' = "on"
    BY <1>9, EmptyType DEF Revoke
  <2> QED BY <2>1 DEF MarkerInv, NoOrphanMarker
<1>10. CASE Crash \/ Quit
  BY <1>10 DEF Crash, Quit, Gone, MarkerInv, NoOrphanMarker
<1>11. CASE OpenState
  BY <1>11 DEF OpenState, MarkerInv, NoOrphanMarker
<1>12. CASE Recover
  <2>1. CASE mem.marker = None /\ phase' = "on" /\ UNCHANGED journalVars
    BY <2>1 DEF MarkerInv, NoOrphanMarker
  <2>2. CASE mem.marker # None
    <3> DEFINE r == Result(mem.marker.key, "interrupted")
               j == Appended(mem, r)
    <3>1. r \in Results /\ r.key = mem.marker.key
      BY <1>t, <2>2, JournalParts, ResultType DEF Markers, Ends, Result
    <3>2. j \in Journals /\ j.marker = None
      BY <1>t, <3>1, AppendedType
    <3>3. CASE Saves(j) /\ phase' = "on"
      <4>1. mem'.marker = None
        BY <3>2, <3>3, SavesEffect
      <4> QED BY <3>3, <4>1 DEF MarkerInv, NoOrphanMarker
    <3>4. CASE phase' = "off"
      BY <3>4 DEF MarkerInv, NoOrphanMarker
    <3> QED BY <1>12, <2>2, <3>3, <3>4 DEF Recover
  <2> QED BY <1>12, <2>1, <2>2 DEF Recover
<1>13. CASE \/ DeliverOne \/ Timeout \/ NotDelivered \/ CoreRevokes
            \/ UNCHANGED vars \/ \E r \in Results : CoreAnswer(r)
  BY <1>13 DEF DeliverOne, Timeout, NotDelivered, CoreRevokes, vars, CoreAnswer,
               MarkerInv, NoOrphanMarker
<1> QED
  BY <1>1, <1>2, <1>4, <1>5, <1>6, <1>7, <1>8, <1>9, <1>10, <1>11, <1>12, <1>13 DEF Next

(* Nobody knows of a run that is admitted now, so there is no result.      *)
LEMMA AdmittedFresh ==
    ASSUME BooksInv, NEW k, ~ Remembered(k)
    PROVE  \A r \in Everywhere : r.key # k
BY DEF BooksInv

LEMMA BooksStep ==
    ASSUME CoreInv, OnceInv, ResultInv, [Next]_vars, ~ revoked'
    PROVE  BooksInv' /\ HandsInv'
<1> USE DEF journalVars, boxVars, historyVars
<1>t. /\ TypeOK /\ mem \in Journals /\ disk \in Journals /\ LoneInv /\ TypeOK'
      /\ mem.slots \in [Schedules -> 0..MaxTime]
      /\ Everywhere = ResultsIn(mem) \cup ResultsIn(disk) \cup Out
      /\ Everywhere \subseteq Results
  BY CoreStep, EverywhereParts, JournalParts DEF CoreInv, TypeOK
<1>r. /\ ~ revoked /\ ~ dead' /\ handed \subseteq handed'
      /\ \A k \in Keys : Remembered(k) => Remembered(k)'
  BY GoesOn
<1>b. BooksInv /\ HandsInv /\ OnceRuns /\ MarkerInv
  BY <1>r DEF ResultInv, OnceInv
<1>w. \A w \in Workers : worker[w].pc # "idle" => worker[w].key \in Keys
  BY <1>t, BusyWorker
(* A write of a journal without a new result.                              *)
<1>j. ASSUME NEW j \in Journals,
             \/ Saves(j)
             \/ SaveFails(j)
             \/ mem' \in {mem, Empty} /\ disk' = disk,
             Out' \subseteq Out \cup ResultsIn(mem),
             ResultsIn(j) \subseteq ResultsIn(mem), spawned' = spawned,
             \/ j.marker = mem.marker /\ j.slots = mem.slots
             \/ j.marker = None
             \/ /\ \A r \in Everywhere : r.key # j.marker.key
                /\ UsedThen(j, j.marker.key)
      PROVE  BooksInv' /\ Everywhere' \subseteq Everywhere
  <2> DEFINE N == {}
  <2>1. N \in SUBSET Results
    OBVIOUS
  <2>2. \/ mem' = Stored(j) /\ disk' = Stored(j)
        \/ mem' \in {mem, Empty} /\ disk' \in {disk, Stored(j)}
    BY <1>j DEF Saves, SaveFails
  <2>3. Fresh(ResultsIn(mem) \cup Out \cup N, j.marker)
    BY <1>b, <1>j, <1>t DEF BooksInv, Fresh
  <2>4. j.marker # None => UsedThen(j, j.marker.key)
    BY <1>b, <1>j, <1>r DEF BooksInv, MarkerUsed, Used, UsedThen
  <2>5. ResultsIn(j) \subseteq ResultsIn(mem) \cup N
    BY <1>j
  <2>6. \A r \in Everywhere \cup N : spawned'[r.key] = spawned[r.key]
    BY <1>j
  <2>7. /\ \A r \in N : /\ Remembered(r.key)'
                        /\ r.end = "refused" => spawned[r.key] = 0
                        /\ \A s \in Everywhere : s.key # r.key
        /\ \A r, s \in N : r = s
    OBVIOUS
  <2>8. BooksInv' /\ Everywhere' \subseteq Everywhere \cup N
    <3> HIDE DEF N
    <3> QED
      BY <1>t, <1>r, <1>b, <1>j, <2>1, <2>2, <2>3, <2>4, <2>5, <2>6, <2>7, WriteBooks
  <2> QED BY <2>8
(* A write with the result of a run that has none.                         *)
<1>a. ASSUME NEW r \in Results, Remembered(r.key), r.end = "refused" => spawned[r.key] = 0,
             \A s \in Everywhere : s.key # r.key,
             \/ Saves(Appended(mem, r))
             \/ mem' \in {mem, Empty} /\ disk' \in {disk, Stored(Appended(mem, r))},
             Out' \subseteq Out, spawned' = spawned
      PROVE  BooksInv' /\ Everywhere' \subseteq Everywhere \cup {r}
  <2> DEFINE j == Appended(mem, r)
             N == {r}
  <2>0. r.key \in Keys
    BY DEF Results
  <2>1. /\ j \in Journals
        /\ ResultsIn(j) \subseteq ResultsIn(mem) \cup N
        /\ j.slots = mem.slots
        /\ j.marker # None => j.marker = mem.marker /\ mem.marker.key # r.key
    BY <1>t, AppendedType
  <2>2. /\ N \in SUBSET Results
        /\ Out' \subseteq Out \cup ResultsIn(mem)
        /\ \A s, u \in N : s = u
        /\ \A s \in Everywhere \cup N : spawned'[s.key] = spawned[s.key]
        /\ \A s \in N : /\ Remembered(s.key)'
                        /\ s.end = "refused" => spawned[s.key] = 0
                        /\ \A u \in Everywhere : u.key # s.key
    BY <1>a, <1>r, <2>0
  <2>3. \/ mem' = Stored(j) /\ disk' = Stored(j)
        \/ mem' \in {mem, Empty} /\ disk' \in {disk, Stored(j)}
    BY <1>a DEF Saves
  <2>4. Fresh(ResultsIn(mem) \cup Out \cup N, j.marker)
    BY <1>b, <2>1 DEF BooksInv, Fresh
  <2>5. j.marker # None => UsedThen(j, j.marker.key)
    BY <1>b, <1>r, <2>1 DEF BooksInv, MarkerUsed, Used, UsedThen
  <2>6. BooksInv' /\ Everywhere' \subseteq Everywhere \cup N
    <3> HIDE DEF j, N
    <3> QED
      BY <1>t, <1>r, <1>b, <2>1, <2>2, <2>3, <2>4, <2>5, WriteBooks
  <2> QED BY <2>6
(* The journals stay as they are.                                          *)
<1>q. ASSUME UNCHANGED <<mem, disk, spawned>>, Out' \subseteq Out \cup ResultsIn(mem)
      PROVE  BooksInv' /\ Everywhere' \subseteq Everywhere
  BY <1>j, <1>q, <1>t
(* Every goroutine rests, or goes on with its run and makes no refusal.    *)
<1>h. ASSUME spawned' = spawned, Everywhere' \subseteq Everywhere,
             \A w \in Workers :
               \/ worker'[w].pc = "idle"
               \/ /\ worker[w].pc # "idle" /\ worker'[w].key = worker[w].key
                  /\ \/ worker'[w].pc # "ended"
                     \/ worker'[w].end # "refused"
                     \/ worker[w].pc = "claimed"
                     \/ worker[w].pc = "ended" /\ worker[w].end = worker'[w].end
      PROVE  HandsInv'
  BY <1>b, <1>h DEF HandsInv, OnceRuns
<1>i. ASSUME UNCHANGED <<worker, spawned>>, Everywhere' \subseteq Everywhere
      PROVE  HandsInv'
  BY <1>b, <1>i DEF HandsInv
(* A goroutine takes up a run nobody knew.                                 *)
<1>c. ASSUME NEW v \in Workers, NEW k \in Keys, Now(v, "claimed", k, None),
             \A r \in Everywhere : r.key # k,
             Everywhere' \subseteq Everywhere, spawned' = spawned
      PROVE  HandsInv'
  <2>1. /\ worker'[v] = [pc |-> "claimed", key |-> k, end |-> None]
        /\ \A w \in Workers : w # v => worker'[w] = worker[w]
    BY <1>c, <1>t, NowAfter
  <2>2. worker'[v].pc = "claimed" /\ worker'[v].key = k
    BY <2>1
  <2> QED BY <1>b, <1>c, <2>1, <2>2 DEF HandsInv
<1>1. ASSUME NEW s \in Schedules, NEW t \in 1..MaxTime, ReserveRun(s, t)
      PROVE  BooksInv' /\ HandsInv'
  <2> DEFINE j == Reserved(mem, s, t)
             k == Key("slot", s, t)
  <2>1. k \in SlotKeys /\ k \in Keys /\ k.name = s /\ k.at = t
    BY SlotKeyRecord DEF Keys
  <2>2. j \in Journals /\ ResultsIn(j) = ResultsIn(mem) /\ j.marker.key = k
    <3>1. /\ j \in Journals /\ ResultsIn(j) = ResultsIn(mem)
          /\ j.marker = [key |-> k, phase |-> "claimed"]
      <4>1. mem \in Journals
        BY <1>t
      <4> QED BY <4>1, ReservedType
    <3> HIDE DEF j, k
    <3> QED BY <3>1
  <2>3. j.slots[s] = t
    BY <1>t DEF Reserved, Journals
  <2>4. phase = "on" /\ mem.slots[s] < t /\ spawned' = spawned /\ Out' = Out
    BY <1>1 DEF ReserveRun, MayReserve, Out
  <2>5. ~ Remembered(k)
    BY <1>t, <2>1, <2>4, BoundsAssumption DEF Remembered, Used
  <2>6. \A r \in Everywhere : r.key # k
    <3> HIDE DEF k
    <3> QED BY <1>b, <2>5, AdmittedFresh
  <2>7. UsedThen(j, k)
    BY <2>1, <2>3, BoundsAssumption DEF UsedThen
  <2>8. CASE Saves(j) /\ Now("loop", "claimed", k, None)
    <3> HIDE DEF j, k
    <3>1. BooksInv' /\ Everywhere' \subseteq Everywhere
      BY <1>j, <2>2, <2>4, <2>6, <2>7, <2>8
    <3> QED BY <1>c, <2>1, <2>4, <2>6, <2>8, <3>1 DEF Workers
  <2>9. CASE SaveFails(j) /\ UNCHANGED worker
    <3> HIDE DEF j, k
    <3>1. BooksInv' /\ Everywhere' \subseteq Everywhere
      BY <1>j, <2>2, <2>4, <2>6, <2>7, <2>9
    <3> QED BY <1>i, <2>4, <2>9, <3>1
  <2> QED BY <1>1, <2>8, <2>9 DEF ReserveRun
(* The box hands out a job or a setup nobody has heard of.                 *)
<1>2. ASSUME NEW k \in JobKeys \cup SetupKeys, k \notin handed
      PROVE  k \in Keys /\ k \notin SlotKeys /\ \A r \in Everywhere : r.key # k
  <2>1. k \in Keys /\ k \notin SlotKeys
    BY <1>2, OtherKeys
  <2>2. ~ Remembered(k)
    BY <1>2, <2>1 DEF Remembered, Used
  <2> QED BY <1>b, <2>1, <2>2, AdmittedFresh
<1>3. ASSUME NEW k \in JobKeys, ClaimJob(k)
      PROVE  BooksInv' /\ HandsInv'
  <2> DEFINE j == Marked(mem, k, "claimed")
  <2>1. /\ k \notin handed /\ handed' = handed \cup {k}
        /\ spawned' = spawned /\ Out' = Out
    BY <1>3 DEF ClaimJob, Out
  <2>2. k \in Keys /\ k \notin SlotKeys /\ \A r \in Everywhere : r.key # k
    BY <1>2, <2>1
  <2>3. /\ j \in Journals /\ ResultsIn(j) = ResultsIn(mem)
        /\ j.marker = [key |-> k, phase |-> "claimed"]
    BY <1>t, <2>2, MarkedType
  <2>4. UsedThen(j, k) /\ j.marker.key = k
    BY <2>1, <2>2, <2>3 DEF UsedThen
  <2>5. CASE Saves(j) /\ Now("loop", "claimed", k, None)
    <3> HIDE DEF j
    <3>1. BooksInv' /\ Everywhere' \subseteq Everywhere
      BY <1>j, <2>1, <2>2, <2>3, <2>4, <2>5
    <3> QED BY <1>c, <2>1, <2>2, <2>5, <3>1 DEF Workers
  <2>6. CASE SaveFails(j) /\ UNCHANGED worker
    <3> HIDE DEF j
    <3>1. BooksInv' /\ Everywhere' \subseteq Everywhere
      BY <1>j, <2>1, <2>2, <2>3, <2>4, <2>6
    <3> QED BY <1>i, <2>1, <2>6, <3>1
  <2>7. CASE UNCHANGED <<journalVars, worker>>
    BY <1>q, <1>i, <2>1, <2>7
  <2> QED BY <1>3, <2>5, <2>6, <2>7 DEF ClaimJob
<1>4. ASSUME NEW k \in SetupKeys, StartPanelSetup(k)
      PROVE  BooksInv' /\ HandsInv'
  <2>1. /\ k \notin handed /\ UNCHANGED <<mem, disk, spawned>> /\ Out' = Out
        /\ Now("panel", "claimed", k, None)
    BY <1>4 DEF StartPanelSetup, Out
  <2>2. k \in Keys /\ \A r \in Everywhere : r.key # k
    BY <1>2, <2>1
  <2> QED BY <1>c, <1>q, <2>1, <2>2 DEF Workers
(* A goroutine goes on with its run, or gives it up, without a write.      *)
<1>5. CASE \/ \E w \in Workers, end \in Ends : EndEarly(w, end)
           \/ \E w \in Workers : ProcessEnds(w)
           \/ Abandon
  <2>1. UNCHANGED <<mem, disk, spawned>> /\ Out' = Out
    BY <1>5 DEF EndEarly, ProcessEnds, Abandon, Out
  <2>2. PICK w \in Workers :
          /\ worker[w].pc # "idle"
          /\ \/ Rests(w)
             \/ \E end \in Ends : /\ Now(w, "ended", worker[w].key, end)
                                  /\ worker[w].pc = "claimed" \/ end # "refused"
    BY <1>5 DEF EndEarly, ProcessEnds, Abandon, Ends, Workers
  <2>3. \A v \in Workers : v # w => worker'[v].pc = "idle"
    BY <1>t, <2>2, Alone DEF Rests, Now, TypeOK
  <2>4. \/ worker'[w].pc = "idle"
        \/ /\ worker'[w].key = worker[w].key
           /\ worker[w].pc = "claimed" \/ worker'[w].end # "refused"
    BY <1>t, <2>2 DEF Rests, Now, Idle, TypeOK
  <2>5. BooksInv' /\ Everywhere' \subseteq Everywhere
    BY <1>q, <2>1
  <2> QED BY <1>h, <2>1, <2>2, <2>3, <2>4, <2>5
<1>6. ASSUME NEW w \in Workers, MarkStarted(w)
      PROVE  BooksInv' /\ HandsInv'
  <2> DEFINE k == worker[w].key
             j == Marked(mem, k, "started")
  <2>1. k \in Keys /\ worker[w].pc = "claimed" /\ phase = "on" /\ spawned' = spawned /\ Out' = Out
    BY <1>6, <1>w DEF MarkStarted, Out
  <2>2. Remembered(k) /\ \A r \in Everywhere : r.key # k
    BY <1>b, <2>1 DEF HandsInv, OnceRuns
  <2>3. /\ j \in Journals /\ ResultsIn(j) = ResultsIn(mem) /\ j.slots = mem.slots
        /\ j.marker = [key |-> k, phase |-> "started"]
    BY <1>t, <2>1, MarkedType
  <2>4. UsedThen(j, k) /\ j.marker.key = k
    BY <1>r, <2>1, <2>2, <2>3 DEF UsedThen, Remembered, Used
  <2>5. BooksInv' /\ Everywhere' \subseteq Everywhere
    <3>1. Saves(j) \/ SaveFails(j) \/ UNCHANGED <<mem, disk>>
      BY <1>6 DEF MarkStarted
    <3>2. CASE Saves(j) \/ SaveFails(j)
      <4> HIDE DEF j, k
      <4> QED BY <1>j, <2>1, <2>2, <2>3, <2>4, <3>2
    <3>3. CASE UNCHANGED <<mem, disk>>
      BY <1>q, <2>1, <3>3
    <3> QED BY <3>1, <3>2, <3>3
  <2>6. PICK pc, end : pc \in {"prepared", "ended"} /\ Now(w, pc, k, end)
    BY <1>6 DEF MarkStarted
  <2>7. /\ worker'[w].key = k
        /\ \A v \in Workers : v # w => worker'[v].pc = "idle"
    BY <1>t, <2>1, <2>6, Alone DEF Now, TypeOK
  <2> QED BY <1>h, <2>1, <2>5, <2>7
(* A run that is started has no result yet, so none becomes untrue.        *)
<1>7. ASSUME NEW w \in Workers, Spawn(w)
      PROVE  BooksInv' /\ HandsInv'
  <2>1. PICK k \in Keys : k = worker[w].key /\ worker[w].pc = "prepared"
    BY <1>7, <1>w DEF Spawn
  <2>2. /\ UNCHANGED <<mem, disk>> /\ Out' = Out
        /\ Now(w, "running", k, None)
        /\ spawned' = [spawned EXCEPT ![k] = @ + 1]
    BY <1>7, <2>1 DEF Spawn, Out
  <2>3. \A r \in Everywhere : r.key # k
    BY <1>b, <2>1 DEF HandsInv
  <2>4. \A r \in Everywhere : spawned'[r.key] = spawned[r.key]
    BY <1>t, <2>2, <2>3 DEF TypeOK, Results
  <2> DEFINE N == {}
  <2>5. /\ N \in SUBSET Results
        /\ \A r \in N : /\ Remembered(r.key)'
                        /\ r.end = "refused" => spawned[r.key] = 0
                        /\ \A s \in Everywhere : s.key # r.key
        /\ \A r, s \in N : r = s
        /\ \A r \in Everywhere \cup N : spawned'[r.key] = spawned[r.key]
        /\ ResultsIn(mem) \subseteq ResultsIn(mem) \cup N
    BY <2>4
  <2>6. Fresh(ResultsIn(mem) \cup Out \cup N, mem.marker)
    BY <1>b DEF BooksInv, Fresh
  <2>7. mem.marker # None => UsedThen(mem, mem.marker.key)
    BY <1>b, <1>r DEF BooksInv, MarkerUsed, Used, UsedThen
  <2>8. BooksInv' /\ Everywhere' \subseteq Everywhere \cup N
    <3> HIDE DEF N
    <3> QED BY <1>t, <1>r, <1>b, <2>2, <2>5, <2>6, <2>7, WriteBooks
  <2>9. /\ worker'[w].pc = "running" /\ worker'[w].key = k
        /\ \A v \in Workers : v # w => worker'[v].pc = "idle"
    BY <1>t, <2>1, <2>2, Alone DEF Now, TypeOK
  <2> QED BY <2>3, <2>8, <2>9 DEF HandsInv
<1>8. ASSUME NEW w \in Workers, Report(w)
      PROVE  BooksInv' /\ HandsInv'
  <2>1. PICK k \in Keys, end \in Ends :
          worker[w].pc = "ended" /\ k = worker[w].key /\ end = worker[w].end
    BY <1>8, <1>t, BusyWorker DEF Report
  <2> DEFINE r == Result(k, end)
             j == Appended(mem, r)
  <2>2. /\ Saves(j) \/ SaveFails(j) \/ UNCHANGED <<mem, disk>>
        /\ spawned' = spawned /\ Out' = Out /\ Rests(w)
    BY <1>8, <2>1 DEF Report, Out
  <2>3. r \in Results /\ r.key = k /\ r.end = end
    BY ResultType DEF Result
  <2>4. /\ Remembered(k)
        /\ end = "refused" => spawned[k] = 0
        /\ \A s \in Everywhere : s.key # k
    BY <1>b, <2>1 DEF HandsInv, OnceRuns
  <2>5. \A v \in Workers : worker'[v].pc = "idle"
    BY <1>t, <2>1, <2>2, Alone, RestsAfter
  <2>6. CASE Saves(j) \/ SaveFails(j)
    <3>1. Saves(j) \/ (mem' \in {mem, Empty} /\ disk' \in {disk, Stored(j)})
      BY <2>6 DEF SaveFails
    <3>2. BooksInv'
      <4> HIDE DEF r
      <4> QED BY <1>a, <2>2, <2>3, <2>4, <3>1
    <3> QED BY <2>5, <3>2 DEF HandsInv
  <2>7. CASE UNCHANGED <<mem, disk>>
    BY <1>q, <2>2, <2>5, <2>7 DEF HandsInv
  <2> QED BY <2>2, <2>6, <2>7
(* The result on its way is the oldest of the memory; the box keeps what   *)
(* was on its way.                                                         *)
<1>9. CASE DeliverOne \/ Timeout \/ NotDelivered \/ \E r \in Results : CoreAnswer(r)
  <2>1. UNCHANGED <<mem, disk, spawned, worker>>
    BY <1>9 DEF DeliverOne, Timeout, NotDelivered, CoreAnswer
  <2>2. Out' \subseteq Out \cup ResultsIn(mem)
    <3>1. CASE DeliverOne
      BY <1>t, <3>1, TailType DEF DeliverOne, Out
    <3>2. CASE Timeout \/ NotDelivered
      BY <3>2 DEF Timeout, NotDelivered, Sent, Out
    <3>3. ASSUME NEW r \in Results, CoreAnswer(r)
          PROVE  Out' \subseteq Out
      <4>1. r \in net /\ net' = net \ {r} /\ sending' = sending
        BY <3>3 DEF CoreAnswer
      <4>2. \A k \in Keys : core'[k] \in {core[k], r}
        BY <1>t, <3>3 DEF CoreAnswer, TypeOK
      <4> QED BY <4>1, <4>2 DEF Out
    <3> QED BY <1>9, <3>1, <3>2, <3>3
  <2> QED BY <1>q, <1>i, <2>1, <2>2
<1>10. CASE Confirmed \/ Rejected
  <2>1. UNCHANGED <<worker, spawned>> /\ Out' \subseteq Out
    BY <1>10 DEF Confirmed, Rejected, Sent, Out
  <2>2. PICK j \in Journals :
          /\ j.marker = mem.marker /\ j.slots = mem.slots
          /\ ResultsIn(j) \subseteq ResultsIn(mem)
          /\ UNCHANGED <<mem, disk>> \/ Saves(j) \/ SaveFails(j)
    <3>1. CASE Confirmed
      BY <1>t, <3>1, HeadRemovedType DEF Confirmed
    <3>2. CASE Rejected /\ IsHead(mem, sending)
      BY <1>t, <3>2, HeadDroppedType DEF Rejected, IsHead
    <3>3. CASE Rejected /\ ~ IsHead(mem, sending)
      BY <1>t, <3>3 DEF Rejected
    <3> QED BY <1>10, <3>1, <3>2, <3>3
  <2>3. BooksInv' /\ Everywhere' \subseteq Everywhere
    <3>1. CASE UNCHANGED <<mem, disk>>
      BY <1>q, <2>1, <3>1
    <3>2. CASE Saves(j) \/ SaveFails(j)
      BY <1>j, <2>1, <2>2, <3>2
    <3> QED BY <2>2, <3>1, <3>2
  <2> QED BY <1>i, <2>1, <2>3
(* A death loses the memory; a start takes the file for it.                *)
<1>11. CASE Crash \/ Quit
  <2>1. /\ mem' = Empty /\ disk' = disk /\ spawned' = spawned /\ Out' \subseteq Out
        /\ \A w \in Workers : worker'[w].pc = "idle"
    BY <1>11 DEF Crash, Quit, Gone, Idle, Out
  <2>2. BooksInv'
    BY <1>j, <1>t, <2>1
  <2> QED BY <2>1, <2>2 DEF HandsInv
<1>12. CASE OpenState
  <2>1. mem' = disk /\ disk' = disk /\ spawned' = spawned /\ Out' = Out /\ UNCHANGED worker
    BY <1>12 DEF OpenState, Out
  <2>2. /\ ResultsIn(mem)' = ResultsIn(disk) /\ ResultsIn(disk)' = ResultsIn(disk)
        /\ Everywhere' = ResultsIn(mem)' \cup ResultsIn(disk)' \cup Out'
    BY <2>1 DEF ResultsIn, Everywhere, Out
  <2>3. Everywhere' \subseteq Everywhere /\ ResultsIn(mem)' \cup Out' \subseteq Everywhere
    BY <1>t, <2>1, <2>2
  <2>4. \A r, s \in Everywhere' : r.key = s.key => r = s
    BY <1>b, <2>3 DEF BooksInv
  <2>5. \A r \in Everywhere' :
          Remembered(r.key)' /\ (r.end = "refused" => spawned'[r.key] = 0)
    BY <1>b, <1>r, <1>t, <2>1, <2>3 DEF BooksInv, Results
  <2>6. Fresh(ResultsIn(mem)' \cup Out', mem'.marker) /\ Fresh(Everywhere', disk'.marker)
    BY <1>b, <2>1, <2>3 DEF BooksInv, Fresh
  <2>7. MarkerUsed(mem)' /\ MarkerUsed(disk)'
    <3>1. disk.marker # None => UsedThen(disk, disk.marker.key)
      BY <1>b, <1>r DEF BooksInv, MarkerUsed, Used, UsedThen
    <3> QED BY <2>1, <3>1 DEF MarkerUsed, Used, UsedThen
  <2>8. BooksInv'
    BY <2>4, <2>5, <2>6, <2>7 DEF BooksInv
  <2> QED BY <1>i, <2>1, <2>3, <2>8
(* At the start the marker of both copies becomes a result of its own.     *)
<1>13. CASE Recover
  <2>1. /\ phase = "boot" /\ mem = disk /\ UNCHANGED <<worker, spawned>> /\ Out' = Out
        /\ \A w \in Workers : worker'[w].pc = "idle"
    BY <1>13, <1>b, <1>t DEF Recover, MarkerInv, LoneInv, Out
  <2>2. CASE UNCHANGED <<mem, disk>>
    BY <1>q, <1>i, <2>1, <2>2
  <2>3. CASE mem.marker # None
    <3> DEFINE r == Result(mem.marker.key, "interrupted")
               j == Appended(mem, r)
    <3>1. /\ r \in Results /\ r.key = mem.marker.key /\ r.end = "interrupted"
          /\ mem.marker.key \in Keys
      BY <1>t, <2>3, JournalParts, ResultType DEF Markers, Ends, Result
    <3>2. Remembered(mem.marker.key) /\ \A s \in Everywhere : s.key # mem.marker.key
      BY <1>b, <2>1, <2>3 DEF BooksInv, MarkerUsed, Remembered, Fresh
    <3>3. \/ UNCHANGED <<mem, disk>>
          \/ Saves(j)
          \/ mem' \in {mem, Empty} /\ disk' \in {disk, Stored(j)}
      BY <1>13 DEF Recover
    <3>4. BooksInv'
      <4> HIDE DEF r
      <4> QED BY <1>a, <1>q, <2>1, <3>1, <3>2, <3>3
    <3> QED BY <2>1, <3>4 DEF HandsInv
  <2> QED BY <1>13, <2>2, <2>3 DEF Recover
<1>14. CASE UNCHANGED vars
  BY <1>q, <1>i, <1>14 DEF vars, Out
<1>15. CASE CoreRevokes \/ Revoke
  BY <1>r, <1>15 DEF CoreRevokes, Revoke
<1> QED
  BY <1>1, <1>3, <1>4, <1>5, <1>6, <1>7, <1>8, <1>9, <1>10, <1>11, <1>12, <1>13, <1>14,
     <1>15 DEF Next

(* Wherever copies of results are, in memory, in the file, on the wire or  *)
(* at the box, a run has one; "refused" is said of no run whose process    *)
(* was started; and without a failing local operation no marker is left    *)
(* that belongs to no goroutine.  The first two hold until the device is   *)
(* revoked, through every crash, failing save, lost request and restart.   *)
THEOREM ResultsTrue == Spec => []ResultsSound
<1>1. Init => OnceInv
  BY DEF Init, OnceInv, OnceRuns, Idle
<1>2. CoreInv /\ OnceInv /\ [Next]_vars => OnceInv'
  BY OnceStep
<1>3. Init => ResultInv
  <2> SUFFICES ASSUME Init PROVE ResultInv
    OBVIOUS
  <2>1. mem.marker = None /\ disk.marker = None /\ mem = disk /\ phase = "off"
    BY EmptyType DEF Init
  <2>2. ResultsIn(mem) = {} /\ ResultsIn(disk) = {} /\ Everywhere = {}
    BY EmptyType DEF Init, Everywhere
  <2>3. \A w \in Workers : worker[w].pc = "idle"
    BY DEF Init, Idle
  <2> QED
    BY <2>1, <2>2, <2>3 DEF ResultInv, MarkerInv, NoOrphanMarker, BooksInv, HandsInv,
                            Fresh, MarkerUsed
<1>4. CoreInv /\ OnceInv /\ ResultInv /\ [Next]_vars => ResultInv'
  BY MarkerStep, BooksStep DEF ResultInv
<1>5. ResultInv => ResultsSound
  BY DEF ResultInv, MarkerInv, BooksInv, ResultsSound, OneResultPerRun, RefusedMeansNotStarted
<1> QED
  BY <1>1, <1>2, <1>3, <1>4, <1>5, CoreAlways, PTL DEF Spec

(* Both: a run is started at most once, and what is said of it is so.      *)
THEOREM RunsAreSound == Spec => []RunsSound
BY StartedOnce, ResultsTrue, PTL DEF RunsSound

-----------------------------------------------------------------------------
(* The loss counter.  The invariant behind it: the file and, while the     *)
(* runner lives, the memory each count what they have lost; what is        *)
(* confirmed is at the box, and the 400 answers in a row that the runner   *)
(* has counted were all given to this one result.                          *)

Loss(j) == {k \in reported : core[k] = None /\ k \notin KeysOf(j.results)}
LossThen(j) == {k \in reported' : core'[k] = None /\ k \notin KeysOf(j.results)}

CountInv == /\ IsFiniteSet(reported)
            /\ Cardinality(Loss(disk)) <= disk.dropped
            /\ phase # "off" => Cardinality(Loss(mem)) <= mem.dropped

SentInv ==
    /\ reply # None => sending \in Results
    /\ reply = "204" => core[sending.key] # None
    /\ \A r \in Results : reject.res = r => reject.n <= refusals[r.key] \/ refusals[r.key] >= RejectLimit
    /\ reply = "400" =>
         /\ refusals[sending.key] >= 1
         /\ reject.res = sending => \/ reject.n + 1 <= refusals[sending.key]
                                    \/ refusals[sending.key] >= RejectLimit

(* The answers are text; None is not one of them.                          *)
LEMMA NoneNoAnswer == None \notin {"204", "400", "409", "401", "timeout"}
BY ReplyAssumption

(* What eviction takes away it counts.                                     *)
LEMMA EvictedFew ==
    ASSUME NEW j \in Journals
    PROVE  \E E : /\ KeysOf(j.results) \subseteq KeysOf(Stored(j).results) \cup E
                  /\ IsFiniteSet(E) /\ Cardinality(E) <= Evicted(j)
                  /\ Evicted(j) \in Nat /\ Stored(j).dropped = j.dropped + Evicted(j)
<1> DEFINE n == Evicted(j)
           rs == j.results
           L == Len(rs)
           w == SubSeq(rs, n + 1, L)
           f == [i \in 1..n |-> rs[i].key]
           E == {f[i] : i \in 1..n}
<1>1. rs \in Seq(Results) /\ L \in Nat /\ DOMAIN rs = 1..L /\ n \in 0..L
  BY JournalParts, EvictedRange
<1>2. n \in Nat
  BY <1>1
<1>3. Stored(j).results = w /\ Stored(j).dropped = j.dropped + n
  <2>1. Stored(j) = [j EXCEPT !.results = w, !.dropped = @ + n]
    BY DEF Stored, WithoutOldest
  <2> HIDE DEF w, n
  <2> QED BY <2>1 DEF Journals
<1>4. KeysOf(rs) \subseteq KeysOf(w) \cup E
  <2>1. \A i \in n+1 .. L : rs[i] \in Results
    BY <1>1, ElementOfSeq
  <2> HIDE DEF rs, L, n
  <2>2. /\ w \in Seq(Results)
        /\ Len(w) = IF n + 1 <= L THEN L - (n + 1) + 1 ELSE 0
        /\ \A i \in 1 .. L - (n + 1) + 1 : w[i] = rs[n + 1 + i - 1]
    BY <1>1, <1>2, <2>1, SubSeqProperties
  <2>3. Len(w) = L - n
    BY <1>1, <2>2
  <2>4. DOMAIN w = 1..(L - n)
    BY <2>2, <2>3, LenProperties
  <2> HIDE DEF w
  <2> SUFFICES ASSUME NEW i \in 1..L PROVE rs[i].key \in KeysOf(w) \cup E
    BY <1>1 DEF KeysOf
  <2>5. CASE i <= n
    <3>1. i \in 1..n
      BY <1>2, <2>5
    <3> QED BY <3>1
  <2>6. CASE ~(i <= n)
    <3>1. (i - n) \in 1..(L - n) /\ n + 1 + (i - n) - 1 = i /\ (i - n) \in 1..L - (n + 1) + 1
      BY <1>1, <1>2, <2>6
    <3>2. w[i - n] = rs[i] /\ (i - n) \in DOMAIN w
      BY <2>2, <2>4, <3>1
    <3> QED BY <3>2 DEF KeysOf
  <2> QED BY <2>5, <2>6
<1>5. IsFiniteSet(E) /\ Cardinality(E) <= n
  <2> HIDE DEF n
  <2>1. IsFiniteSet(1..n) /\ Cardinality(1..n) = n
    BY <1>2, FS_Interval
  <2>2. f \in Surjection(1..n, E)
    BY DEF Surjection
  <2> HIDE DEF f, E
  <2> QED BY <1>2, <2>1, <2>2, FS_Surjection
<1> QED BY <1>2, <1>3, <1>4, <1>5

(* A journal that counts at least as much, of which at most E is missing.  *)
LEMMA StillCounted ==
    ASSUME NEW A, NEW B, NEW E, NEW a \in Nat, NEW e \in Nat, IsFiniteSet(A), IsFiniteSet(E),
           Cardinality(A) <= a, Cardinality(E) <= e, B \subseteq A \cup E
    PROVE  IsFiniteSet(B) /\ Cardinality(B) <= a + e
<1>1. IsFiniteSet(A \cup E) /\ Cardinality(A \cup E) = Cardinality(A) + Cardinality(E) - Cardinality(A \cap E)
  BY FS_Union
<1>2. Cardinality(A) \in Nat /\ Cardinality(E) \in Nat /\ Cardinality(A \cup E) \in Nat
  BY <1>1, FS_CardinalityType
<1>3. IsFiniteSet(A \cap E) /\ Cardinality(A \cap E) \in Nat
  <2>1. A \cap E \in SUBSET A
    OBVIOUS
  <2>2. IsFiniteSet(A \cap E)
    BY <2>1, FS_Subset
  <2> QED BY <2>2, FS_CardinalityType
<1>4. IsFiniteSet(B) /\ Cardinality(B) <= Cardinality(A \cup E)
  BY <1>1, FS_Subset
<1>5. Cardinality(B) \in Nat
  BY <1>4, FS_CardinalityType
<1> QED BY <1>1, <1>2, <1>3, <1>4, <1>5

(* A saved journal has counted what it lacks if the journal had.           *)
LEMMA StoredCounts ==
    ASSUME NEW j \in Journals, IsFiniteSet(reported), Cardinality(Loss(j)) <= j.dropped
    PROVE  Cardinality(Loss(Stored(j))) <= Stored(j).dropped
<1>1. PICK E : /\ KeysOf(j.results) \subseteq KeysOf(Stored(j).results) \cup E
               /\ IsFiniteSet(E) /\ Cardinality(E) <= Evicted(j)
               /\ Evicted(j) \in Nat /\ Stored(j).dropped = j.dropped + Evicted(j)
  BY EvictedFew
<1>2. Loss(Stored(j)) \subseteq Loss(j) \cup E
  BY <1>1 DEF Loss
<1>3. IsFiniteSet(Loss(j))
  <2>1. Loss(j) \in SUBSET reported
    BY DEF Loss
  <2> QED BY <2>1, FS_Subset
<1>4. j.dropped \in Nat
  BY JournalParts
<1> DEFINE A == Loss(j)
           B == Loss(Stored(j))
           a == j.dropped
           e == Evicted(j)
<1>5. /\ a \in Nat /\ e \in Nat /\ IsFiniteSet(A) /\ IsFiniteSet(E) /\ Cardinality(A) <= a
      /\ Cardinality(E) <= e /\ B \subseteq A \cup E /\ Stored(j).dropped = a + e
  BY <1>1, <1>2, <1>3, <1>4
<1> HIDE DEF A, B, a, e
<1>6. Cardinality(B) <= a + e
  BY <1>5, StillCounted
<1> QED BY <1>5, <1>6 DEF B

(* The calls of State before the save.                                     *)
LEMMA AppendedLacks ==
    ASSUME NEW j \in Journals, NEW r \in Results
    PROVE  Appended(j, r).dropped = j.dropped
           /\ KeysOf(Appended(j, r).results) = KeysOf(j.results) \cup {r.key}
<1>1. /\ Appended(j, r) \in Journals /\ ResultsIn(Appended(j, r)) = ResultsIn(j) \cup {r}
  BY AppendedType
<1>2. \A i : KeysOf(i.results) = {x.key : x \in ResultsIn(i)}
  BY DEF KeysOf, ResultsIn
<1>3. Appended(j, r).dropped = j.dropped
  BY DEF Appended, Journals
<1>4. {x.key : x \in ResultsIn(j) \cup {r}} = {x.key : x \in ResultsIn(j)} \cup {r.key}
  OBVIOUS
<1>5. KeysOf(Appended(j, r).results) = {x.key : x \in ResultsIn(j) \cup {r}}
  BY <1>1, <1>2
<1> QED BY <1>2, <1>3, <1>4, <1>5

(* A step that saves j, or fails to, or leaves the journal alone: it is    *)
(* enough that j has counted what it lacks afterwards.                     *)
LEMMA CountAfter ==
    ASSUME TypeOK, TypeOK', CountInv, ~ dead',
           IsFiniteSet(reported'),
           \A k \in Keys : core'[k] = None => core[k] = None,
           NEW j \in Journals,
           \/ /\ Saves(j) /\ Cardinality(LossThen(j)) <= j.dropped
           \/ /\ reported' = reported /\ Cardinality(Loss(j)) <= j.dropped
              /\ disk' \in {disk, Stored(j)} /\ ((phase' = "off") \/ (phase # "off" /\ mem' = mem) \/ (mem' = disk /\ disk' = disk))
    PROVE  CountInv'
<1>1. /\ mem \in Journals /\ disk \in Journals /\ Stored(j) \in Journals /\ mem.dropped \in Nat
      /\ disk.dropped \in Nat /\ j.dropped \in Nat /\ Stored(j).dropped \in Nat /\ reported \subseteq Keys
      /\ reported' \subseteq Keys
  BY StoredType, JournalParts DEF TypeOK
<1>2. ASSUME NEW i \in Journals, i.dropped \in Nat, reported' = reported, Cardinality(Loss(i)) <= i.dropped
      PROVE  Cardinality(LossThen(i)) <= i.dropped
  <2>1. LossThen(i) \subseteq Loss(i)
    BY <1>1, <1>2 DEF Loss, LossThen
  <2>2. Loss(i) \in SUBSET reported
    BY DEF Loss
  <2>3. IsFiniteSet(Loss(i)) /\ Cardinality(Loss(i)) \in Nat
    <3>1. IsFiniteSet(Loss(i))
      BY <2>2, FS_Subset DEF CountInv
    <3> QED BY <3>1, FS_CardinalityType
  <2>4. Cardinality(LossThen(i)) <= Cardinality(Loss(i)) /\ IsFiniteSet(LossThen(i))
    BY <2>1, <2>3, FS_Subset
  <2>5. Cardinality(LossThen(i)) \in Nat
    BY <2>4, FS_CardinalityType
  <2> QED BY <1>2, <2>3, <2>4, <2>5
<1>3. ASSUME Cardinality(LossThen(j)) <= j.dropped
      PROVE  Cardinality(LossThen(Stored(j))) <= Stored(j).dropped
  <2>1. PICK E : /\ KeysOf(j.results) \subseteq KeysOf(Stored(j).results) \cup E
                 /\ IsFiniteSet(E) /\ Cardinality(E) <= Evicted(j)
                 /\ Evicted(j) \in Nat /\ Stored(j).dropped = j.dropped + Evicted(j)
    BY EvictedFew
  <2>2. LossThen(Stored(j)) \subseteq LossThen(j) \cup E
    BY <2>1 DEF LossThen
  <2>3. LossThen(j) \in SUBSET reported'
    BY DEF LossThen
  <2>4. IsFiniteSet(LossThen(j))
    BY <2>3, FS_Subset
  <2> DEFINE A == LossThen(j)
             B == LossThen(Stored(j))
             a == j.dropped
             e == Evicted(j)
  <2>5. /\ a \in Nat /\ e \in Nat /\ IsFiniteSet(A) /\ IsFiniteSet(E) /\ Cardinality(A) <= a
        /\ Cardinality(E) <= e /\ B \subseteq A \cup E /\ Stored(j).dropped = a + e
    BY <1>1, <1>3, <2>1, <2>2, <2>4
  <2> HIDE DEF A, B, a, e
  <2>6. Cardinality(B) <= a + e
    BY <2>5, StillCounted
  <2> QED BY <2>5, <2>6 DEF B
<1>4. Cardinality(LossThen(disk')) <= disk'.dropped /\ (phase' # "off" => Cardinality(LossThen(mem')) <= mem'.dropped)
  <2>1. CASE Saves(j) /\ Cardinality(LossThen(j)) <= j.dropped
    BY <1>3, <2>1 DEF Saves
  <2>2. CASE /\ reported' = reported /\ Cardinality(Loss(j)) <= j.dropped
             /\ disk' \in {disk, Stored(j)} /\ ((phase' = "off") \/ (phase # "off" /\ mem' = mem) \/ (mem' = disk /\ disk' = disk))
    <3>1. Cardinality(LossThen(j)) <= j.dropped
      BY <1>1, <1>2, <2>2
    <3>2. Cardinality(LossThen(disk)) <= disk.dropped
      BY <1>1, <1>2, <2>2 DEF CountInv
    <3>3. phase # "off" => Cardinality(LossThen(mem)) <= mem.dropped
      BY <1>1, <1>2, <2>2 DEF CountInv
    <3>4. disk' = disk \/ disk' = Stored(j)
      BY <2>2
    <3>5. Cardinality(LossThen(disk')) <= disk'.dropped
      BY <1>3, <3>1, <3>2, <3>4
    <3>6. phase' # "off" => (mem' = disk /\ disk' = disk) \/ (phase # "off" /\ mem' = mem)
      BY <2>2
    <3> QED BY <3>2, <3>3, <3>5, <3>6
  <2> QED BY <2>1, <2>2
<1>5. Loss(disk)' = LossThen(disk') /\ Loss(mem)' = LossThen(mem')
  BY DEF Loss, LossThen, KeysOf
<1> QED BY <1>4, <1>5 DEF CountInv

(* Only the key of the head is missing from the tail.                      *)
LEMMA TailLacks ==
    ASSUME NEW j \in Journals, j.results # <<>>
    PROVE  KeysOf(j.results) \subseteq KeysOf(Tail(j.results)) \cup {Head(j.results).key}
<1> DEFINE rs == j.results
           t == Tail(rs)
<1>1. /\ t \in Seq(Results)
      /\ Len(t) = Len(rs) - 1
      /\ \A i \in 1..(Len(rs) - 1) : t[i] = rs[i + 1]
      /\ Head(rs) = rs[1]
      /\ Len(rs) \in Nat \ {0}
      /\ DOMAIN rs = 1..Len(rs)
  BY JournalParts, HeadTailProperties, EmptySeq
<1>2. DOMAIN t = 1..(Len(rs) - 1)
  BY <1>1, LenProperties
<1> SUFFICES ASSUME NEW i \in 1..Len(rs) PROVE rs[i].key \in KeysOf(t) \cup {Head(rs).key}
  BY <1>1 DEF KeysOf
<1>3. CASE i = 1
  BY <1>1, <1>3
<1>4. CASE i # 1
  <2> HIDE DEF rs, t
  <2>1. i - 1 \in 1..(Len(rs) - 1) /\ (i - 1) + 1 = i
    BY <1>1, <1>4
  <2>2. t[i - 1] = rs[i]
    BY <1>1, <2>1
  <2> QED BY <1>2, <2>1, <2>2 DEF KeysOf
<1> QED BY <1>3, <1>4

LEMMA CountStep ==
    ASSUME CoreInv, OnceInv, CountInv, SentInv, [Next]_vars, ~ revoked'
    PROVE  CountInv'
<1> USE DEF journalVars, boxVars, historyVars
<1>t. /\ TypeOK /\ TypeOK' /\ mem \in Journals /\ disk \in Journals /\ disk.dropped \in Nat /\ mem.dropped \in Nat
      /\ IsFiniteSet(reported)
  BY CoreStep, JournalParts DEF CoreInv, TypeOK, CountInv
<1>r. ~ dead' /\ ~ revoked /\ ~ dead
  BY GoesOn DEF OnceInv
<1>f. /\ Loss(mem) \in SUBSET reported /\ Loss(disk) \in SUBSET reported
      /\ IsFiniteSet(Loss(mem)) /\ IsFiniteSet(Loss(disk))
      /\ Cardinality(Loss(disk)) <= disk.dropped /\ (phase # "off" => Cardinality(Loss(mem)) <= mem.dropped)
  <2>1. Loss(mem) \in SUBSET reported /\ Loss(disk) \in SUBSET reported
    BY DEF Loss
  <2> QED BY <1>t, <2>1, FS_Subset DEF CountInv
(* A subset of what the memory lacks is counted by it.                     *)
<1>s. ASSUME NEW A, A \subseteq Loss(mem), phase # "off"
      PROVE  Cardinality(A) <= mem.dropped
  <2>1. IsFiniteSet(A) /\ Cardinality(A) <= Cardinality(Loss(mem))
    BY <1>f, <1>s, FS_Subset
  <2>2. Cardinality(A) \in Nat /\ Cardinality(Loss(mem)) \in Nat
    BY <1>f, <2>1, FS_CardinalityType
  <2> QED BY <1>f, <1>s, <1>t, <2>1, <2>2
(* The journal file is not written.                                        *)
<1>q. ASSUME reported' = reported, \A k \in Keys : core'[k] = None => core[k] = None, disk' = disk,
             (phase' = "off") \/ (phase # "off" /\ mem' = mem) \/ (mem' = disk)
                \/ (phase' = phase /\ mem' = mem)
      PROVE  CountInv'
  <2>1. (phase' = "off") \/ (phase # "off" /\ mem' = mem) \/ (mem' = disk /\ disk' = disk)
    BY <1>q
  <2> QED BY <1>q, <1>t, <1>r, <1>f, <2>1, CountAfter
(* It is, without a new result.                                            *)
<1>j. ASSUME NEW j \in Journals, phase = "on", reported' = reported, core' = core,
             Saves(j) \/ SaveFails(j), Cardinality(Loss(j)) <= j.dropped
      PROVE  CountInv'
  <2>1. LossThen(j) = Loss(j)
    BY <1>j DEF Loss, LossThen
  <2>2. CASE Saves(j)
    BY <1>j, <1>t, <1>r, <2>1, <2>2, CountAfter
  <2>3. CASE SaveFails(j)
    <3>1. mem' = mem /\ disk' \in {disk, Stored(j)}
      BY <2>3 DEF SaveFails
    <3> QED BY <1>j, <1>t, <1>r, <3>1, CountAfter
  <2> QED BY <1>j, <2>2, <2>3
<1>m. ASSUME NEW j, j.results = mem.results, j.dropped = mem.dropped, phase = "on"
      PROVE  Cardinality(Loss(j)) <= j.dropped
  <2>1. Loss(j) = Loss(mem)
    BY <1>m DEF Loss
  <2> QED BY <1>f, <1>m, <2>1
<1>1. ASSUME NEW s \in Schedules, NEW t \in 1..MaxTime, ReserveRun(s, t) PROVE CountInv'
  <2> DEFINE j == Reserved(mem, s, t)
  <2>1. j \in Journals /\ j.results = mem.results /\ j.dropped = mem.dropped
    BY <1>t, ReservedType DEF Reserved, Journals
  <2>2. phase = "on" /\ reported' = reported /\ core' = core /\ (Saves(j) \/ SaveFails(j))
    BY <1>1 DEF ReserveRun
  <2> HIDE DEF j
  <2> QED BY <1>j, <1>m, <2>1, <2>2
<1>2. ASSUME NEW k \in JobKeys, ClaimJob(k) PROVE CountInv'
  <2> DEFINE j == Marked(mem, k, "claimed")
  <2>1. j \in Journals /\ j.results = mem.results /\ j.dropped = mem.dropped
    BY <1>t, MarkedType DEF Keys, Marked, Journals
  <2>2. phase = "on" /\ phase' = phase /\ reported' = reported /\ core' = core
    BY <1>2 DEF ClaimJob
  <2>3. Saves(j) \/ SaveFails(j) \/ UNCHANGED <<mem, disk>>
    BY <1>2 DEF ClaimJob
  <2> HIDE DEF j
  <2> QED BY <1>j, <1>m, <1>q, <2>1, <2>2, <2>3
<1>3. ASSUME NEW w \in Workers, MarkStarted(w) PROVE CountInv'
  <2> DEFINE j == Marked(mem, worker[w].key, "started")
  <2>1. worker[w].key \in Keys
    BY <1>3, <1>t, BusyWorker DEF MarkStarted
  <2>2. j \in Journals /\ j.results = mem.results /\ j.dropped = mem.dropped
    BY <1>t, <2>1, MarkedType DEF Marked, Journals
  <2>3. phase = "on" /\ phase' = phase /\ reported' = reported /\ core' = core
    BY <1>3 DEF MarkStarted
  <2>4. Saves(j) \/ SaveFails(j) \/ UNCHANGED <<mem, disk>>
    BY <1>3 DEF MarkStarted
  <2> HIDE DEF j
  <2> QED BY <1>j, <1>m, <1>q, <2>2, <2>3, <2>4
(* A new result: reported if the save succeeds.                            *)
<1>a. ASSUME NEW k \in Keys, NEW end \in Ends, phase # "off", core' = core,
             LET j == Appended(mem, Result(k, end)) IN
               \/ Saves(j) /\ reported' = reported \cup {k}
               \/ /\ reported' = reported /\ disk' \in {disk, Stored(j)}
                  /\ mem' = mem \/ phase' = "off"
      PROVE  CountInv'
  <2> DEFINE r == Result(k, end)
             j == Appended(mem, r)
  <2>1. r \in Results /\ r.key = k
    BY ResultType DEF Result
  <2>2. j \in Journals
    BY <1>t, <2>1, AppendedType
  <2>3. j.dropped = mem.dropped /\ KeysOf(j.results) = KeysOf(mem.results) \cup {k}
    BY <1>t, <2>1, AppendedLacks
  <2> HIDE DEF r
  <2>4. CASE Saves(j) /\ reported' = reported \cup {k}
    <3>1. IsFiniteSet(reported')
      BY <1>t, <2>4, FS_AddElement
    <3>2. LossThen(j) \subseteq Loss(mem)
      BY <1>a, <2>3, <2>4 DEF Loss, LossThen
    <3>3. Cardinality(LossThen(j)) <= j.dropped
      BY <1>a, <1>s, <2>3, <3>2
    <3> HIDE DEF j
    <3> QED BY <1>a, <1>t, <1>r, <2>2, <2>4, <3>1, <3>3, CountAfter
  <2>5. CASE reported' = reported /\ disk' \in {disk, Stored(j)} /\ (mem' = mem \/ phase' = "off")
    <3>1. Loss(j) \subseteq Loss(mem)
      BY <2>3 DEF Loss
    <3>2. Cardinality(Loss(j)) <= j.dropped
      BY <1>a, <1>s, <2>3, <3>1
    <3> HIDE DEF j
    <3> QED BY <1>a, <1>t, <1>r, <2>2, <2>5, <3>2, CountAfter
  <2> QED BY <1>a, <2>4, <2>5 DEF r
<1>4. ASSUME NEW w \in Workers, Report(w) PROVE CountInv'
  <2> DEFINE k == worker[w].key
             end == worker[w].end
             j == Appended(mem, Result(k, end))
  <2>1. k \in Keys /\ end \in Ends
    BY <1>4, <1>t, BusyWorker DEF Report
  <2>2. phase = "on" /\ phase' = phase /\ core' = core
    BY <1>4 DEF Report
  <2>3. \/ Saves(j) /\ reported' = reported \cup {k}
        \/ SaveFails(j) /\ reported' = reported
    BY <1>4, <1>r DEF Report
  <2>4. SaveFails(j) => mem' = mem /\ disk' \in {disk, Stored(j)}
    BY DEF SaveFails
  <2> HIDE DEF k, end
  <2> QED BY <1>a, <2>1, <2>2, <2>3, <2>4
<1>5. CASE Recover
  <2> DEFINE k == mem.marker.key
             end == "interrupted"
             j == Appended(mem, Result(k, end))
  <2>1. phase = "boot" /\ core' = core
    BY <1>5 DEF Recover
  <2>2. CASE mem.marker = None
    BY <1>5, <1>q, <2>1, <2>2 DEF Recover
  <2>3. CASE mem.marker # None
    <3>1. k \in Keys /\ end \in Ends
      BY <2>3, <1>t, JournalParts DEF Markers, Ends
    <3>2. \/ Saves(j) /\ reported' = reported \cup {k}
          \/ reported' = reported /\ disk' \in {disk, Stored(j)} /\ phase' = "off"
      BY <1>5, <2>3 DEF Recover
    <3> HIDE DEF k, end
    <3> QED BY <1>a, <2>1, <3>1, <3>2
  <2> QED BY <2>2, <2>3
<1>6. CASE Confirmed
  <2> DEFINE j == HeadRemoved(mem, sending)
  <2>1. j \in Journals
    BY <1>t, HeadRemovedType
  <2>2. phase = "on" /\ phase' = phase /\ reported' = reported /\ core' = core /\ reply = "204"
        /\ (Saves(j) \/ SaveFails(j))
    BY <1>6, <1>r DEF Confirmed
  <2>3. core[sending.key] # None
    BY <2>2 DEF SentInv
  <2>4. j.dropped = mem.dropped /\ Loss(j) \subseteq Loss(mem)
    <3>1. CASE IsHead(mem, sending)
      <4>1. mem.results # <<>> /\ Head(mem.results) = sending /\ j = [mem EXCEPT !.results = Tail(@)]
        BY <3>1 DEF IsHead, HeadRemoved
      <4>2. j.results = Tail(mem.results) /\ j.dropped = mem.dropped
        BY <1>t, <4>1 DEF Journals
      <4>3. KeysOf(mem.results) \subseteq KeysOf(j.results) \cup {sending.key}
        BY <1>t, <4>1, <4>2, TailLacks
      <4> HIDE DEF j
      <4> QED BY <2>3, <4>2, <4>3 DEF Loss
    <3>2. CASE ~IsHead(mem, sending)
      BY <3>2 DEF HeadRemoved
    <3> QED BY <3>1, <3>2
  <2>5. Cardinality(Loss(j)) <= j.dropped
    BY <1>s, <2>2, <2>4
  <2> HIDE DEF j
  <2> QED BY <1>j, <2>1, <2>2, <2>5
<1>7. CASE Rejected
  <2> DEFINE j == HeadDropped(mem)
  <2>1. phase = "on" /\ phase' = phase /\ reported' = reported /\ core' = core
    BY <1>7 DEF Rejected
  <2>2. \/ IsHead(mem, sending) /\ (Saves(j) \/ SaveFails(j))
        \/ UNCHANGED <<mem, disk>>
    BY <1>7, <1>r DEF Rejected
  <2>3. CASE IsHead(mem, sending) /\ (Saves(j) \/ SaveFails(j))
    <3>1. mem.results # <<>> /\ j \in Journals
      BY <1>t, <2>3, HeadDroppedType DEF IsHead
    <3>2. j.results = Tail(mem.results) /\ j.dropped = mem.dropped + 1
      BY <1>t DEF HeadDropped, Journals
    <3>3. KeysOf(mem.results) \subseteq KeysOf(j.results) \cup {Head(mem.results).key}
      BY <1>t, <3>1, <3>2, TailLacks
    <3> DEFINE A == Loss(mem)
               B == Loss(j)
               E == {Head(mem.results).key}
               a == mem.dropped
    <3>4. B \subseteq A \cup E
      BY <3>3 DEF Loss
    <3>5. /\ IsFiniteSet(A) /\ Cardinality(A) <= a /\ a \in Nat /\ IsFiniteSet(E) /\ Cardinality(E) <= 1
      <4>1. IsFiniteSet(E) /\ Cardinality(E) = 1
        BY FS_Singleton, Zenon
      <4>2. IsFiniteSet(A) /\ Cardinality(A) <= a /\ a \in Nat
        BY <1>f, <1>t, <2>1
      <4> HIDE DEF A, E, a
      <4> QED BY <4>1, <4>2
    <3> HIDE DEF A, B, E, a
    <3>6. Cardinality(B) <= a + 1
      BY <3>4, <3>5, StillCounted
    <3>7. Cardinality(Loss(j)) <= j.dropped
      BY <3>2, <3>6 DEF B, a
    <3> HIDE DEF j
    <3> QED BY <1>j, <2>1, <2>3, <3>1, <3>7
  <2> QED BY <1>q, <2>1, <2>2, <2>3
<1>8. CASE Crash \/ Quit
  BY <1>q, <1>8 DEF Crash, Quit, Gone
<1>9. CASE OpenState
  BY <1>q, <1>9 DEF OpenState
<1>10. CASE Revoke
  BY <1>r, <1>10 DEF Revoke
<1>11. ASSUME NEW x \in Results, CoreAnswer(x) PROVE CountInv'
  <2>1. \A k \in Keys : core'[k] = None => core[k] = None
    <3>1. core' = core \/ core' = [core EXCEPT ![x.key] = x]
      BY <1>11 DEF CoreAnswer
    <3>2. core \in [Keys -> Results \cup {None}] /\ x.key \in Keys /\ x # None
      BY <1>t, NoneAssumption DEF TypeOK, Results
    <3> QED BY <3>1, <3>2
  <2> QED BY <1>q, <1>11, <2>1 DEF CoreAnswer
<1>12. CASE \/ \E k \in SetupKeys : StartPanelSetup(k)
            \/ \E w \in Workers, end \in Ends : EndEarly(w, end)
            \/ \E w \in Workers : Spawn(w) \/ ProcessEnds(w)
            \/ Abandon \/ DeliverOne \/ Timeout \/ NotDelivered \/ CoreRevokes
            \/ UNCHANGED vars
  <2>1. UNCHANGED <<phase, mem, disk, reported, core>>
    BY <1>12 DEF StartPanelSetup, EndEarly, Spawn, ProcessEnds, Abandon,
                 DeliverOne, Timeout, NotDelivered, CoreRevokes, vars
  <2> QED BY <2>1, <1>q
<1> QED
  BY <1>1, <1>2, <1>3, <1>4, <1>5, <1>6, <1>7, <1>8, <1>9, <1>10, <1>11, <1>12 DEF Next

LEMMA SentStep ==
    ASSUME CoreInv, SentInv, [Next]_vars
    PROVE  SentInv'
<1> USE DEF journalVars, boxVars, historyVars
<1>t. /\ sending \in Results \cup {None} /\ reject.res \in Results \cup {None} /\ reject.n \in Nat
      /\ refusals \in [Keys -> Nat] /\ core \in [Keys -> Results \cup {None}] /\ None \notin Results
      /\ RejectLimit \in Nat \ {0} /\ \A r \in Results : r.key \in Keys /\ refusals[r.key] \in Nat
  BY NoneAssumption, RejectAssumption DEF CoreInv, TypeOK, Results
<1>o. /\ reply # None => sending \in Results
      /\ reply = "204" => core[sending.key] # None
      /\ \A r \in Results : reject.res = r => reject.n <= refusals[r.key] \/ refusals[r.key] >= RejectLimit
      /\ reply = "400" =>
           /\ refusals[sending.key] >= 1
           /\ reject.res = sending => \/ reject.n + 1 <= refusals[sending.key]
                                      \/ refusals[sending.key] >= RejectLimit
  BY DEF SentInv
(* Nothing is out any more.                                                *)
<1>n. ASSUME reply' = None, refusals' = refusals,
             reject' = reject \/ reject' = NoReject
               \/ (sending \in Results /\ reply = "400" /\ reject' = Counted(sending))
      PROVE  SentInv'
  <2>1. \A r \in Results : reject'.res = r => reject'.n <= refusals[r.key] \/ refusals[r.key] >= RejectLimit
    <3>1. CASE reject' = reject
      BY <1>o, <3>1
    <3>2. CASE reject' = NoReject
      BY <1>t, <3>2 DEF NoReject
    <3>3. CASE sending \in Results /\ reply = "400" /\ reject' = Counted(sending)
      <4>1. CASE reject.res = sending
        <5>1. reject' = [reject EXCEPT !.n = @ + 1]
          BY <3>3, <4>1 DEF Counted
        <5>2. reject'.res = sending /\ reject'.n = reject.n + 1
          BY <4>1, <5>1 DEF CoreInv, TypeOK
        <5> QED BY <1>o, <3>3, <4>1, <5>2
      <4>2. CASE reject.res # sending
        BY <1>o, <3>3, <4>2 DEF Counted
      <4> QED BY <4>1, <4>2
    <3> QED BY <1>n, <3>1, <3>2, <3>3
  <2> QED BY <1>n, <2>1, <1>t, NoneNoAnswer DEF SentInv
<1>u. ASSUME UNCHANGED <<reply, sending, reject, core, refusals>> PROVE SentInv'
  BY <1>u DEF SentInv
<1>1. CASE DeliverOne
  BY <1>1, <1>n DEF DeliverOne
<1>2. CASE Confirmed
  BY <1>2, <1>n DEF Confirmed, Sent
<1>3. CASE Rejected
  <2>1. sending \in Results /\ reply = "400" /\ reply' = None /\ refusals' = refusals
    BY <1>3, <1>o, NoneNoAnswer DEF Rejected, Sent
  <2>2. reject' = reject \/ reject' = NoReject \/ reject' = Counted(sending)
    BY <1>3 DEF Rejected
  <2> QED BY <1>n, <2>1, <2>2
<1>4. CASE NotDelivered
  BY <1>4, <1>n DEF NotDelivered, Sent
<1>5. CASE Crash \/ Quit
  BY <1>5, <1>n DEF Crash, Quit, Gone
<1>6. CASE Timeout
  <2>1. /\ reply' = "timeout" /\ sending' = sending /\ sending # None /\ reject' = reject
        /\ core' = core /\ refusals' = refusals
    BY <1>6 DEF Timeout
  <2> QED BY <1>o, <1>t, <2>1 DEF SentInv
<1>7. ASSUME NEW x \in Results, CoreAnswer(x) PROVE SentInv'
  <2>1. PICK answer \in {"204", "400", "409", "401"} :
           /\ core' = IF answer = "204" THEN [core EXCEPT ![x.key] = x] ELSE core
           /\ refusals' = IF answer = "400" /\ refusals[x.key] < RejectLimit
                            THEN [refusals EXCEPT ![x.key] = @ + 1] ELSE refusals
           /\ reply' = IF sending = x /\ reply = None THEN answer ELSE reply
    BY <1>7 DEF CoreAnswer
  <2>2. sending' = sending /\ reject' = reject
    BY <1>7 DEF CoreAnswer
  <2>3. \A k \in Keys : refusals'[k] \in Nat /\ refusals'[k] >= refusals[k]
    BY <1>t, <2>1
  <2>4. \A k \in Keys : core[k] # None => core'[k] # None
    BY <1>t, <2>1
  <2>5. \A r \in Results : reject.res = r => reject.n <= refusals'[r.key] \/ refusals'[r.key] >= RejectLimit
    BY <1>o, <1>t, <2>3
  <2>6. CASE sending = x /\ reply = None
    <3>1. reply' = answer
      BY <2>1, <2>6
    <3>2. answer = "204" => core'[x.key] # None
      BY <1>t, <2>1
    <3>3. answer = "400" => /\ refusals'[x.key] >= 1
                            /\ reject.res = x => reject.n + 1 <= refusals'[x.key] \/ refusals'[x.key] >= RejectLimit
      BY <1>o, <1>t, <2>1
    <3> QED BY <2>2, <2>5, <2>6, <3>1, <3>2, <3>3 DEF SentInv
  <2>7. CASE ~(sending = x /\ reply = None)
    <3>1. reply' = reply
      BY <2>1, <2>7
    <3>2. reply = "204" => core'[sending.key] # None
      BY <1>o, <1>t, <2>4, NoneNoAnswer
    <3>3. reply = "400" => /\ refusals'[sending.key] >= 1
                           /\ reject.res = sending => \/ reject.n + 1 <= refusals'[sending.key]
                                                      \/ refusals'[sending.key] >= RejectLimit
      <4>1. reply = "400" => sending \in Results /\ sending.key \in Keys
        BY <1>o, <1>t, NoneNoAnswer
      <4> QED BY <1>o, <1>t, <2>3, <4>1
    <3> QED BY <1>o, <2>2, <2>5, <3>1, <3>2, <3>3 DEF SentInv
  <2> QED BY <2>6, <2>7
<1>8. CASE \/ \E s \in Schedules, t \in 1..MaxTime : ReserveRun(s, t)
           \/ \E k \in JobKeys : ClaimJob(k)
           \/ \E k \in SetupKeys : StartPanelSetup(k)
           \/ \E w \in Workers, end \in Ends : EndEarly(w, end)
           \/ \E w \in Workers : MarkStarted(w) \/ Spawn(w) \/ ProcessEnds(w) \/ Report(w)
           \/ Abandon \/ CoreRevokes \/ Revoke \/ OpenState \/ Recover \/ UNCHANGED vars
  <2>1. UNCHANGED <<reply, sending, reject, core, refusals>>
    BY <1>8 DEF ReserveRun, ClaimJob, StartPanelSetup, EndEarly, MarkStarted, Spawn, ProcessEnds, Report,
                Abandon, CoreRevokes, Revoke, OpenState, Recover, vars
  <2> QED BY <2>1, <1>u
<1> QED
  BY <1>1, <1>2, <1>3, <1>4, <1>5, <1>6, <1>7, <1>8 DEF Next

(* What is held in memory and in the file fits; a save has seen to it.     *)
Holds(j) == j.results = <<>> \/ Fits(j.results, j.marker)
FullInv == Holds(disk) /\ (phase # "off" => Holds(mem))

LEMMA FullStep ==
    ASSUME CoreInv, FullInv, [Next]_vars
    PROVE  FullInv'
<1> USE DEF journalVars, boxVars, historyVars
<1>t. TypeOK /\ mem \in Journals
  BY DEF CoreInv, TypeOK
<1>e. Holds(Empty) /\ \A j \in Journals : Holds(Stored(j))
  BY StoredFits DEF Holds, Empty
<1>s. ASSUME NEW j \in Journals, Saves(j) \/ SaveFails(j), phase # "off"
      PROVE  FullInv'
  <2>1. disk' \in {disk, Stored(j)} /\ mem' \in {mem, Stored(j)}
    BY <1>s DEF Saves, SaveFails
  <2>2. Holds(disk') /\ Holds(mem')
    BY <1>e, <1>s, <2>1 DEF FullInv
  <2> QED BY <2>2 DEF FullInv, Holds
<1>u. ASSUME UNCHANGED <<mem, disk>>, phase # "off" \/ phase' = phase
      PROVE  FullInv'
  BY <1>u DEF FullInv, Holds
<1>1. ASSUME NEW s \in Schedules, NEW t \in 1..MaxTime, ReserveRun(s, t) PROVE FullInv'
  BY <1>1, <1>s, <1>t, ReservedType DEF ReserveRun
<1>2. ASSUME NEW k \in JobKeys, ClaimJob(k) PROVE FullInv'
  <2>1. Marked(mem, k, "claimed") \in Journals
    BY <1>t, MarkedType DEF Keys
  <2>2. phase = "on" /\ (Saves(Marked(mem, k, "claimed")) \/ SaveFails(Marked(mem, k, "claimed")) \/ UNCHANGED <<mem, disk>>)
    BY <1>2 DEF ClaimJob
  <2> QED BY <1>s, <1>u, <2>1, <2>2
<1>3. ASSUME NEW w \in Workers, MarkStarted(w) PROVE FullInv'
  <2> DEFINE j == Marked(mem, worker[w].key, "started")
  <2>1. j \in Journals
    BY <1>3, <1>t, BusyWorker, MarkedType DEF MarkStarted
  <2>2. phase = "on" /\ (Saves(j) \/ SaveFails(j) \/ UNCHANGED <<mem, disk>>)
    BY <1>3 DEF MarkStarted
  <2> HIDE DEF j
  <2> QED BY <1>s, <1>u, <2>1, <2>2
<1>4. ASSUME NEW w \in Workers, Report(w) PROVE FullInv'
  <2> DEFINE j == Appended(mem, Result(worker[w].key, worker[w].end))
  <2>1. j \in Journals
    BY <1>4, <1>t, BusyWorker, ResultType, AppendedType DEF Report
  <2>2. phase = "on" /\ (Saves(j) \/ SaveFails(j) \/ UNCHANGED <<mem, disk>>)
    BY <1>4 DEF Report
  <2> HIDE DEF j
  <2> QED BY <1>s, <1>u, <2>1, <2>2
<1>5. CASE Confirmed
  <2> DEFINE j == HeadRemoved(mem, sending)
  <2>1. j \in Journals
    BY <1>t, HeadRemovedType
  <2>2. phase = "on" /\ (Saves(j) \/ SaveFails(j) \/ UNCHANGED <<mem, disk>>)
    BY <1>5 DEF Confirmed
  <2> HIDE DEF j
  <2> QED BY <1>s, <1>u, <2>1, <2>2
<1>6. CASE Rejected
  <2> DEFINE j == HeadDropped(mem)
  <2>1. IsHead(mem, sending) => j \in Journals
    BY <1>t, HeadDroppedType DEF IsHead
  <2>2. /\ phase = "on"
        /\ \/ UNCHANGED <<mem, disk>>
           \/ IsHead(mem, sending) /\ (Saves(j) \/ SaveFails(j))
    BY <1>6 DEF Rejected
  <2> HIDE DEF j
  <2> QED BY <1>s, <1>u, <2>1, <2>2
<1>7. CASE Recover
  <2> DEFINE j == Appended(mem, Result(mem.marker.key, "interrupted"))
  <2>1. phase = "boot"
    BY <1>7 DEF Recover
  <2>2. CASE mem.marker = None
    <3>1. UNCHANGED <<mem, disk>>
      BY <1>7, <2>2 DEF Recover, journalVars
    <3> QED BY <1>u, <2>1, <3>1
  <2>3. CASE mem.marker # None
    <3>1. j \in Journals
      BY <1>t, <2>3, JournalParts, ResultType, AppendedType DEF Markers, Ends
    <3>2. Saves(j) \/ (disk' \in {disk, Stored(j)} /\ phase' = "off")
      BY <1>7, <2>3 DEF Recover
    <3> HIDE DEF j
    <3>3. CASE Saves(j)
      BY <1>s, <2>1, <3>1, <3>3
    <3>4. CASE disk' \in {disk, Stored(j)} /\ phase' = "off"
      <4>1. Holds(disk')
        BY <1>e, <3>1, <3>4 DEF FullInv
      <4> QED BY <3>4, <4>1 DEF FullInv, Holds
    <3> QED BY <3>2, <3>3, <3>4
  <2> QED BY <2>2, <2>3
<1>8. CASE Crash \/ Quit \/ OpenState \/ Revoke
  <2>1. disk' \in {disk, Empty} /\ mem' \in {disk, Empty}
    BY <1>8 DEF Crash, Quit, Gone, OpenState, Revoke
  <2>2. Holds(disk') /\ Holds(mem')
    BY <1>e, <2>1 DEF FullInv
  <2> QED BY <2>2 DEF FullInv, Holds
<1>9. CASE \/ \E k \in SetupKeys : StartPanelSetup(k)
           \/ \E w \in Workers, end \in Ends : EndEarly(w, end)
           \/ \E w \in Workers : Spawn(w) \/ ProcessEnds(w)
           \/ \E r \in Results : CoreAnswer(r)
           \/ Abandon \/ DeliverOne \/ Timeout \/ NotDelivered \/ CoreRevokes
           \/ UNCHANGED vars
  <2>1. UNCHANGED <<phase, mem, disk>>
    BY <1>9 DEF StartPanelSetup, EndEarly, Spawn, ProcessEnds, CoreAnswer, Abandon,
                DeliverOne, Timeout, NotDelivered, CoreRevokes, vars
  <2> QED BY <2>1, <1>u
<1> QED
  BY <1>1, <1>2, <1>3, <1>4, <1>5, <1>6, <1>7, <1>8, <1>9 DEF Next

(* What leaves the journal by an answer 400 was refused RejectLimit times. *)
LEMMA GivenUpRightly ==
    ASSUME CoreInv, SentInv, FullInv, [Next]_vars, reply = "400", reply' = None, phase' = "on",
           NEW k \in KeysOf(mem.results) \ KeysOf(mem'.results)
    PROVE  refusals[k] >= RejectLimit
<1> USE DEF journalVars, boxVars, historyVars
<1>t. /\ mem \in Journals /\ reject.n \in Nat /\ refusals \in [Keys -> Nat] /\ RejectLimit \in Nat \ {0}
      /\ sending \in Results /\ sending.key \in Keys
      /\ refusals[sending.key] >= 1
      /\ reject.res = sending => reject.n + 1 <= refusals[sending.key] \/ refusals[sending.key] >= RejectLimit
  BY RejectAssumption, NoneNoAnswer DEF CoreInv, TypeOK, SentInv, Results
<1>1. Rejected \/ DeliverOne
  BY NoneNoAnswer DEF Next, vars, ReserveRun, ClaimJob, StartPanelSetup, EndEarly, Abandon,
         MarkStarted, Spawn, ProcessEnds, Report, CoreAnswer, Timeout, Confirmed,
         NotDelivered, CoreRevokes, Revoke, Crash, Quit, Gone, OpenState, Recover
<1>2. CASE DeliverOne
  BY <1>2 DEF DeliverOne
<1>3. CASE Rejected
  <2>1. CASE mem' = mem
    BY <2>1
  <2>2. CASE mem' # mem
    <3>1. Counted(sending).n >= RejectLimit /\ IsHead(mem, sending)
          /\ (Saves(HeadDropped(mem)) \/ SaveFails(HeadDropped(mem)))
      BY <1>3, <2>2 DEF Rejected
    <3>2. mem' = Stored(HeadDropped(mem))
      BY <2>2, <3>1 DEF Saves, SaveFails
    <3>3. refusals[sending.key] >= RejectLimit
      <4>1. CASE reject.res = sending
        <5>1. Counted(sending).n = reject.n + 1
          BY <4>1 DEF Counted, CoreInv, TypeOK
        <5> QED BY <1>t, <3>1, <4>1, <5>1
      <4>2. CASE reject.res # sending
        BY <1>t, <3>1, <4>2 DEF Counted
      <4> QED BY <4>1, <4>2
    <3>4. mem.results # <<>> /\ Head(mem.results) = sending
      BY <3>1 DEF IsHead
    <3>5. mem'.results = Tail(mem.results)
      BY <1>t, <1>3, <3>2, <3>4, NothingMoreEvicted DEF FullInv, Holds, Rejected
    <3>6. k = sending.key
      <4>1. k \in KeysOf(mem.results) /\ k \notin KeysOf(Tail(mem.results))
        BY <3>5
      <4> QED BY <1>t, <3>4, <4>1, TailLacks
    <3> QED BY <3>3, <3>6
  <2> QED BY <2>1, <2>2
<1> QED BY <1>1, <1>2, <1>3

(* Whatever was durably reported is in the journal, at the box or counted  *)
(* as dropped, until the device is revoked; and a result that an older box *)
(* cannot take is given up only after RejectLimit refusals of this result, *)
(* and takes no other result with it.                                      *)
THEOREM NothingIsLost == Spec => NothingLost
<1>1. Init => OnceInv
  BY DEF Init, OnceInv, OnceRuns, Idle
<1>2. CoreInv /\ OnceInv /\ [Next]_vars => OnceInv'
  BY OnceStep
<1>3. Init => SentInv /\ FullInv /\ (~ revoked => CountInv)
  <2> SUFFICES ASSUME Init PROVE SentInv /\ FullInv /\ CountInv
    OBVIOUS
  <2>1. reply = None /\ reject.res = None /\ mem = Empty /\ disk = Empty /\ reported = {}
    BY DEF Init, NoReject
  <2>2. SentInv
    BY <2>1, NoneNoAnswer, NoneAssumption DEF SentInv
  <2>3. FullInv
    BY <2>1 DEF FullInv, Holds, Empty
  <2>4. CountInv
    <3>1. Loss(disk) = {} /\ Loss(mem) = {}
      BY <2>1 DEF Loss
    <3>2. disk.dropped = 0 /\ mem.dropped = 0
      BY <2>1 DEF Empty
    <3>3. IsFiniteSet({}) /\ Cardinality({}) = 0
      BY FS_EmptySet
    <3> QED BY <2>1, <3>1, <3>2, <3>3 DEF CountInv
  <2> QED BY <2>2, <2>3, <2>4
<1>4. CoreInv /\ SentInv /\ [Next]_vars => SentInv'
  BY SentStep
<1>5. CoreInv /\ FullInv /\ [Next]_vars => FullInv'
  BY FullStep
<1>6. CoreInv /\ OnceInv /\ SentInv /\ (~ revoked => CountInv) /\ [Next]_vars => (~ revoked' => CountInv')
  BY CountStep, GoesOn
<1>7. (~ revoked => CountInv) => NoSilentLoss
  BY DEF CountInv, NoSilentLoss, Truth, Loss
<1>8. CoreInv /\ SentInv /\ FullInv /\ [Next]_vars =>
        [\A k \in KeysOf(mem.results) \ KeysOf(mem'.results) :
              reply = "400" /\ reply' = None /\ phase' = "on" => refusals[k] >= RejectLimit]_vars
  BY GivenUpRightly
<1> DEFINE Counted1 == ~ revoked => CountInv
<1>9. NoSilentLoss' /\ [\A k \in KeysOf(mem.results) \ KeysOf(mem'.results) :
              reply = "400" /\ reply' = None /\ phase' = "on" => refusals[k] >= RejectLimit]_vars
      => [/\ NoSilentLoss'
          /\ \A k \in KeysOf(mem.results) \ KeysOf(mem'.results) :
                reply = "400" /\ reply' = None /\ phase' = "on" => refusals[k] >= RejectLimit]_vars
  OBVIOUS
<1> HIDE DEF Counted1
<1>10. Spec => []NoSilentLoss
  <2>1. Init => Counted1
    BY <1>3 DEF Counted1
  <2>2. CoreInv /\ OnceInv /\ SentInv /\ Counted1 /\ [Next]_vars => Counted1'
    BY <1>6 DEF Counted1
  <2>3. Counted1 => NoSilentLoss
    BY <1>7 DEF Counted1
  <2> QED BY <1>1, <1>2, <1>3, <1>4, <2>1, <2>2, <2>3, CoreAlways, PTL DEF Spec
<1>11. Spec => [](CoreInv /\ SentInv /\ FullInv)
  BY <1>3, <1>4, <1>5, CoreAlways, PTL DEF Spec
<1> QED BY <1>8, <1>9, <1>10, <1>11, PTL DEF Spec, NothingLost

=============================================================================
