---------------------------- MODULE DeviceProofs ----------------------------
(***************************************************************************)
(* Proofs about the desktop runner beside its outbox: the halt, the sync   *)
(* and the questions of a run.  The three share nothing but this module.   *)
(***************************************************************************)
EXTENDS Halt, Sync, Questions, TLAPS

-----------------------------------------------------------------------------
(* Halt: for every throttle, every shift of the clock and any number of    *)
(* commands, faults, restarts and lost reports.                            *)

(* The memory is the file, or the fault; a confirmed halt is in the file,  *)
(* or the file is damaged.                                                 *)
MemoryIsFile ==
    up => \/ fault = TRUE /\ halt = Stopped
          \/ fault = FALSE /\ halt = stored
          \/ fault = FALSE /\ halt = Working /\ stored = Missing
ToldIsStored == told \notin {None, Working} => stored \in {told, Damaged}
(* A report on its way is owed, and of the present halt if of its version. *)
ReportIsOwed ==
    sending # None =>
        /\ up /\ pending /\ sending.version <= version
        /\ sending.version = version => sending.h = halt
Clocks == wallAge <= since

HInv == TypeOK /\ MemoryIsFile /\ ToldIsStored /\ ReportIsOwed /\ Clocks

LEMMA HaltKinds ==
    /\ Working \in Halts /\ Stopped \in Halts
    /\ Missing \notin Halts /\ Damaged \notin Halts /\ Missing # Damaged
    /\ Working # Stopped
    /\ Working.state = "arbeitet" /\ Stopped.state = "angehalten"
    /\ \A h \in Halts : /\ h.state \in {"arbeitet", "pausiert", "angehalten"}
                        /\ h.timed \in BOOLEAN
                        /\ h.state = "arbeitet" => h = Working
                        /\ h.state = "pausiert" => h # Working /\ h # Stopped
<1>1. /\ Working.state = "arbeitet" /\ Stopped.state = "angehalten"
      /\ Missing.state = "missing" /\ Damaged.state = "damaged"
      /\ Working.timed = FALSE /\ Stopped.timed = FALSE
  BY DEF Working, Stopped, Missing, Damaged
<1>2. Working \in Halts /\ Stopped \in Halts
  BY DEF Halts
<1>3. ASSUME NEW h \in Halts
      PROVE  h \in {Working, Stopped} \/ (h.state = "pausiert" /\ h.timed \in BOOLEAN)
  BY <1>3 DEF Halts
<1>4. Missing \notin Halts /\ Damaged \notin Halts
  BY <1>1, <1>3
<1> QED BY <1>1, <1>2, <1>3, <1>4

LEMMA SetHaltKeeps ==
    ASSUME NEW h \in Halts, HInv, up, SetHalt(h),
           UNCHANGED <<up, sending, wallAge, since>>
    PROVE  /\ halt' \in Halts /\ fault' \in BOOLEAN /\ version' \in Nat
           /\ pending' \in BOOLEAN /\ told' \in Halts \cup {None} /\ faults' \in Nat
           /\ stored' \in Halts \cup {Missing, Damaged}
           /\ MemoryIsFile' /\ ToldIsStored' /\ ReportIsOwed' /\ Clocks'
<1> USE DEF SetHalt, HInv, TypeOK
<1> DEFINE Stored == halt' = h /\ stored' = h /\ fault' = FALSE /\ told' = h /\ faults' = faults
           Failed == /\ faults' = faults + 1
                     /\ halt' = Stopped /\ fault' = TRUE /\ told' = None /\ stored' = stored
<1>0. (Stored \/ Failed) /\ version' = version + 1 /\ pending' = TRUE
  OBVIOUS
<1>1. /\ halt' \in Halts /\ fault' \in BOOLEAN /\ version' \in Nat
      /\ pending' \in BOOLEAN /\ told' \in Halts \cup {None} /\ faults' \in Nat
      /\ stored' \in Halts \cup {Missing, Damaged}
  <2>1. version' \in Nat /\ pending' \in BOOLEAN
    BY <1>0
  <2>2. Stopped \in Halts
    BY HaltKinds
  <2>3. CASE Stored
    BY <2>1, <2>3
  <2>4. CASE Failed
    BY <2>1, <2>2, <2>4
  <2> QED BY <1>0, <2>3, <2>4
<1>2. MemoryIsFile'
  BY <1>0 DEF MemoryIsFile
<1>3. ToldIsStored'
  BY <1>0 DEF ToldIsStored
<1>4. ReportIsOwed'
  <2>1. sending # None => sending.version \in Nat
    OBVIOUS
  <2> QED BY <2>1 DEF ReportIsOwed
<1> QED BY <1>1, <1>2, <1>3, <1>4 DEF Clocks

LEMMA HInvInit == HaltInit => HInv
<1> SUFFICES ASSUME HaltInit PROVE HInv
  OBVIOUS
<1> USE DEF HaltInit
<1>1. TypeOK
  <2>1. stored \in Halts \cup {Missing, Damaged}
    BY HaltKinds
  <2>2. Throttle \in 0..Throttle /\ Throttle \in (0 - MaxBack)..Throttle
    BY HaltAssumption
  <2> QED BY <2>1, <2>2, HaltKinds DEF TypeOK
<1>2. MemoryIsFile /\ ToldIsStored
  BY DEF MemoryIsFile, ToldIsStored
<1>3. ReportIsOwed /\ Clocks
  BY HaltAssumption DEF ReportIsOwed, Clocks
<1> QED BY <1>1, <1>2, <1>3 DEF HInv

LEMMA HInvNext == HInv /\ [HaltNext]_haltVars => HInv'
<1> SUFFICES ASSUME HInv, [HaltNext]_haltVars PROVE HInv'
  OBVIOUS
<1> USE DEF HInv, controlVars, reportVars
<1>1. ASSUME NEW h \in Halts, Command(h) PROVE HInv'
  <2>1. /\ SetHalt(h) /\ up /\ UNCHANGED <<up, sending, wallAge, since>>
    BY <1>1 DEF Command
  <2>2. TypeOK'
    <3>1. /\ halt' \in Halts /\ fault' \in BOOLEAN /\ version' \in Nat
          /\ pending' \in BOOLEAN /\ told' \in Halts \cup {None} /\ faults' \in Nat
          /\ stored' \in Halts \cup {Missing, Damaged}
      BY <1>1, <2>1, SetHaltKeeps
    <3>2. over' \in BOOLEAN /\ commands' \in Nat /\ UNCHANGED <<up, reportVars, restarts>>
      <4>1. commands' \in Nat
        BY <1>1 DEF Command, TypeOK
      <4>2. over' \in BOOLEAN /\ UNCHANGED <<up, reportVars, restarts>>
        BY <1>1, Zenon DEF Command
      <4> QED BY <4>1, <4>2
    <3> HIDE DEF HInv
    <3> QED BY <3>1, <3>2 DEF TypeOK, HInv
  <2> QED BY <2>1, <2>2, SetHaltKeeps
<1>2. CASE PauseRunsOut
  BY <1>2 DEF PauseRunsOut, TypeOK, MemoryIsFile, ToldIsStored, ReportIsOwed, Clocks
<1>3. CASE Expire
  <2>1. /\ SetHalt(Working) /\ up /\ UNCHANGED <<up, sending, wallAge, since>>
    BY <1>3 DEF Expire
  <2>2. TypeOK'
    BY <1>3, <2>1, SetHaltKeeps, HaltKinds DEF TypeOK, Expire
  <2> QED BY <2>1, <2>2, SetHaltKeeps, HaltKinds
<1>4. CASE BeginReport
  <2>1. TypeOK'
    BY <1>4, HaltAssumption DEF BeginReport, TypeOK
  <2>2. MemoryIsFile' /\ ToldIsStored'
    BY <1>4 DEF BeginReport, MemoryIsFile, ToldIsStored
  <2>3. ReportIsOwed'
    BY <1>4 DEF BeginReport, ReportIsOwed, TypeOK
  <2>4. Clocks'
    BY <1>4 DEF BeginReport, Clocks
  <2> QED BY <2>1, <2>2, <2>3, <2>4
<1>5. CASE ReportAcked
  <2>1. sending \in [h : Halts, version : Nat]
    BY <1>5 DEF ReportAcked, TypeOK
  <2>2. TypeOK'
    BY <1>5, <2>1, HaltKinds DEF ReportAcked, TypeOK
  <2> QED BY <1>5, <2>2
       DEF ReportAcked, MemoryIsFile, ToldIsStored, ReportIsOwed, Clocks
<1>6. CASE ReportLost
  <2>1. sending \in [h : Halts, version : Nat]
    BY <1>6 DEF ReportLost, TypeOK
  <2>2. TypeOK'
    BY <1>6, <2>1, HaltKinds DEF ReportLost, TypeOK
  <2> QED BY <1>6, <2>2
       DEF ReportLost, MemoryIsFile, ToldIsStored, ReportIsOwed, Clocks
<1>7. CASE Tick
  <2>1. TypeOK'
    BY <1>7, HaltAssumption DEF Tick, TypeOK, Older
  <2>2. Clocks'
    BY <1>7, HaltAssumption DEF Tick, TypeOK, Older, Clocks
  <2> QED BY <1>7, <2>1, <2>2 DEF Tick, MemoryIsFile, ToldIsStored, ReportIsOwed
<1>8. CASE ClockBack
  <2>1. wallAge' \in (0 - MaxBack)..Throttle /\ wallAge' <= wallAge
    BY <1>8, HaltAssumption DEF ClockBack, TypeOK
  <2>2. TypeOK'
    BY <1>8, <2>1 DEF ClockBack, TypeOK
  <2>3. Clocks'
    BY <1>8, <2>1, HaltAssumption DEF ClockBack, TypeOK, Clocks
  <2> QED BY <1>8, <2>2, <2>3 DEF ClockBack, MemoryIsFile, ToldIsStored, ReportIsOwed
<1>9. CASE Dies
  <2>1. sending # None => sending.h.state \in {"arbeitet", "pausiert", "angehalten"}
    BY HaltKinds DEF TypeOK
  <2>2. TypeOK'
    <3>1. box' \in {"arbeitet", "pausiert", "angehalten"}
      BY <1>9, <2>1 DEF Dies, TypeOK
    <3>2. Throttle \in 0..Throttle
      BY HaltAssumption
    <3>3. up' \in BOOLEAN /\ restarts' \in Nat /\ sending' = None /\ age' = Throttle
      <4>1. restarts' \in Nat
        BY <1>9 DEF Dies, TypeOK
      <4>2. up' \in BOOLEAN /\ sending' = None /\ age' = Throttle
        BY <1>9, Zenon DEF Dies
      <4> QED BY <4>1, <4>2
    <3> QED BY <1>9, <3>1, <3>2, <3>3 DEF Dies, TypeOK
  <2> QED BY <1>9, <2>2
       DEF Dies, MemoryIsFile, ToldIsStored, ReportIsOwed, Clocks
<1>10. CASE Damage
  <2>1. TypeOK'
    BY <1>10 DEF Damage, TypeOK
  <2> QED BY <1>10, <2>1
       DEF Damage, MemoryIsFile, ToldIsStored, ReportIsOwed, Clocks
<1>11. CASE Load
  <2>1. sending = None
    BY <1>11 DEF Load, ReportIsOwed
  <2> DEFINE Normal == stored = Missing /\ halt' = Working /\ fault' = FALSE /\ version' = 0
                       /\ pending' = FALSE
             Unread == stored = Damaged /\ halt' = Stopped /\ fault' = TRUE /\ version' = 1
                       /\ pending' = TRUE
             Taken == stored \in Halts /\ halt' = stored /\ fault' = FALSE /\ version' = 1
                      /\ pending' = TRUE
  <2>a. Normal \/ Unread \/ Taken
    BY <1>11 DEF Load
  <2>b. /\ up' = TRUE
        /\ UNCHANGED <<stored, over, reportVars, told, commands, faults, restarts>>
    BY <1>11 DEF Load
  <2>2. TypeOK'
    <3>1. halt' \in Halts /\ fault' \in BOOLEAN /\ version' \in Nat /\ pending' \in BOOLEAN
      <4>1. halt' \in Halts /\ version' \in Nat
        BY <2>a, HaltKinds
      <4>2. fault' \in BOOLEAN /\ pending' \in BOOLEAN
        BY <2>a, Zenon
      <4> QED BY <4>1, <4>2
    <3> HIDE DEF Normal, Unread, Taken
    <3> QED BY <3>1, <2>b DEF TypeOK
  <2>3. MemoryIsFile'
    BY <2>a, <2>b DEF MemoryIsFile
  <2> QED BY <1>11, <2>1, <2>2, <2>3 DEF Load, ToldIsStored, ReportIsOwed, Clocks
<1>12. CASE UNCHANGED haltVars
  BY <1>12 DEF haltVars, TypeOK, MemoryIsFile, ToldIsStored, ReportIsOwed, Clocks
<1> QED BY <1>1, <1>2, <1>3, <1>4, <1>5, <1>6, <1>7, <1>8, <1>9, <1>10, <1>11, <1>12
     DEF HaltNext

(* The invariant that everything below rests on.                           *)
THEOREM HaltInvariant == Spec => []HInv
<1>1. HaltInit => HInv
  BY HInvInit
<1>2. HInv /\ [HaltNext]_haltVars => HInv'
  BY HInvNext
<1> QED BY <1>1, <1>2, PTL DEF Spec

(* Type correctness.                                                       *)
THEOREM HaltTypeCorrect == Spec => []TypeOK
<1>1. HInv => TypeOK
  BY DEF HInv
<1> QED BY <1>1, HaltInvariant, PTL

(* A stop the user was told of holds until a command lifts it.             *)
THEOREM HaltLasts == Spec => []ConfirmedHaltLasts
<1>1. HInv => ConfirmedHaltLasts
  <2> SUFFICES ASSUME HInv, up PROVE
        /\ told = Stopped => halt = Stopped
        /\ told # None /\ told.state = "pausiert" => halt.state # "arbeitet"
    BY DEF ConfirmedHaltLasts
  <2> USE DEF HInv, TypeOK
  <2>1. ASSUME told \notin {None, Working} PROVE halt \in {told, Stopped}
    BY <2>1, HaltKinds DEF MemoryIsFile, ToldIsStored
  <2>2. told = Stopped => halt = Stopped
    BY <2>1, HaltKinds, NoneAssumption
  <2>3. ASSUME told # None, told.state = "pausiert" PROVE halt.state # "arbeitet"
    <3>1. told \in Halts /\ told # Working
      BY <2>3, HaltKinds
    <3>2. halt \in {told, Stopped}
      BY <2>1, <3>1, <2>3
    <3> QED BY <3>2, <2>3, HaltKinds
  <2> QED BY <2>2, <2>3
<1> QED BY <1>1, HaltInvariant, PTL

(* Two requests are a throttle apart in real time.                         *)
THEOREM ReportsThrottled == Spec => ThrottleKept
<1>1. HInv /\ [HaltNext]_haltVars
        => [sending = None /\ sending' # None => since >= Throttle]_haltVars
  <2> SUFFICES ASSUME HInv, HaltNext, sending = None, sending' # None
               PROVE  since >= Throttle
    BY DEF haltVars
  <2>1. ASSUME BeginReport PROVE since >= Throttle
    BY <2>1, HaltAssumption DEF BeginReport, HInv, TypeOK, Clocks
  <2>2. ASSUME NEW h \in Halts, Command(h) PROVE FALSE
    BY <2>2 DEF Command, reportVars
  <2> QED BY <2>1, <2>2 DEF HaltNext, PauseRunsOut, Expire, ReportAcked, ReportLost, Tick,
         ClockBack, Dies, Damage, Load, reportVars
<1> QED BY <1>1, HaltInvariant, PTL DEF Spec, ThrottleKept

(* Only a command that was stored ends the fault while the runner is up.   *)
THEOREM FaultStays == Spec => FaultIsSticky
<1>1. HInv /\ [HaltNext]_haltVars
        => [up /\ fault /\ up' /\ ~ fault' => halt' = stored' /\ commands' > commands]_haltVars
  <2> SUFFICES ASSUME HInv, HaltNext, up, fault, up', ~ fault'
               PROVE  halt' = stored' /\ commands' > commands
    BY DEF haltVars
  <2>1. ASSUME NEW h \in Halts, Command(h) PROVE halt' = stored' /\ commands' > commands
    BY <2>1 DEF Command, SetHalt, HInv, TypeOK
  <2>2. ~ Expire
    BY DEF Expire, HInv, MemoryIsFile, Stopped
  <2> QED BY <2>1, <2>2 DEF HaltNext, PauseRunsOut, BeginReport, ReportAcked, ReportLost,
         Tick, ClockBack, Dies, Damage, Load, controlVars
<1> QED BY <1>1, HaltInvariant, PTL DEF Spec, FaultIsSticky

(* On a device that has stored a halt before, the box was told what holds  *)
(* whenever no report is owed.                                             *)
OwedInv == HInv /\ stored # Missing /\ NothingOwed

(* The box was told what holds whenever no report is owed, on a device that has *)
(* stored a halt before.                                                        *)
THEOREM BoxKnows == ~ FirstUse => (Spec => []NothingOwed)
<1> SUFFICES ASSUME ~ FirstUse PROVE Spec => []NothingOwed
  OBVIOUS
<1>1. HaltInit => OwedInv
  BY HInvInit DEF HaltInit, OwedInv, NothingOwed, Working, Missing
<1>2. OwedInv /\ [HaltNext]_haltVars => OwedInv'
  <2> SUFFICES ASSUME OwedInv, [HaltNext]_haltVars PROVE OwedInv'
    OBVIOUS
  <2>1. HInv'
    BY HInvNext DEF OwedInv
  <2>2. stored' # Missing /\ NothingOwed'
    <3> USE DEF OwedInv, controlVars, reportVars
    <3>1. ASSUME NEW h \in Halts, Command(h) PROVE stored' # Missing /\ NothingOwed'
      BY <3>1, HaltKinds DEF Command, SetHalt, NothingOwed
    <3>2. CASE Expire
      BY <3>2, HaltKinds DEF Expire, SetHalt, NothingOwed
    <3>3. CASE BeginReport
      BY <3>3 DEF BeginReport, NothingOwed
    <3>4. CASE ReportAcked
      BY <3>4 DEF ReportAcked, NothingOwed, HInv, ReportIsOwed
    <3>5. CASE ReportLost
      BY <3>5 DEF ReportLost, NothingOwed, HInv, ReportIsOwed
    <3>6. CASE PauseRunsOut \/ Tick \/ ClockBack
      BY <3>6 DEF PauseRunsOut, Tick, ClockBack, NothingOwed
    <3>7. CASE Dies
      BY <3>7 DEF Dies, NothingOwed
    <3>8. CASE Damage
      BY <3>8 DEF Damage, NothingOwed, Missing, Damaged
    <3>9. CASE Load
      BY <3>9 DEF Load, NothingOwed
    <3>10. CASE UNCHANGED haltVars
      BY <3>10 DEF haltVars, NothingOwed
    <3> QED BY <3>1, <3>2, <3>3, <3>4, <3>5, <3>6, <3>7, <3>8, <3>9, <3>10 DEF HaltNext
  <2> QED BY <2>1, <2>2 DEF OwedInv
<1>3. OwedInv => NothingOwed
  BY DEF OwedInv
<1> QED BY <1>1, <1>2, <1>3, PTL DEF Spec

(* Both: a confirmed halt lasts, and the box knows it once nothing is owed.     *)
THEOREM HaltIsKept == ~ FirstUse => (Spec => []HaltKeeps)
BY HaltLasts, BoxKnows, PTL DEF HaltKeeps

-----------------------------------------------------------------------------
(* Sync: nothing that was taken away comes back, and what is kept works    *)
(* offline no longer than the grace.                                       *)

Taking == {"pins", "package", "seal"}
SyncTypes ==
    /\ wallHour \in Nat /\ aged \in Nat /\ counted \in Nat /\ unseen \in Nat /\ unseen <= counted
    /\ clockFile \in Nat /\ clockHigh \in [known : BOOLEAN, at : Nat]
    /\ held \in HeldKind /\ bundle \in HeldKind /\ step.want \in HeldKind
    /\ step = [at |-> step.at, want |-> step.want, left |-> step.left, key |-> step.key,
               apps |-> step.apps, app |-> step.app]

(* Nothing is left of an erased state, and no step is under way that writes     *)
(* without asking it.                                                           *)
ErasedIsBare ==
    erased => /\ envAt = [k \in Keys |-> Bare] /\ appAt = [a \in AppIds |-> Bare]
              /\ step.at # "app rename"
(* What a sync takes over is not older than the memory, the memory not older     *)
(* than the file.                                                               *)
NotOlder ==
    /\ Alive => bundle.seq >= held.seq
    /\ Alive /\ ~erased => bundle.last = held.last
    /\ step.at \in Taking => step.want.seq >= held.seq
(* The file and the memory of the process together have counted every hour       *)
(* since the sync that the process saw.                                         *)
HoursCounted ==
    ~erased => /\ clockFile >= held.last + (counted - unseen)
               /\ clockHigh.known = TRUE => clockHigh.at >= held.last + (counted - unseen)
               /\ clockHigh.known = FALSE => unseen = 0
(* While nobody has set the clock back, nothing is ahead of it.                   *)
NothingAhead ==
    ~setBack => /\ clockFile <= wallHour /\ held.last + aged <= wallHour
                /\ clockHigh.known = TRUE => clockHigh.at + unseen <= wallHour

SyncInv == SyncTypes /\ ErasedIsBare /\ NotOlder /\ HoursCounted /\ NothingAhead

LEMMA NothingHeldIsHeld == NothingHeld \in HeldKind /\ NothingHeld.seq = 0 /\ NothingHeld.last = 0
  BY SyncAssumption DEF NothingHeld, HeldKind

LEMMA NoStepIsStep ==
    /\ NoStep.at = "idle" /\ NoStep.want = NothingHeld
    /\ \A a : LET s == [NoStep EXCEPT !.at = a] IN
              /\ s.at = a /\ s.want = NothingHeld
              /\ s = [at |-> s.at, want |-> s.want, left |-> s.left, key |-> s.key, apps |-> s.apps, app |-> s.app]
    /\ NoStep = [at |-> NoStep.at, want |-> NoStep.want, left |-> NoStep.left, key |-> NoStep.key,
                 apps |-> NoStep.apps, app |-> NoStep.app]
<1> DEFINE k == CHOOSE i \in Keys : TRUE
           b == CHOOSE i \in AppIds : TRUE
<1>1. NoStep = [at |-> "idle", want |-> NothingHeld, left |-> {}, key |-> k, apps |-> {}, app |-> b]
  BY DEF NoStep
<1> HIDE DEF k, b
<1>2. NoStep.at = "idle" /\ NoStep.want = NothingHeld
  BY <1>1
<1>3. NoStep = [at |-> NoStep.at, want |-> NoStep.want, left |-> NoStep.left, key |-> NoStep.key,
                apps |-> NoStep.apps, app |-> NoStep.app]
  BY <1>1
<1>4. ASSUME NEW a
      PROVE  /\ [NoStep EXCEPT !.at = a].at = a /\ [NoStep EXCEPT !.at = a].want = NothingHeld
             /\ [NoStep EXCEPT !.at = a]
                  = [at |-> [NoStep EXCEPT !.at = a].at, want |-> [NoStep EXCEPT !.at = a].want,
                     left |-> [NoStep EXCEPT !.at = a].left, key |-> [NoStep EXCEPT !.at = a].key,
                     apps |-> [NoStep EXCEPT !.at = a].apps, app |-> [NoStep EXCEPT !.at = a].app]
  <2>1. [NoStep EXCEPT !.at = a]
           = [at |-> a, want |-> NothingHeld, left |-> {}, key |-> k, apps |-> {}, app |-> b]
    BY <1>1
  <2> QED BY <2>1
<1> QED BY <1>2, <1>3, <1>4

LEMMA SyncInvInit == SyncInit => SyncInv
<1> SUFFICES ASSUME SyncInit PROVE SyncInv
  OBVIOUS
<1>1. /\ wallHour = MaxShift /\ held = NothingHeld /\ clockFile = 0 /\ bundle = NothingHeld
      /\ counted = 0 /\ unseen = 0 /\ aged = 0 /\ erased = FALSE /\ clockHigh = Unknown
  BY DEF SyncInit
<1>2. /\ step.at = "down" /\ step.want = NothingHeld
      /\ step = [at |-> step.at, want |-> step.want, left |-> step.left, key |-> step.key,
                 apps |-> step.apps, app |-> step.app]
  BY NoStepIsStep DEF SyncInit
<1>3. clockHigh.known = FALSE /\ clockHigh \in [known : BOOLEAN, at : Nat]
  <2>1. \A b \in BOOLEAN : [known |-> b, at |-> 0] \in [known : BOOLEAN, at : Nat]
    OBVIOUS
  <2>2. clockHigh \in [known : BOOLEAN, at : Nat]
    BY <1>1, <2>1, Zenon DEF Unknown
  <2>3. clockHigh.known = FALSE
    BY <1>1 DEF Unknown
  <2> QED BY <2>2, <2>3
<1>4. SyncTypes
  BY <1>1, <1>2, <1>3, NothingHeldIsHeld, SyncAssumption DEF SyncTypes
<1>5. ErasedIsBare /\ NotOlder
  BY <1>1, <1>2 DEF ErasedIsBare, NotOlder, Alive, Taking
<1>6. HoursCounted /\ NothingAhead
  BY <1>1, <1>3, NothingHeldIsHeld, SyncAssumption DEF HoursCounted, NothingAhead
<1> QED BY <1>4, <1>5, <1>6 DEF SyncInv

(* A step of the loop that touches neither the clocks nor the manifests.        *)
LEMMA StepOnly ==
    ASSUME SyncInv, UNCHANGED <<held, clockFile, clockHigh, bundle, syncTime, erased>>,
           erased => UNCHANGED <<envAt, appAt>>,
           step' = [at |-> step'.at, want |-> step'.want, left |-> step'.left, key |-> step'.key,
                    apps |-> step'.apps, app |-> step'.app],
           step'.want \in HeldKind, Alive, erased => step'.at # "app rename",
           step'.at \in Taking => step'.want.seq >= held.seq
    PROVE  SyncInv'
<1> USE DEF syncTime
<1>1. SyncTypes'
  BY DEF SyncInv, SyncTypes
<1>2. ErasedIsBare' /\ NotOlder'
  BY DEF SyncInv, ErasedIsBare, NotOlder, Alive
<1>3. HoursCounted' /\ NothingAhead'
  BY DEF SyncInv, HoursCounted, NothingAhead
<1> QED BY <1>1, <1>2, <1>3 DEF SyncInv

(* The time that is observed: at least what has been counted since the sync, and *)
(* the wall clock if nobody has set it back.                                    *)
LEMMA ObservedTime ==
    ASSUME SyncInv, ~erased
    PROVE  /\ Observed \in Nat /\ Observed >= held.last + counted
           /\ ~setBack => Observed = wallHour
<1>1. Floor \in Nat
  BY DEF SyncInv, SyncTypes, Floor
<1>2. clockHigh.known \in BOOLEAN
  BY DEF SyncInv, SyncTypes
<1>3. held.last \in Nat
  BY DEF SyncInv, SyncTypes, HeldKind
<1>4. CASE clockHigh.known = TRUE
  <2>1. clockHigh.at >= held.last + (counted - unseen) /\ clockHigh.at \in Nat
    BY <1>4 DEF SyncInv, SyncTypes, HoursCounted
  <2>2. Floor >= clockHigh.at + unseen
    BY <1>4, <2>1 DEF Floor, SyncInv, SyncTypes
  <2>3. ~setBack => Floor = wallHour
    BY <1>4, <2>1 DEF Floor, SyncInv, SyncTypes, NothingAhead
  <2> QED BY <1>1, <1>3, <2>1, <2>2, <2>3 DEF Observed, SyncInv, SyncTypes, NothingAhead
<1>5. CASE clockHigh.known = FALSE
  <2>1. clockFile >= held.last + counted
    BY <1>3, <1>5 DEF SyncInv, SyncTypes, HoursCounted
  <2>2. Floor = wallHour
    BY <1>5 DEF Floor
  <2> QED BY <1>1, <1>3, <2>1, <2>2 DEF Observed, SyncInv, SyncTypes, NothingAhead
<1> QED BY <1>2, <1>4, <1>5

LEMMA ObserveKeeps ==
    ASSUME SyncInv, ObserveTime
    PROVE  /\ clockFile' = Observed /\ clockFile' \in Nat /\ unseen' = 0
           /\ clockHigh' \in [known : BOOLEAN, at : Nat]
           /\ clockHigh'.known = TRUE /\ clockHigh'.at = Observed
<1>1. Observed \in Nat /\ clockHigh' = [known |-> TRUE, at |-> Observed]
  BY ObservedTime DEF ObserveTime
<1>2. \A b \in BOOLEAN, n \in Nat : [known |-> b, at |-> n] \in [known : BOOLEAN, at : Nat]
  OBVIOUS
<1>3. clockHigh' \in [known : BOOLEAN, at : Nat]
  BY <1>1, <1>2, Zenon
<1>4. clockHigh'.known = TRUE /\ clockHigh'.at = Observed
  BY <1>1
<1> QED BY <1>1, <1>3, <1>4 DEF ObserveTime

(* A pass, or the start of a script without network: the time alone.            *)
LEMMA PassKeeps ==
    ASSUME SyncInv, ObserveTime, UNCHANGED <<wallHour, held, envAt, appAt, bundle, erased, counted, aged, setBack>>,
           step' = step \/ step' = [NoStep EXCEPT !.at = "due"], Alive
    PROVE  SyncInv'
<1>0. ~erased
  BY DEF ObserveTime
<1>1. /\ Observed \in Nat /\ Observed >= held.last + counted /\ (~setBack => Observed = wallHour)
      /\ clockFile' = Observed /\ unseen' = 0 /\ clockHigh' \in [known : BOOLEAN, at : Nat]
      /\ clockHigh'.known = TRUE /\ clockHigh'.at = Observed
  BY <1>0, ObservedTime, ObserveKeeps
<1>2. /\ step' = [at |-> step'.at, want |-> step'.want, left |-> step'.left, key |-> step'.key,
                  apps |-> step'.apps, app |-> step'.app]
      /\ step'.want \in HeldKind /\ (step' = step \/ step'.at = "due")
  BY NoStepIsStep, NothingHeldIsHeld DEF SyncInv, SyncTypes
<1>3. SyncTypes'
  BY <1>1, <1>2 DEF SyncInv, SyncTypes
<1>4. ErasedIsBare' /\ NotOlder'
  BY <1>0, <1>2 DEF SyncInv, ErasedIsBare, NotOlder, Alive, Taking
<1>5. HoursCounted' /\ NothingAhead'
  BY <1>1 DEF SyncInv, SyncTypes, HeldKind, HoursCounted, NothingAhead
<1> QED BY <1>3, <1>4, <1>5 DEF SyncInv

LEMMA SaveKeeps == SyncInv /\ SaveManifest => SyncInv' /\ held'.seq >= held.seq
<1> SUFFICES ASSUME SyncInv, SaveManifest PROVE SyncInv' /\ held'.seq >= held.seq
  OBVIOUS
<1>1. CASE erased
  <2>1. UNCHANGED <<syncDisk, syncTime, bundle, clockHigh, erased>> /\ step' = NoStep /\ Alive
    BY <1>1 DEF SaveManifest, SyncFails, Alive
  <2>2. SyncInv'
    BY <2>1, NoStepIsStep, NothingHeldIsHeld, StepOnly DEF syncDisk, Taking
  <2> QED BY <2>1, <2>2 DEF syncDisk, SyncInv, SyncTypes, HeldKind
<1>2. CASE ~erased
  <2>1. /\ Observed \in Nat /\ Observed >= held.last + counted /\ (~setBack => Observed = wallHour)
        /\ clockFile' = Observed /\ unseen' = 0 /\ clockHigh' \in [known : BOOLEAN, at : Nat]
        /\ clockHigh'.known = TRUE /\ clockHigh'.at = Observed
    BY <1>2, ObservedTime, ObserveKeeps DEF SaveManifest
  <2>2. /\ held' = [step.want EXCEPT !.last = Observed] /\ bundle' = held'
        /\ step' = [step EXCEPT !.at = "apps", !.apps = step.want.apps]
        /\ counted' = 0 /\ aged' = 0 /\ UNCHANGED <<wallHour, envAt, appAt, erased, setBack>>
    BY <1>2 DEF SaveManifest, StepGoes
  <2>3. held' \in HeldKind /\ held'.last = Observed /\ held'.seq = step.want.seq
    BY <2>1, <2>2 DEF SyncInv, SyncTypes, HeldKind
  <2>4. step.want.seq >= held.seq
    BY DEF SyncInv, NotOlder, SaveManifest, Taking
  <2>5. /\ step'.at = "apps" /\ step'.want = step.want
        /\ step' = [at |-> step'.at, want |-> step'.want, left |-> step'.left, key |-> step'.key,
                    apps |-> step'.apps, app |-> step'.app]
    BY <2>2 DEF SyncInv, SyncTypes
  <2>6. SyncTypes'
    BY <2>1, <2>2, <2>3, <2>5 DEF SyncInv, SyncTypes
  <2>7. ErasedIsBare' /\ NotOlder'
    BY <1>2, <2>2, <2>3, <2>5 DEF ErasedIsBare, NotOlder, Alive, Taking, HeldKind
  <2>8. HoursCounted' /\ NothingAhead'
    BY <2>1, <2>2, <2>3 DEF HoursCounted, NothingAhead, SyncInv, SyncTypes
  <2> QED BY <2>3, <2>4, <2>6, <2>7, <2>8 DEF SyncInv
<1> QED BY <1>1, <1>2

LEMMA NewerNumber ==
    ASSUME SyncInv, NEW m, Verified(m)
    PROVE  NumberOf(m) \in 0..MaxSeq /\ NumberOf(m) >= bundle.seq
<1>1. bundle.seq \in 0..MaxSeq
  BY DEF SyncInv, SyncTypes, HeldKind
<1>2. NumberOf(m) = UpTo(bundle.seq + 1, MaxSeq)
  BY DEF Verified, NumberOf
<1> QED BY <1>1, <1>2, SyncAssumption DEF UpTo

(* Steps of the loop between two files.                                         *)
LEMMA LoopKeeps ==
    ASSUME SyncInv,
           \/ GetConfig \/ GetManifest \/ (\E at \in {"due", "config", "package"} : RequestFailed(at))
           \/ NextPin \/ PrepareEnv \/ SealEnv \/ NextApp \/ AppFails \/ AppSeals \/ AppRenames
    PROVE  SyncInv' /\ held' = held /\ clockFile' = clockFile /\ (erased => syncDisk' = syncDisk)
<1> USE DEF syncDisk
<1>S. /\ step = [at |-> step.at, want |-> step.want, left |-> step.left, key |-> step.key,
                 apps |-> step.apps, app |-> step.app]
      /\ step.want \in HeldKind /\ (step.at \in Taking => step.want.seq >= held.seq)
      /\ erased => step.at # "app rename"
      /\ Alive => bundle.seq >= held.seq
  BY DEF SyncInv, SyncTypes, NotOlder, ErasedIsBare
<1>N. /\ NoStep = [at |-> NoStep.at, want |-> NoStep.want, left |-> NoStep.left, key |-> NoStep.key,
                   apps |-> NoStep.apps, app |-> NoStep.app]
      /\ NoStep.at = "idle" /\ NoStep.want \in HeldKind
  BY NoStepIsStep, NothingHeldIsHeld
<1>F. ASSUME NEW err, SyncFails(err), Alive
      PROVE  SyncInv' /\ held' = held /\ clockFile' = clockFile /\ syncDisk' = syncDisk
  BY <1>F, <1>N, StepOnly DEF SyncFails, Taking
<1>1. CASE GetConfig
  <2>1. step' = [step EXCEPT !.at = "config"] /\ UNCHANGED <<syncDisk, syncTime, bundle, clockHigh, erased>> /\ Alive
    BY <1>1 DEF GetConfig, StepGoes, Alive
  <2> QED BY <1>S, <2>1, StepOnly DEF Taking
<1>2. CASE GetManifest
  <2>1. PICK m \in Manifests :
          IF Verified(m)
          THEN /\ step' = [step EXCEPT !.at = "pins", !.left = m.keys,
                             !.want = [NothingHeld EXCEPT !.seq = NumberOf(m), !.keys = m.keys, !.apps = m.apps]]
               /\ UNCHANGED <<syncDisk, syncTime, bundle, syncErr, running, clockHigh, erased, syncUpsets>>
          ELSE SyncFails("manifest")
    BY <1>2 DEF GetManifest, StepGoes
  <2>2. Alive /\ step.at = "config"
    BY <1>2 DEF GetManifest, Alive
  <2>3. CASE Verified(m)
    <3> DEFINE want == [NothingHeld EXCEPT !.seq = NumberOf(m), !.keys = m.keys, !.apps = m.apps]
    <3>1. want \in HeldKind /\ want.seq = NumberOf(m)
      BY <2>3, NewerNumber, NothingHeldIsHeld DEF HeldKind, Manifests, NothingHeld
    <3>2. want.seq >= held.seq
      BY <1>S, <2>2, <2>3, <3>1, NewerNumber DEF SyncInv, SyncTypes, HeldKind
    <3> HIDE DEF want
    <3>3. step' = [step EXCEPT !.at = "pins", !.left = m.keys, !.want = want]
      BY <2>1, <2>3 DEF want
    <3>4. /\ step' = [at |-> step'.at, want |-> step'.want, left |-> step'.left, key |-> step'.key,
                      apps |-> step'.apps, app |-> step'.app]
          /\ step'.at = "pins" /\ step'.want = want
      BY <1>S, <3>3
    <3> QED BY <2>1, <2>2, <2>3, <3>1, <3>2, <3>4, StepOnly
  <2>4. CASE ~Verified(m)
    BY <1>F, <2>1, <2>2, <2>4
  <2> QED BY <2>3, <2>4
<1>3. ASSUME NEW at \in {"due", "config", "package"}, RequestFailed(at)
      PROVE  SyncInv' /\ held' = held /\ clockFile' = clockFile /\ syncDisk' = syncDisk
  <2>1. Alive /\ \E err : SyncFails(err)
    BY <1>3 DEF RequestFailed, Alive
  <2> QED BY <1>F, <2>1
<1>4. CASE NextPin
  <2>1. Alive /\ step.at = "pins"
    BY <1>4 DEF NextPin, Alive
  <2> DEFINE k == CHOOSE i \in step.left : TRUE
  <2>2. CASE SyncFails("hash")
    BY <1>F, <2>1, <2>2
  <2>3. CASE /\ step' = [step EXCEPT !.left = @ \ {k}] \/ step' = [step EXCEPT !.at = "package", !.key = k]
             /\ UNCHANGED <<syncDisk, syncTime, bundle, syncErr, running, clockHigh, erased, syncUpsets>>
    <3>1. /\ step' = [at |-> step'.at, want |-> step'.want, left |-> step'.left, key |-> step'.key,
                      apps |-> step'.apps, app |-> step'.app]
          /\ step'.at \in {"pins", "package"} /\ step'.want = step.want
      BY <1>S, <2>1, <2>3
    <3> QED BY <1>S, <2>1, <2>3, <3>1, StepOnly DEF Taking
  <2> QED BY <1>4, <2>2, <2>3 DEF NextPin, StepGoes
<1>5. CASE PrepareEnv
  <2>1. PICK defects \in Defects : PrepareFrom(defects)
    BY <1>5 DEF PrepareEnv
  <2>2. Alive /\ step.at = "package"
    BY <2>1 DEF PrepareFrom, Alive
  <2>3. CASE \E err : SyncFails(err)
    BY <1>F, <2>2, <2>3
  <2>4. CASE ~erased /\ step' = [step EXCEPT !.at = "seal"]
             /\ UNCHANGED <<held, clockFile, appAt, syncTime, bundle, syncErr, running, clockHigh, erased, syncUpsets>>
    <3>1. /\ step' = [at |-> step'.at, want |-> step'.want, left |-> step'.left, key |-> step'.key,
                      apps |-> step'.apps, app |-> step'.app]
          /\ step'.at = "seal" /\ step'.want = step.want
      BY <1>S, <2>4
    <3> QED BY <1>S, <2>2, <2>4, <3>1, StepOnly DEF Taking
  <2> QED BY <2>1, <2>3, <2>4 DEF PrepareFrom, StepGoes
<1>6. CASE SealEnv
  <2>1. Alive /\ step.at = "seal"
    BY <1>6 DEF SealEnv, Alive
  <2>2. CASE SyncFails("revoked")
    BY <1>F, <2>1, <2>2
  <2>3. CASE ~erased /\ step' = [step EXCEPT !.at = "pins", !.left = @ \ {step.key}]
             /\ UNCHANGED <<held, clockFile, appAt, syncTime, bundle, syncErr, running, clockHigh, erased, syncUpsets>>
    <3>1. /\ step' = [at |-> step'.at, want |-> step'.want, left |-> step'.left, key |-> step'.key,
                      apps |-> step'.apps, app |-> step'.app]
          /\ step'.at = "pins" /\ step'.want = step.want
      BY <1>S, <2>3
    <3> QED BY <1>S, <2>1, <2>3, <3>1, StepOnly DEF Taking
  <2> QED BY <1>6, <2>2, <2>3 DEF SealEnv, StepGoes
<1>7. CASE NextApp
  <2>1. Alive /\ step.at = "apps" /\ UNCHANGED <<syncDisk, syncTime, bundle, syncErr, running, clockHigh, erased, syncUpsets>>
    BY <1>7 DEF NextApp, Alive
  <2>2. CASE step' = NoStep
    BY <1>N, <2>1, <2>2, StepOnly DEF Taking
  <2> DEFINE a == CHOOSE i \in step.apps : TRUE
  <2>3. CASE step' = [step EXCEPT !.apps = @ \ {a}] \/ step' = [step EXCEPT !.at = "app", !.app = a]
    <3>1. /\ step' = [at |-> step'.at, want |-> step'.want, left |-> step'.left, key |-> step'.key,
                      apps |-> step'.apps, app |-> step'.app]
          /\ step'.at \in {"apps", "app"} /\ step'.want = step.want
      BY <1>S, <2>1, <2>3
    <3> QED BY <1>S, <2>1, <3>1, StepOnly DEF Taking
  <2> QED BY <1>7, <2>2, <2>3 DEF NextApp, StepGoes
<1>8. /\ AppDone = [at |-> AppDone.at, want |-> AppDone.want, left |-> AppDone.left, key |-> AppDone.key,
                    apps |-> AppDone.apps, app |-> AppDone.app]
      /\ AppDone.at = "apps" /\ AppDone.want = step.want
  <2> DEFINE rest == step.apps \ {step.app}
  <2>1. AppDone = [step EXCEPT !.at = "apps", !.apps = rest]
    BY DEF AppDone
  <2> HIDE DEF rest
  <2>2. AppDone = [at |-> "apps", want |-> step.want, left |-> step.left, key |-> step.key,
                   apps |-> rest, app |-> step.app]
    BY <1>S, <2>1
  <2> QED BY <2>2
<1>9. CASE AppFails
  <2>1. Alive /\ step' = AppDone /\ UNCHANGED <<syncDisk, syncTime, bundle, clockHigh, erased>>
    BY <1>9 DEF AppFails, StepGoes, Alive
  <2> QED BY <1>S, <1>8, <2>1, StepOnly DEF Taking
<1>10. CASE AppSeals
  <2>1. Alive /\ ~erased /\ step' = [step EXCEPT !.at = "app rename"]
        /\ UNCHANGED <<held, clockFile, syncTime, bundle, clockHigh, erased>>
    BY <1>10 DEF AppSeals, StepGoes, Alive
  <2>2. /\ step' = [at |-> step'.at, want |-> step'.want, left |-> step'.left, key |-> step'.key,
                    apps |-> step'.apps, app |-> step'.app]
        /\ step'.at = "app rename" /\ step'.want = step.want
    BY <1>S, <2>1
  <2> QED BY <1>S, <2>1, <2>2, StepOnly DEF Taking
<1>11. CASE AppRenames
  <2>1. Alive /\ ~erased /\ step' = AppDone /\ UNCHANGED <<held, clockFile, syncTime, bundle, clockHigh, erased>>
    BY <1>11, <1>S DEF AppRenames, StepGoes, Alive
  <2> QED BY <1>S, <1>8, <2>1, StepOnly DEF Taking
<1> QED BY <1>1, <1>2, <1>3, <1>4, <1>5, <1>6, <1>7, <1>9, <1>10, <1>11

(* A pass of the loop, and scripts that start and end.                          *)
LEMMA ScriptsKeep ==
    ASSUME SyncInv, LoopPass \/ ScriptReturns \/ (\E k \in Keys : StartOffline(k) \/ StartOnline(k))
    PROVE  SyncInv' /\ held' = held /\ (erased => syncDisk' = syncDisk)
<1>1. CASE LoopPass \/ (\E k \in Keys : StartOffline(k))
  <2>1. /\ ObserveTime /\ UNCHANGED <<wallHour, held, envAt, appAt, bundle, erased, counted, aged, setBack>>
        /\ step' = step \/ step' = [NoStep EXCEPT !.at = "due"]
        /\ Alive
    BY <1>1 DEF LoopPass, StartOffline, StepGoes, Alive
  <2> QED BY <2>1, PassKeeps DEF ObserveTime
<1>2. CASE ScriptReturns \/ (\E k \in Keys : StartOnline(k))
  <2>1. UNCHANGED <<syncDisk, syncTime, bundle, step, clockHigh, erased>>
    BY <1>2 DEF ScriptReturns, StartOnline
  <2> USE DEF syncDisk, syncTime
  <2>2. SyncTypes'
    BY <2>1 DEF SyncInv, SyncTypes
  <2>3. ErasedIsBare' /\ NotOlder'
    BY <2>1 DEF SyncInv, ErasedIsBare, NotOlder, Alive
  <2>4. HoursCounted' /\ NothingAhead'
    BY <2>1 DEF SyncInv, HoursCounted, NothingAhead
  <2> QED BY <2>1, <2>2, <2>3, <2>4 DEF SyncInv
<1> QED BY <1>1, <1>2

(* Hours, somebody at the clock or at the files, deaths, and the revocation.     *)
LEMMA SurroundingsKeep ==
    ASSUME SyncInv,
           \/ Revokes \/ HourPasses \/ ClockSetBack \/ FilesChange \/ RunnerDies \/ WriteFails \/ RunnerStarts
           \/ UNCHANGED syncVars
    PROVE  SyncInv' /\ (held' = held \/ erased') /\ (erased => syncDisk' = syncDisk)
<1> USE DEF syncDisk, syncTime, syncMemory
<1>T. /\ wallHour \in Nat /\ aged \in Nat /\ counted \in Nat /\ unseen \in Nat /\ unseen <= counted
      /\ clockFile \in Nat /\ clockHigh \in [known : BOOLEAN, at : Nat]
      /\ held \in HeldKind /\ bundle \in HeldKind /\ step.want \in HeldKind /\ held.last \in Nat
      /\ clockHigh.at \in Nat /\ clockHigh.known \in BOOLEAN
      /\ step = [at |-> step.at, want |-> step.want, left |-> step.left, key |-> step.key,
                 apps |-> step.apps, app |-> step.app]
  BY DEF SyncInv, SyncTypes, HeldKind
<1>1. CASE Revokes
  <2>1. /\ Alive /\ step.at # "app rename" /\ erased' = TRUE /\ held' = NothingHeld /\ clockFile' = 0 /\ ~erased
        /\ envAt' = [k \in Keys |-> Bare] /\ appAt' = [a \in AppIds |-> Bare]
        /\ UNCHANGED <<wallHour, counted, unseen, aged, setBack, bundle, step, clockHigh>>
    BY <1>1 DEF Revokes
  <2>2. SyncTypes'
    BY <1>T, <2>1, NothingHeldIsHeld DEF SyncTypes
  <2>3. ErasedIsBare'
    BY <2>1 DEF ErasedIsBare
  <2>4. held'.seq = 0 /\ held'.last = 0
    BY <2>1, NothingHeldIsHeld
  <2>5. bundle.seq \in 0..MaxSeq /\ step.want.seq \in 0..MaxSeq
    BY <1>T DEF HeldKind
  <2>6. NotOlder'
    <3>1. bundle.seq >= 0 /\ step.want.seq >= 0
      BY <2>5, SyncAssumption
    <3>2. bundle' = bundle /\ step' = step /\ erased' = TRUE
      BY <2>1
    <3> QED BY <2>4, <3>1, <3>2 DEF NotOlder, Alive, Taking
  <2>7. HoursCounted'
    BY <2>1 DEF HoursCounted
  <2>8. NothingAhead'
    <3>1. wallHour \in Nat /\ aged \in Nat /\ held.last \in Nat
      BY <1>T
    <3>2. ASSUME ~setBack
          PROVE  /\ 0 <= wallHour /\ 0 + aged <= wallHour
                 /\ clockHigh.known = TRUE => clockHigh.at + unseen <= wallHour
      <4>1. held.last + aged <= wallHour /\ (clockHigh.known = TRUE => clockHigh.at + unseen <= wallHour)
        BY <3>2 DEF SyncInv, NothingAhead
      <4> QED BY <3>1, <4>1
    <3>3. /\ setBack' = setBack /\ wallHour' = wallHour /\ aged' = aged /\ clockHigh' = clockHigh
          /\ unseen' = unseen /\ clockFile' = 0 /\ held'.last = 0
      BY <2>1, <2>4
    <3> QED BY <3>2, <3>3 DEF NothingAhead
  <2> QED BY <2>1, <2>2, <2>3, <2>6, <2>7, <2>8 DEF SyncInv
<1>2. CASE HourPasses
  <2>1. /\ wallHour' = wallHour + 1 /\ aged' = aged + 1
        /\ UNCHANGED <<setBack, held, clockFile, envAt, appAt, bundle, step, clockHigh, erased>>
        /\ clockHigh.known = TRUE => counted' = counted + 1 /\ unseen' = unseen + 1
        /\ clockHigh.known = FALSE => counted' = counted /\ unseen' = unseen
    BY <1>2 DEF HourPasses
  <2>2. SyncTypes'
    BY <1>T, <2>1 DEF SyncTypes
  <2>3. ErasedIsBare' /\ NotOlder'
    BY <2>1 DEF SyncInv, ErasedIsBare, NotOlder, Alive
  <2>4. HoursCounted' /\ NothingAhead'
    BY <1>T, <2>1 DEF SyncInv, HoursCounted, NothingAhead
  <2> QED BY <2>1, <2>2, <2>3, <2>4 DEF SyncInv
<1>3. CASE ClockSetBack
  <2>1. /\ wallHour' = wallHour - MaxShift /\ wallHour >= MaxShift /\ setBack' = TRUE
        /\ UNCHANGED <<counted, unseen, aged, held, clockFile, envAt, appAt, bundle, step, clockHigh, erased>>
    BY <1>3 DEF ClockSetBack
  <2>2. SyncTypes'
    BY <1>T, <2>1, SyncAssumption DEF SyncTypes
  <2>3. ErasedIsBare' /\ NotOlder'
    BY <2>1 DEF SyncInv, ErasedIsBare, NotOlder, Alive
  <2>4. HoursCounted' /\ NothingAhead'
    BY <2>1 DEF SyncInv, HoursCounted, NothingAhead
  <2> QED BY <2>1, <2>2, <2>3, <2>4 DEF SyncInv
<1>4. CASE FilesChange
  <2>1. UNCHANGED <<held, clockFile, bundle, step, clockHigh, wallHour, counted, unseen, aged, setBack, erased>>
    BY <1>4 DEF FilesChange
  <2>2. ~erased
    <3>1. ASSUME erased PROVE FALSE
      <4>1. envAt = [k \in Keys |-> Bare] /\ appAt = [a \in AppIds |-> Bare]
        BY <3>1 DEF SyncInv, ErasedIsBare
      <4>2. Bare.dir = "none"
        BY DEF Bare
      <4>3. (\A k \in Keys : envAt[k].dir = "none") /\ (\A a \in AppIds : appAt[a].dir = "none")
        BY <4>1, <4>2
      <4> QED BY <1>4, <4>3 DEF FilesChange
    <3> QED BY <3>1
  <2>3. SyncTypes'
    BY <1>T, <2>1 DEF SyncTypes
  <2>4. ErasedIsBare' /\ NotOlder'
    BY <2>1, <2>2 DEF SyncInv, ErasedIsBare, NotOlder, Alive
  <2>5. HoursCounted' /\ NothingAhead'
    BY <2>1 DEF SyncInv, HoursCounted, NothingAhead
  <2> QED BY <2>1, <2>2, <2>3, <2>4, <2>5 DEF SyncInv
<1>5. CASE RunnerDies
  <2>1. /\ step' = [NoStep EXCEPT !.at = "down"] /\ bundle' = NothingHeld /\ clockHigh' = Unknown
        /\ counted' = counted - unseen /\ unseen' = 0
        /\ UNCHANGED <<held, clockFile, envAt, appAt, wallHour, aged, setBack, erased>>
    BY <1>5 DEF RunnerDies
  <2>2. /\ step'.at = "down" /\ step'.want = NothingHeld
        /\ step' = [at |-> step'.at, want |-> step'.want, left |-> step'.left, key |-> step'.key,
                    apps |-> step'.apps, app |-> step'.app]
    BY <2>1, NoStepIsStep
  <2>3. clockHigh'.known = FALSE /\ clockHigh' \in [known : BOOLEAN, at : Nat]
    <3>1. \A b \in BOOLEAN : [known |-> b, at |-> 0] \in [known : BOOLEAN, at : Nat]
      OBVIOUS
    <3>2. clockHigh' \in [known : BOOLEAN, at : Nat]
      BY <2>1, <3>1, Zenon DEF Unknown
    <3>3. clockHigh'.known = FALSE
      BY <2>1 DEF Unknown
    <3> QED BY <3>2, <3>3
  <2>4. SyncTypes'
    BY <1>T, <2>1, <2>2, <2>3, NothingHeldIsHeld DEF SyncTypes
  <2>5. ErasedIsBare' /\ NotOlder'
    BY <2>1, <2>2 DEF SyncInv, ErasedIsBare, NotOlder, Alive, Taking
  <2>6. HoursCounted' /\ NothingAhead'
    BY <1>T, <2>1, <2>3 DEF SyncInv, HoursCounted, NothingAhead
  <2> QED BY <2>1, <2>4, <2>5, <2>6 DEF SyncInv
<1>6. CASE WriteFails
  <2>1. Alive /\ step' = NoStep /\ UNCHANGED <<syncDisk, syncTime, bundle, clockHigh, erased>>
    BY <1>6 DEF WriteFails, Alive
  <2> QED BY <2>1, NoStepIsStep, NothingHeldIsHeld, StepOnly DEF Taking
<1>7. CASE RunnerStarts
  <2>1. /\ step' = [NoStep EXCEPT !.at = "due"] /\ bundle' = held /\ ~erased
        /\ UNCHANGED <<held, clockFile, envAt, appAt, wallHour, counted, unseen, aged, setBack, clockHigh, erased>>
    BY <1>7 DEF RunnerStarts
  <2>2. /\ step'.at = "due" /\ step'.want = NothingHeld
        /\ step' = [at |-> step'.at, want |-> step'.want, left |-> step'.left, key |-> step'.key,
                    apps |-> step'.apps, app |-> step'.app]
    BY <2>1, NoStepIsStep
  <2>3. SyncTypes'
    BY <1>T, <2>1, <2>2, NothingHeldIsHeld DEF SyncTypes
  <2>4. ErasedIsBare' /\ NotOlder'
    BY <1>T, <2>1, <2>2 DEF ErasedIsBare, NotOlder, Alive, Taking, HeldKind
  <2>5. HoursCounted' /\ NothingAhead'
    BY <2>1 DEF SyncInv, HoursCounted, NothingAhead
  <2> QED BY <2>1, <2>3, <2>4, <2>5 DEF SyncInv
<1>8. CASE UNCHANGED syncVars
  <2> USE DEF syncVars
  <2>1. SyncTypes'
    BY <1>8 DEF SyncInv, SyncTypes
  <2>2. ErasedIsBare' /\ NotOlder'
    BY <1>8 DEF SyncInv, ErasedIsBare, NotOlder, Alive
  <2>3. HoursCounted' /\ NothingAhead'
    BY <1>8 DEF SyncInv, HoursCounted, NothingAhead
  <2> QED BY <1>8, <2>1, <2>2, <2>3 DEF SyncInv
<1> QED BY <1>1, <1>2, <1>3, <1>4, <1>5, <1>6, <1>7, <1>8

LEMMA SyncStepKeeps ==
    ASSUME SyncInv, [SyncNext]_syncVars
    PROVE  SyncInv' /\ (held'.seq >= held.seq \/ erased') /\ (erased => syncDisk' = syncDisk)
<1>1. held.seq \in Nat
  BY DEF SyncInv, SyncTypes, HeldKind
<1>2. CASE SaveManifest
  <2>1. erased => syncDisk' = syncDisk
    BY <1>2 DEF SaveManifest, SyncFails
  <2> QED BY <1>2, <2>1, SaveKeeps
<1>3. CASE \/ GetConfig \/ GetManifest \/ (\E at \in {"due", "config", "package"} : RequestFailed(at))
           \/ NextPin \/ PrepareEnv \/ SealEnv \/ NextApp \/ AppFails \/ AppSeals \/ AppRenames
  BY <1>1, <1>3, LoopKeeps
<1>4. CASE LoopPass \/ ScriptReturns \/ (\E k \in Keys : StartOffline(k) \/ StartOnline(k))
  BY <1>1, <1>4, ScriptsKeep
<1>5. CASE \/ Revokes \/ HourPasses \/ ClockSetBack \/ FilesChange \/ RunnerDies \/ WriteFails \/ RunnerStarts
           \/ UNCHANGED syncVars
  BY <1>1, <1>5, SurroundingsKeep
<1> QED BY <1>2, <1>3, <1>4, <1>5 DEF SyncNext, SyncSteps

(* The inductive invariant: an erased state is bare, no manifest in use is       *)
(* older than the kept one, and the clocks have counted the hours since the sync. *)
THEOREM SyncInvariant == SyncSpec => []SyncInv
<1>1. SyncInv /\ [SyncNext]_syncVars => SyncInv'
  BY SyncStepKeeps
<1> QED BY SyncInvInit, <1>1, PTL DEF SyncSpec

(* Whatever fails, dies or is changed: the kept manifest never gets older, and   *)
(* nothing is written once a revocation has erased the state.                    *)
THEOREM NothingReturns == SyncSpec => NothingComesBack
<1>1. SyncInv /\ [SyncNext]_syncVars
        => [/\ held'.seq >= held.seq \/ erased'
            /\ erased => syncDisk' = syncDisk]_syncVars
  BY SyncStepKeeps
<1> QED BY SyncInvariant, <1>1, PTL DEF SyncSpec, NothingComesBack

(* For every grace and every setting of the clock: a script starts without        *)
(* network only within the grace that its pin has left.                           *)
THEOREM GraceIsKept == SyncSpec => OfflineWithinGrace
<1>1. ASSUME SyncInv, [SyncNext]_syncVars, running.how = "no", running'.how = "offline"
      PROVE  counted < Grace[running'.key] /\ (setBack \/ aged < Grace[running'.key])
  <2>1. PICK k \in Keys : StartOffline(k)
    <3>1. NoScript.how = "no"
      BY DEF NoScript
    <3>2. SyncNext /\ ~UNCHANGED running
      BY <1>1 DEF syncVars, syncMemory
    <3>3. ASSUME NEW k \in Keys, StartOnline(k) PROVE FALSE
      BY <1>1, <3>3 DEF StartOnline
    <3>4. ASSUME SyncSteps PROVE UNCHANGED running
      BY <3>4 DEF SyncSteps, GetConfig, GetManifest, RequestFailed, NextPin, PrepareEnv, PrepareFrom, SealEnv,
                  SaveManifest, NextApp, AppFails, AppSeals, AppRenames, LoopPass, SyncFails
    <3>5. ASSUME ScriptReturns \/ Revokes \/ RunnerDies PROVE FALSE
      BY <1>1, <3>1, <3>5 DEF ScriptReturns, Revokes, RunnerDies
    <3>6. ASSUME HourPasses \/ ClockSetBack \/ FilesChange \/ WriteFails \/ RunnerStarts PROVE UNCHANGED running
      BY <3>6 DEF HourPasses, ClockSetBack, FilesChange, WriteFails, RunnerStarts, syncMemory
    <3> QED BY <3>2, <3>3, <3>4, <3>5, <3>6 DEF SyncNext
  <2>2. /\ running'.key = k /\ Observed - bundle.last < Grace[k] /\ ~erased /\ Alive
    BY <2>1 DEF StartOffline, OfflineAllowed, ObserveTime, Alive
  <2>3. bundle.last = held.last /\ held.last \in Nat /\ Grace[k] \in Nat
    BY <1>1, <2>2, SyncAssumption DEF SyncInv, SyncTypes, HeldKind, NotOlder
  <2>4. Observed \in Nat /\ Observed >= held.last + counted /\ (~setBack => Observed = wallHour)
    BY <1>1, <2>2, ObservedTime
  <2>5. counted \in Nat /\ aged \in Nat /\ (~setBack => held.last + aged <= wallHour)
    BY <1>1 DEF SyncInv, SyncTypes, NothingAhead
  <2> QED BY <2>2, <2>3, <2>4, <2>5
<1>2. SyncInv /\ [SyncNext]_syncVars
        => [running.how = "no" /\ running'.how = "offline" =>
             /\ counted < Grace[running'.key]
             /\ setBack \/ aged < Grace[running'.key]]_syncVars
  BY <1>1
<1> QED BY SyncInvariant, <1>2, PTL DEF SyncSpec, OfflineWithinGrace

-----------------------------------------------------------------------------
(* Questions: an answer belongs to the question the script has asked.      *)

Phases == {"no", "ask", "select", "leave", "write", "clear"}
SomeQ == [run : Nat \ {0}, id : Nat \ {0}]
SomeEvent == [kind : {"frage", "frage_weg"}, q : SomeQ]
QuestionTypes ==
    /\ runNo \in Nat \ {0} /\ askedId \in Nat /\ phase \in Phases
    /\ dialog = NoQ \/ dialog \in SomeQ
    /\ toRunner \in Seq(SomeQ) /\ events \in Seq(SomeEvent) /\ toPanel \in Seq(SomeEvent)
    /\ Len(toPanel) <= 1

ItsNumber(q) == q = ThisQ \/ (q \in stale /\ q.id = askedId)
(* The goroutine that asks, the relay and the script speak of the same question.   *)
PhaseFits ==
    /\ phase # "no" => ownPending = TRUE /\ askedId > 0
    /\ pendingQ = IF phase \in {"select", "leave"} THEN ThisQ ELSE NoQ
    /\ slot.kind = "wahl" => pendingQ # NoQ /\ ItsNumber(slot.q)
    /\ choice = NoQ \/ (phase \in {"leave", "write"} /\ ItsNumber(choice))

(* While a question is open, what the panel and the pipe hold of other runs was there  *)
(* when it was asked.                                                              *)
Known(q) == phase # "no" => q.run = runNo \/ q \in stale
PanelKnows ==
    /\ dialog # NoQ => Known(dialog)
    /\ \A i \in 1..Len(toRunner) : Known(toRunner[i])
    /\ \A i \in 1..Len(events) : Known(events[i].q)
    /\ \A i \in 1..Len(toPanel) : Known(toPanel[i].q)

(* Behind a question that is no longer pending comes its removal; a question whose  *)
(* connection is gone is neither on the way nor shown.                             *)
WayOut ==
    /\ \A i \in 1..Len(events) : events[i].kind = "frage" =>
         pendingQ = events[i].q \/ \E j \in (i + 1)..Len(events) : events[j] = Removal(events[i].q)
    /\ \A i \in 1..Len(toPanel) : toPanel[i].kind = "frage" =>
         pendingQ = toPanel[i].q \/ \E j \in 1..Len(events) : events[j] = Removal(toPanel[i].q)
    /\ dialog # NoQ =>
         \/ pendingQ = dialog
         \/ \E j \in 1..Len(events) : events[j] = Removal(dialog)
         \/ \E j \in 1..Len(toPanel) : toPanel[j] = Removal(dialog)
    /\ pendingQ # NoQ /\ ~ours =>
         /\ dialog # pendingQ
         /\ \A i \in 1..Len(events) : events[i] # Asking(pendingQ)
         /\ \A i \in 1..Len(toPanel) : toPanel[i] # Asking(pendingQ)

(* Without a connection nothing is under way.                                      *)
NoLink == ~attached => events = <<>> /\ toPanel = <<>> /\ dialog = NoQ /\ ~ours

QuestionsInv ==
    QuestionTypes /\ PhaseFits /\ PanelKnows /\ WayOut /\ NoLink /\ RemovalFits /\ AnswersOwn

(* A script that goes on has its answer, though its question may still count as open. *)
ScriptGoesOn == asker = "runs" => phase \in {"no", "clear"}

(* What the queue operations do to the places of a queue.                          *)
LEMMA Appended ==
    ASSUME NEW S, NEW s \in Seq(S), NEW x \in S
    PROVE  /\ Append(s, x) \in Seq(S) /\ Len(Append(s, x)) = Len(s) + 1 /\ Len(s) \in Nat
           /\ \A i \in 1..Len(s) : Append(s, x)[i] = s[i]
           /\ Append(s, x)[Len(s) + 1] = x
  OBVIOUS
LEMMA HeadTaken ==
    ASSUME NEW S, NEW s \in Seq(S), s # <<>>
    PROVE  /\ Tail(s) \in Seq(S) /\ Len(s) \in Nat \ {0} /\ Len(Tail(s)) = Len(s) - 1
           /\ \A i \in 1..(Len(s) - 1) : Tail(s)[i] = s[i + 1]
           /\ Head(s) = s[1] /\ s[1] \in S
  OBVIOUS
LEMMA OneEvent ==
    ASSUME NEW S, NEW x \in S
    PROVE  <<x>> \in Seq(S) /\ Len(<<x>>) = 1 /\ <<x>>[1] = x
  OBVIOUS
LEMMA NoneQueued ==
    ASSUME NEW S
    PROVE  <<>> \in Seq(S) /\ Len(<<>>) = 0 /\ (\A s \in Seq(S) : Len(s) = 0 => s = <<>>)
  OBVIOUS

LEMMA QuestionShapes ==
    /\ NoQ \notin SomeQ
    /\ \A q \in SomeQ : /\ Asking(q) \in SomeEvent /\ Asking(q).kind = "frage" /\ Asking(q).q = q
                        /\ Removal(q) \in SomeEvent /\ Removal(q).kind = "frage_weg" /\ Removal(q).q = q
                        /\ q.run \in Nat \ {0} /\ q.id \in Nat \ {0}
    /\ \A e \in SomeEvent : e.q \in SomeQ /\ (e.kind = "frage" => e = Asking(e.q))
    /\ \A p, q \in SomeQ : p.run = q.run /\ p.id = q.id => p = q
<1>1. NoQ \notin SomeQ
  BY DEF NoQ, SomeQ
<1>2. \A q \in SomeQ : /\ Asking(q) \in SomeEvent /\ Asking(q).kind = "frage" /\ Asking(q).q = q
                       /\ Removal(q) \in SomeEvent /\ Removal(q).kind = "frage_weg" /\ Removal(q).q = q
  BY DEF Asking, Removal, SomeEvent
<1>3. \A q \in SomeQ : q.run \in Nat \ {0} /\ q.id \in Nat \ {0}
  BY DEF SomeQ
<1>4. \A e \in SomeEvent : e.q \in SomeQ /\ (e.kind = "frage" => e = Asking(e.q))
  BY DEF SomeEvent, Asking
<1>5. \A p, q \in SomeQ : p.run = q.run /\ p.id = q.id => p = q
  BY DEF SomeQ
<1> QED BY <1>1, <1>2, <1>3, <1>4, <1>5

LEMMA ThisIsAsked ==
    ASSUME QuestionsInv, phase # "no"
    PROVE  ThisQ \in SomeQ /\ ThisQ.run = runNo /\ ThisQ.id = askedId
  BY DEF QuestionsInv, QuestionTypes, PhaseFits, ThisQ, SomeQ

LEMMA QuestionsInvInit == QuestionsInit => QuestionsInv
<1> SUFFICES ASSUME QuestionsInit PROVE QuestionsInv
  OBVIOUS
<1>1. /\ runNo = 1 /\ askedId = 0 /\ phase = "no" /\ choice = NoQ /\ pendingQ = NoQ /\ slot = EmptySlot
      /\ events = <<>> /\ toPanel = <<>> /\ toRunner = <<>> /\ dialog = NoQ
      /\ given = [asked |-> NoQ, saw |-> NoQ, stale |-> {}] /\ ours = FALSE
  BY DEF QuestionsInit
<1>2. QuestionTypes
  BY <1>1, NoneQueued DEF QuestionTypes, Phases
<1>3. PhaseFits
  BY <1>1 DEF PhaseFits, EmptySlot
<1>4. PanelKnows /\ WayOut /\ NoLink
  BY <1>1 DEF PanelKnows, WayOut, NoLink
<1>5. RemovalFits /\ AnswersOwn
  BY <1>1 DEF RemovalFits, AnswersOwn
<1> QED BY <1>2, <1>3, <1>4, <1>5 DEF QuestionsInv

(* What a question knows of earlier runs is what there was when it was asked.       *)
KnowsBefore ==
    /\ runNo' = runNo
    /\ (phase # "no" /\ stale' = stale) \/ stale' = {q \in AtPanel : q.run # runNo}

(* Steps that touch neither a queue nor the dialog.                                *)
LEMMA PipeStays ==
    ASSUME QuestionsInv, UNCHANGED <<events, toPanel, toRunner, dialog, ours, pendingQ>>,
           runNo' \in Nat \ {0}, askedId' \in Nat, phase' \in Phases,
           phase' # "no" => KnowsBefore
    PROVE  QuestionTypes' /\ PanelKnows' /\ WayOut'
<1>1. QuestionTypes'
  BY DEF QuestionsInv, QuestionTypes
<1>2. WayOut'
  BY DEF QuestionsInv, WayOut
<1>3. CASE phase' = "no"
  BY <1>1, <1>2, <1>3 DEF PanelKnows, Known
<1>4. CASE phase # "no" /\ phase' # "no" /\ runNo' = runNo /\ stale' = stale
  <2>1. \A q : Known(q) => Known(q)'
    BY <1>4 DEF Known
  <2> QED BY <1>1, <1>2, <2>1 DEF QuestionsInv, PanelKnows
<1>5. CASE runNo' = runNo /\ stale' = {q \in AtPanel : q.run # runNo}
  <2>1. \A q \in AtPanel : Known(q)'
    BY <1>5 DEF Known
  <2>2. dialog # NoQ => dialog \in AtPanel
    BY DEF AtPanel
  <2>3. \A i \in 1..Len(toRunner) : toRunner[i] \in AtPanel
    <3>1. \A i \in 1..Len(toRunner) : toRunner[i] \in SomeQ /\ toRunner[i] \in Queued(toRunner)
      BY DEF QuestionsInv, QuestionTypes, Queued
    <3> QED BY <3>1, QuestionShapes DEF AtPanel
  <2>4. \A i \in 1..Len(events) : events[i].q \in AtPanel
    <3>1. \A i \in 1..Len(events) : events[i] \in SomeEvent /\ events[i] \in Queued(events)
      BY DEF QuestionsInv, QuestionTypes, Queued
    <3>2. \A i \in 1..Len(events) : events[i].q # NoQ
      BY <3>1, QuestionShapes
    <3> QED BY <3>1, <3>2 DEF AtPanel
  <2>5. \A i \in 1..Len(toPanel) : toPanel[i].q \in AtPanel
    <3>1. \A i \in 1..Len(toPanel) : toPanel[i] \in SomeEvent /\ toPanel[i] \in Queued(toPanel)
      BY DEF QuestionsInv, QuestionTypes, Queued
    <3>2. \A i \in 1..Len(toPanel) : toPanel[i].q # NoQ
      BY <3>1, QuestionShapes
    <3> QED BY <3>1, <3>2 DEF AtPanel
  <2> QED BY <1>1, <1>2, <2>1, <2>2, <2>3, <2>4, <2>5 DEF PanelKnows
<1> QED BY <1>3, <1>4, <1>5 DEF KnowsBefore

LEMMA AskerKeeps ==
    ASSUME QuestionsInv, ScriptGoesOn,
           Frage \/ Select \/ WriteAnswer \/ ClearPending \/ Deadline \/ RunEnds \/ NextRun
             \/ UNCHANGED questionVars
    PROVE  QuestionsInv'
<1> USE DEF relayVars, panelVars, askVars
<1>1. /\ UNCHANGED <<events, toPanel, toRunner, dialog, ours, pendingQ, slot>>
      /\ runNo' \in Nat \ {0} /\ askedId' \in Nat /\ phase' \in Phases
      /\ phase' # "no" => KnowsBefore
  BY DEF Frage, Select, WriteAnswer, ClearPending, Deadline, RunEnds, NextRun, questionVars, Phases,
         KnowsBefore, QuestionsInv, QuestionTypes
<1>2. QuestionTypes' /\ PanelKnows' /\ WayOut' /\ NoLink'
  <2>1. attached' = attached
    BY DEF Frage, Select, WriteAnswer, ClearPending, Deadline, RunEnds, NextRun, questionVars
  <2>2. NoLink'
    BY <1>1, <2>1 DEF QuestionsInv, NoLink
  <2> QED BY <1>1, <2>2, PipeStays
<1>3. /\ phase # "no" => ownPending = TRUE /\ askedId > 0
      /\ pendingQ = IF phase \in {"select", "leave"} THEN ThisQ ELSE NoQ
      /\ slot.kind = "wahl" => pendingQ # NoQ /\ ItsNumber(slot.q)
      /\ (choice = NoQ \/ (phase \in {"leave", "write"} /\ ItsNumber(choice))) /\ askedId \in Nat
  BY DEF QuestionsInv, PhaseFits, QuestionTypes
<1>4. CASE Frage
  <2>1. UNCHANGED <<choice, given, runNo>> /\ askedId' = askedId + 1 /\ asker = "runs"
    BY <1>4 DEF Frage
  <2>2. CASE ownPending
    <3>1. phase' = phase /\ ownPending' = ownPending
      BY <1>4, <2>2 DEF Frage
    <3>2. phase \in {"no", "clear"} /\ pendingQ = NoQ /\ choice = NoQ
      BY <1>3, <2>1 DEF ScriptGoesOn
    <3>3. PhaseFits'
      BY <1>1, <1>3, <2>1, <3>1, <3>2 DEF PhaseFits
    <3> QED BY <1>2, <2>1, <3>1, <3>2, <3>3 DEF QuestionsInv, RemovalFits, AnswersOwn
  <2>3. CASE ~ownPending
    <3>1. phase' = "ask" /\ ownPending' = TRUE
      BY <1>4, <2>3 DEF Frage
    <3>2. phase = "no" /\ pendingQ = NoQ /\ choice = NoQ
      BY <1>3, <2>3
    <3>3. PhaseFits'
      BY <1>1, <1>3, <2>1, <3>1, <3>2 DEF PhaseFits
    <3> QED BY <1>2, <2>1, <3>1, <3>3 DEF QuestionsInv, RemovalFits, AnswersOwn
  <2> QED BY <2>2, <2>3
<1>5. CASE Select
  <2>1. /\ phase = "select" /\ phase' = "leave" /\ choice' \in Selected
        /\ UNCHANGED <<askedId, ownPending, given, runNo, stale>>
    BY <1>5 DEF Select
  <2>2. choice' = NoQ \/ ItsNumber(choice')
    BY <1>3, <2>1 DEF Selected
  <2>3. PhaseFits'
    BY <1>1, <1>3, <2>1, <2>2 DEF PhaseFits, ThisQ, ItsNumber
  <2>4. RemovalFits'
    BY <1>1, <2>1 DEF QuestionsInv, RemovalFits
  <2> QED BY <1>2, <2>1, <2>3, <2>4 DEF QuestionsInv, AnswersOwn
<1>6. CASE WriteAnswer
  <2>1. /\ phase = "write" /\ phase' = "clear" /\ choice' = NoQ
        /\ given' = given \/ given' = [asked |-> ThisQ, saw |-> choice, stale |-> stale]
        /\ UNCHANGED <<askedId, ownPending, runNo, stale>>
    BY <1>6 DEF WriteAnswer
  <2>2. PhaseFits'
    BY <1>1, <1>3, <2>1 DEF PhaseFits, ThisQ, ItsNumber
  <2>3. RemovalFits'
    BY <2>1 DEF RemovalFits
  <2>4. AnswersOwn'
    <3>1. CASE given' = given
      BY <3>1 DEF QuestionsInv, AnswersOwn
    <3>2. CASE given' = [asked |-> ThisQ, saw |-> choice, stale |-> stale]
      BY <1>3, <2>1, <3>2 DEF AnswersOwn, ItsNumber, ThisQ
    <3> QED BY <2>1, <3>1, <3>2
  <2> QED BY <1>2, <2>2, <2>3, <2>4 DEF QuestionsInv
<1>7. CASE ClearPending
  <2>1. phase = "clear" /\ phase' = "no" /\ UNCHANGED <<askedId, runNo, choice, given, stale>>
    BY <1>7 DEF ClearPending
  <2>2. PhaseFits'
    BY <1>1, <1>3, <2>1 DEF PhaseFits
  <2> QED BY <1>2, <2>1, <2>2 DEF QuestionsInv, RemovalFits, AnswersOwn
<1>8. CASE NextRun
  <2>1. phase = "no" /\ phase' = "no" /\ UNCHANGED <<choice, given>>
    BY <1>8 DEF NextRun
  <2>2. PhaseFits'
    BY <1>1, <1>3, <2>1 DEF PhaseFits
  <2> QED BY <1>2, <2>1, <2>2 DEF QuestionsInv, RemovalFits, AnswersOwn
<1>9. CASE Deadline \/ RunEnds \/ UNCHANGED questionVars
  <2>1. UNCHANGED <<phase, askedId, runNo, choice, given, ownPending, stale>>
    BY <1>9 DEF Deadline, RunEnds, questionVars
  <2>2. PhaseFits'
    BY <1>1, <1>3, <2>1 DEF PhaseFits, ThisQ, ItsNumber
  <2>3. RemovalFits'
    BY <1>1, <2>1 DEF QuestionsInv, RemovalFits
  <2> QED BY <1>2, <2>1, <2>2, <2>3 DEF QuestionsInv, AnswersOwn
<1> QED BY <1>4, <1>5, <1>6, <1>7, <1>8, <1>9

(* The goroutine asks: the question goes out with room left for its removal.       *)
LEMMA RelayAskKeeps ==
    ASSUME QuestionsInv, RelayAsk
    PROVE  QuestionsInv'
<1> USE DEF panelVars
<1>1. /\ phase = "ask" /\ pendingQ = NoQ /\ choice = NoQ
      /\ UNCHANGED <<runNo, askedId, ownPending, toPanel, toRunner, dialog, given, stale>>
      /\ ownPending = TRUE /\ askedId > 0 /\ askedId \in Nat /\ runNo \in Nat \ {0}
      /\ slot.kind = "wahl" => pendingQ # NoQ
  BY DEF RelayAsk, QuestionsInv, PhaseFits, QuestionTypes
<1>2. CASE attached /\ Fits
  <2>1. /\ events' = Append(events, Asking(ThisQ)) /\ pendingQ' = ThisQ /\ slot' = EmptySlot
        /\ ours' = TRUE /\ phase' = "select" /\ choice' = choice /\ Len(events) <= EventCap - 2
    BY <1>2 DEF RelayAsk, Fits
  <2>2. /\ ThisQ \in SomeQ /\ ThisQ.run = runNo /\ Asking(ThisQ) \in SomeEvent
        /\ Asking(ThisQ).q = ThisQ /\ events \in Seq(SomeEvent)
    BY <1>1, ThisIsAsked, QuestionShapes DEF QuestionsInv, QuestionTypes
  <2> DEFINE x == Asking(ThisQ)
  <2>3. /\ events' \in Seq(SomeEvent) /\ Len(events') = Len(events) + 1 /\ Len(events) \in Nat
        /\ \A i \in 1..Len(events) : events'[i] = events[i]
        /\ events'[Len(events) + 1] = x
    BY <2>1, <2>2, Appended
  <2>4. QuestionTypes'
    BY <1>1, <2>1, <2>3 DEF QuestionsInv, QuestionTypes, Phases
  <2>5. PhaseFits'
    BY <1>1, <2>1 DEF PhaseFits, ThisQ, EmptySlot
  <2>6. PanelKnows'
    <3>1. \A r : Known(r)' <=> Known(r)
      BY <1>1, <2>1 DEF Known
    <3>2. Known(ThisQ)
      BY DEF Known, ThisQ
    <3>3. \A i \in 1..Len(events') : i \in 1..Len(events) \/ i = Len(events) + 1
      BY <2>3
    <3>4. \A i \in 1..Len(events') : Known(events'[i].q)
      BY <2>2, <2>3, <3>2, <3>3 DEF QuestionsInv, PanelKnows
    <3> QED BY <1>1, <3>1, <3>4 DEF QuestionsInv, PanelKnows
  <2>7. WayOut'
    <3>1. ASSUME NEW i \in 1..Len(events'), events'[i].kind = "frage"
          PROVE  pendingQ' = events'[i].q \/ \E j \in (i + 1)..Len(events') : events'[j] = Removal(events'[i].q)
      <4>1. CASE i = Len(events) + 1
        BY <2>1, <2>2, <2>3, <4>1
      <4>2. CASE i # Len(events) + 1
        <5>1. i \in 1..Len(events) /\ events'[i] = events[i] /\ events[i].q \in SomeQ
          BY <2>2, <2>3, <4>2, QuestionShapes
        <5>2. PICK j \in (i + 1)..Len(events) : events[j] = Removal(events[i].q)
          BY <1>1, <3>1, <5>1, QuestionShapes DEF QuestionsInv, WayOut
        <5>3. j \in 1..Len(events) /\ j \in (i + 1)..Len(events')
          BY <2>3, <5>1, <5>2
        <5> QED BY <2>3, <5>1, <5>2, <5>3
      <4> QED BY <4>1, <4>2
    <3>2. \A e : (\E j \in 1..Len(events) : events[j] = e) => (\E j \in 1..Len(events') : events'[j] = e)
      BY <2>3
    <3>3. ASSUME NEW i \in 1..Len(toPanel), toPanel[i].kind = "frage"
          PROVE  \E j \in 1..Len(events') : events'[j] = Removal(toPanel[i].q)
      <4>1. toPanel[i].q \in SomeQ
        BY QuestionShapes DEF QuestionsInv, QuestionTypes
      <4>2. \E j \in 1..Len(events) : events[j] = Removal(toPanel[i].q)
        BY <1>1, <3>3, <4>1, QuestionShapes DEF QuestionsInv, WayOut
      <4> QED BY <3>2, <4>2
    <3>4. dialog # NoQ => \/ \E j \in 1..Len(events') : events'[j] = Removal(dialog)
                          \/ \E j \in 1..Len(toPanel) : toPanel[j] = Removal(dialog)
      BY <1>1, <3>2 DEF QuestionsInv, WayOut
    <3> QED BY <1>1, <2>1, <3>1, <3>3, <3>4 DEF WayOut
  <2>8. RemovalFits'
    BY <2>1, <2>3, QuestionsAssumption DEF RemovalFits
  <2>9. NoLink'
    BY <1>2 DEF RelayAsk, NoLink
  <2> QED BY <1>1, <2>4, <2>5, <2>6, <2>7, <2>8, <2>9 DEF QuestionsInv, AnswersOwn
<1>3. CASE ~(attached /\ Fits)
  <2>1. phase' = "write" /\ choice' = NoQ /\ UNCHANGED <<pendingQ, slot, ours, events>>
    BY <1>3 DEF RelayAsk
  <2>2. QuestionTypes' /\ PanelKnows' /\ WayOut'
    BY <1>1, <2>1, PipeStays DEF Phases, KnowsBefore
  <2>3. PhaseFits'
    BY <1>1, <2>1 DEF PhaseFits
  <2>4. NoLink'
    BY <1>1, <2>1 DEF RelayAsk, QuestionsInv, NoLink
  <2> QED BY <1>1, <2>1, <2>2, <2>3, <2>4 DEF QuestionsInv, RemovalFits, AnswersOwn
<1> QED BY <1>2, <1>3

(* The deferred part of Ask: the removal goes out behind the question.             *)
LEMMA LeaveAskKeeps ==
    ASSUME QuestionsInv, LeaveAsk
    PROVE  QuestionsInv'
<1> USE DEF panelVars
<1>1. /\ phase = "leave" /\ pendingQ = ThisQ /\ pendingQ' = NoQ /\ slot' = EmptySlot
      /\ phase' = "write" /\ ours' = FALSE
      /\ UNCHANGED <<runNo, askedId, ownPending, choice, toPanel, toRunner, dialog, given, stale>>
      /\ ownPending = TRUE /\ askedId > 0 /\ askedId \in Nat /\ runNo \in Nat \ {0}
      /\ choice = NoQ \/ ItsNumber(choice)
      /\ ours => Len(events) < EventCap
  BY DEF LeaveAsk, QuestionsInv, PhaseFits, QuestionTypes, RemovalFits
<1>2. /\ ThisQ \in SomeQ /\ ThisQ.run = runNo /\ Removal(ThisQ) \in SomeEvent
      /\ Removal(ThisQ).q = ThisQ /\ Removal(ThisQ).kind = "frage_weg" /\ NoQ # ThisQ
      /\ events \in Seq(SomeEvent) /\ toPanel \in Seq(SomeEvent)
  BY <1>1, ThisIsAsked, QuestionShapes DEF QuestionsInv, QuestionTypes
<1>3. PhaseFits'
  BY <1>1 DEF PhaseFits, ThisQ, EmptySlot, ItsNumber
<1>4. RemovalFits' /\ AnswersOwn' /\ NoLink'
  <2>1. attached' = attached /\ (~ours => events' = events)
    BY DEF LeaveAsk
  <2> QED BY <1>1, <2>1 DEF QuestionsInv, RemovalFits, AnswersOwn, NoLink
<1>5. \A r : Known(r)' <=> Known(r)
  BY <1>1 DEF Known
<1>6. CASE ours
  <2>1. events' = Append(events, Removal(ThisQ))
    BY <1>1, <1>6 DEF LeaveAsk
  <2>2. /\ events' \in Seq(SomeEvent) /\ Len(events') = Len(events) + 1 /\ Len(events) \in Nat
        /\ \A i \in 1..Len(events) : events'[i] = events[i]
        /\ events'[Len(events) + 1] = Removal(ThisQ)
    BY <1>2, <2>1, Appended
  <2>3. QuestionTypes'
    BY <1>1, <2>2 DEF QuestionsInv, QuestionTypes, Phases
  <2>4. PanelKnows'
    <3>1. Known(ThisQ)
      BY DEF Known, ThisQ
    <3>2. \A i \in 1..Len(events') : i \in 1..Len(events) \/ i = Len(events) + 1
      BY <2>2
    <3>3. \A i \in 1..Len(events') : Known(events'[i].q)
      BY <1>2, <2>2, <3>1, <3>2 DEF QuestionsInv, PanelKnows
    <3> QED BY <1>1, <1>5, <3>3 DEF QuestionsInv, PanelKnows
  <2>5. WayOut'
    <3>1. ASSUME NEW i \in 1..Len(events'), events'[i].kind = "frage"
          PROVE  \E j \in (i + 1)..Len(events') : events'[j] = Removal(events'[i].q)
      <4>1. i # Len(events) + 1
        BY <1>2, <2>2, <3>1
      <4>2. i \in 1..Len(events) /\ events'[i] = events[i]
        BY <2>2, <4>1
      <4>3. CASE events[i].q = ThisQ
        <5>1. Len(events) + 1 \in (i + 1)..Len(events')
          BY <2>2, <4>2
        <5> QED BY <2>2, <4>2, <4>3, <5>1
      <4>4. CASE events[i].q # ThisQ
        <5>1. PICK j \in (i + 1)..Len(events) : events[j] = Removal(events[i].q)
          BY <1>1, <3>1, <4>2, <4>4 DEF QuestionsInv, WayOut
        <5>2. j \in 1..Len(events) /\ j \in (i + 1)..Len(events')
          BY <2>2, <4>2, <5>1
        <5> QED BY <2>2, <4>2, <5>1, <5>2
      <4> QED BY <4>3, <4>4
    <3>2. \A e : (\E j \in 1..Len(events) : events[j] = e) => (\E j \in 1..Len(events') : events'[j] = e)
      BY <2>2
    <3>3. \E j \in 1..Len(events') : events'[j] = Removal(ThisQ)
      BY <2>2
    <3>4. ASSUME NEW i \in 1..Len(toPanel), toPanel[i].kind = "frage"
          PROVE  \E j \in 1..Len(events') : events'[j] = Removal(toPanel[i].q)
      BY <1>1, <3>2, <3>3, <3>4 DEF QuestionsInv, WayOut
    <3>5. dialog # NoQ => \/ \E j \in 1..Len(events') : events'[j] = Removal(dialog)
                          \/ \E j \in 1..Len(toPanel) : toPanel[j] = Removal(dialog)
      BY <1>1, <3>2, <3>3 DEF QuestionsInv, WayOut
    <3> QED BY <1>1, <3>1, <3>4, <3>5 DEF WayOut
  <2> QED BY <1>3, <1>4, <2>3, <2>4, <2>5 DEF QuestionsInv
<1>7. CASE ~ours
  <2>1. events' = events
    BY <1>7 DEF LeaveAsk
  <2>2. QuestionTypes'
    BY <1>1, <2>1 DEF QuestionsInv, QuestionTypes, Phases
  <2>3. PanelKnows'
    BY <1>1, <1>5, <2>1 DEF QuestionsInv, PanelKnows
  <2>4. WayOut'
    <3>1. /\ dialog # ThisQ
          /\ \A i \in 1..Len(events) : events[i] # Asking(ThisQ)
          /\ \A i \in 1..Len(toPanel) : toPanel[i] # Asking(ThisQ)
      BY <1>1, <1>2, <1>7 DEF QuestionsInv, WayOut
    <3>2. /\ \A i \in 1..Len(events) : events[i].kind = "frage" => events[i].q # ThisQ
          /\ \A i \in 1..Len(toPanel) : toPanel[i].kind = "frage" => toPanel[i].q # ThisQ
      BY <1>2, <3>1, QuestionShapes
    <3> QED BY <1>1, <2>1, <3>1, <3>2 DEF QuestionsInv, WayOut
  <2> QED BY <1>3, <1>4, <2>2, <2>3, <2>4 DEF QuestionsInv
<1> QED BY <1>6, <1>7

(* What stands in the queues is typed and known.                                   *)
LEMMA InThePipe ==
    ASSUME QuestionsInv
    PROVE  /\ events \in Seq(SomeEvent) /\ toPanel \in Seq(SomeEvent) /\ toRunner \in Seq(SomeQ)
           /\ Len(toPanel) <= 1 /\ runNo \in Nat \ {0} /\ askedId \in Nat /\ phase \in Phases
           /\ dialog = NoQ \/ (dialog \in SomeQ /\ Known(dialog))
           /\ \A i \in 1..Len(toRunner) : Known(toRunner[i])
           /\ \A i \in 1..Len(events) : Known(events[i].q)
           /\ \A i \in 1..Len(toPanel) : Known(toPanel[i].q)
  BY DEF QuestionsInv, QuestionTypes, PanelKnows

(* Connections of the panel and the end of a run by a halt.                        *)
LEMMA LinksKeep ==
    ASSUME QuestionsInv, Attach \/ Detach \/ HaltEndsRun \/ DialogExpires \/ UserAnswers
    PROVE  QuestionsInv'
<1> USE DEF askVars, panelVars, relayVars
<1>1. /\ UNCHANGED <<runNo, askedId, stale, phase, ownPending, choice, given, pendingQ>>
      /\ slot' = slot \/ slot'.kind = "nil"
  BY DEF Attach, Detach, HaltEndsRun, DialogExpires, UserAnswers, EmptySlot
<1>2. \A r : Known(r)' <=> Known(r)
  BY <1>1 DEF Known
<1>3. PhaseFits' /\ AnswersOwn'
  BY <1>1 DEF QuestionsInv, PhaseFits, ThisQ, ItsNumber, AnswersOwn
<1>4. <<>> \in Seq(SomeEvent) /\ <<>> \in Seq(SomeQ) /\ Len(<<>>) = 0
  BY NoneQueued
<1>5. CASE Attach
  <2>1. /\ events = <<>> /\ events' = <<>> /\ toPanel = <<>> /\ dialog = NoQ /\ ~ours /\ attached' = TRUE
        /\ UNCHANGED <<toPanel, toRunner, dialog, ours>>
    BY <1>5 DEF Attach, QuestionsInv, NoLink
  <2>2. QuestionTypes' /\ PanelKnows'
    BY <1>1, <1>2, <2>1 DEF QuestionsInv, QuestionTypes, PanelKnows
  <2>3. WayOut' /\ NoLink'
    BY <1>1, <2>1 DEF QuestionsInv, WayOut, NoLink
  <2>4. RemovalFits'
    BY <2>1 DEF RemovalFits
  <2> QED BY <1>3, <2>2, <2>3, <2>4 DEF QuestionsInv
<1>6. CASE Detach
  <2>1. ours' = FALSE /\ events' = <<>> /\ toPanel' = <<>> /\ toRunner' = <<>> /\ dialog' = NoQ
    BY <1>6 DEF Detach
  <2>2. QuestionTypes' /\ PanelKnows'
    BY <1>1, <1>4, <2>1 DEF QuestionsInv, QuestionTypes, PanelKnows
  <2>3. WayOut' /\ NoLink' /\ RemovalFits'
    BY <2>1 DEF WayOut, NoLink, RemovalFits
  <2> QED BY <1>3, <2>2, <2>3 DEF QuestionsInv
<1>7. CASE HaltEndsRun \/ DialogExpires
  <2>1. dialog' = NoQ /\ UNCHANGED <<events, toPanel, toRunner, ours, attached>>
    BY <1>7 DEF HaltEndsRun, DialogExpires
  <2>2. QuestionTypes' /\ PanelKnows'
    BY <1>1, <1>2, <2>1 DEF QuestionsInv, QuestionTypes, PanelKnows
  <2>3. WayOut' /\ NoLink' /\ RemovalFits'
    BY <1>1, <2>1 DEF QuestionsInv, WayOut, NoLink, RemovalFits
  <2> QED BY <1>3, <2>2, <2>3 DEF QuestionsInv
<1>8. CASE UserAnswers
  <2>1. /\ dialog # NoQ /\ dialog' = NoQ /\ toRunner' = Append(toRunner, dialog)
        /\ UNCHANGED <<events, toPanel, ours, attached>>
    BY <1>8 DEF UserAnswers
  <2>2. /\ toRunner' \in Seq(SomeQ) /\ Len(toRunner') = Len(toRunner) + 1 /\ Len(toRunner) \in Nat
        /\ \A i \in 1..Len(toRunner) : toRunner'[i] = toRunner[i]
        /\ toRunner'[Len(toRunner) + 1] = dialog
    BY <2>1, InThePipe, Appended
  <2>3. QuestionTypes'
    BY <1>1, <2>1, <2>2 DEF QuestionsInv, QuestionTypes
  <2>4. \A i \in 1..Len(toRunner') : i \in 1..Len(toRunner) \/ i = Len(toRunner) + 1
    BY <2>2
  <2>5. PanelKnows'
    BY <1>2, <2>1, <2>2, <2>4 DEF QuestionsInv, PanelKnows
  <2>6. WayOut' /\ NoLink' /\ RemovalFits'
    BY <1>1, <2>1 DEF QuestionsInv, WayOut, NoLink, RemovalFits
  <2> QED BY <1>3, <2>3, <2>5, <2>6 DEF QuestionsInv
<1> QED BY <1>5, <1>6, <1>7, <1>8

(* The relay hands the next event to the pipe.                                     *)
LEMMA PumpKeeps ==
    ASSUME QuestionsInv, Pump
    PROVE  QuestionsInv'
<1> USE DEF askVars
<1>1. /\ UNCHANGED <<runNo, askedId, stale, phase, ownPending, choice, given, pendingQ, slot, toRunner, dialog, ours,
                     attached>>
      /\ events # <<>> /\ toPanel = <<>> /\ toPanel' = <<Head(events)>> /\ events' = Tail(events)
  BY DEF Pump
<1>2. /\ events' \in Seq(SomeEvent) /\ Len(events) \in Nat \ {0} /\ Len(events') = Len(events) - 1
      /\ \A i \in 1..(Len(events) - 1) : events'[i] = events[i + 1]
      /\ toPanel' \in Seq(SomeEvent) /\ Len(toPanel') = 1 /\ toPanel'[1] = events[1]
  <2>1. events \in Seq(SomeEvent)
    BY InThePipe
  <2>2. /\ Tail(events) \in Seq(SomeEvent) /\ Len(events) \in Nat \ {0} /\ Len(Tail(events)) = Len(events) - 1
        /\ \A i \in 1..(Len(events) - 1) : Tail(events)[i] = events[i + 1]
        /\ Head(events) = events[1] /\ events[1] \in SomeEvent
    BY <1>1, <2>1, HeadTaken
  <2> QED BY <1>1, <2>2, OneEvent
<1>3. QuestionTypes'
  BY <1>1, <1>2 DEF QuestionsInv, QuestionTypes
<1>4. PhaseFits' /\ AnswersOwn'
  BY <1>1 DEF QuestionsInv, PhaseFits, ThisQ, ItsNumber, AnswersOwn
<1>5. /\ \A i \in 1..Len(events') : i \in 1..(Len(events) - 1) /\ i + 1 \in 1..Len(events)
      /\ 1 \in 1..Len(events) /\ \A i \in 1..Len(toPanel') : i = 1
  BY <1>2
<1>6. PanelKnows'
  <2>1. \A r : Known(r)' <=> Known(r)
    BY <1>1 DEF Known
  <2>2. \A i \in 1..Len(events') : Known(events'[i].q)
    BY <1>2, <1>5 DEF QuestionsInv, PanelKnows
  <2>3. \A i \in 1..Len(toPanel') : Known(toPanel'[i].q)
    BY <1>2, <1>5 DEF QuestionsInv, PanelKnows
  <2> QED BY <1>1, <2>1, <2>2, <2>3 DEF QuestionsInv, PanelKnows
<1>7. WayOut'
  <2>1. ASSUME NEW i \in 1..Len(events), NEW j \in (i + 1)..Len(events)
        PROVE  j - 1 \in 1..Len(events') /\ events'[j - 1] = events[j] /\ j - 1 \in i..Len(events')
    BY <1>2
  <2>2. ASSUME NEW i \in 1..Len(events'), events'[i].kind = "frage"
        PROVE  pendingQ = events'[i].q \/ \E j \in (i + 1)..Len(events') : events'[j] = Removal(events'[i].q)
    <3>1. i + 1 \in 1..Len(events) /\ events'[i] = events[i + 1]
      BY <1>2, <1>5
    <3>2. pendingQ = events'[i].q
            \/ \E j \in ((i + 1) + 1)..Len(events) : events[j] = Removal(events'[i].q)
      BY <2>2, <3>1 DEF QuestionsInv, WayOut
    <3> QED BY <2>1, <3>1, <3>2
  <2>3. ASSUME events[1].kind = "frage"
        PROVE  pendingQ = events[1].q \/ \E j \in 1..Len(events') : events'[j] = Removal(events[1].q)
    <3>1. pendingQ = events[1].q \/ \E j \in (1 + 1)..Len(events) : events[j] = Removal(events[1].q)
      BY <1>5, <2>3 DEF QuestionsInv, WayOut
    <3> QED BY <1>5, <2>1, <3>1
  <2>4. \A e : (\E j \in 1..Len(events) : events[j] = e)
                 => \/ \E j \in 1..Len(events') : events'[j] = e
                    \/ \E j \in 1..Len(toPanel') : toPanel'[j] = e
    <3>1. ASSUME NEW j \in 1..Len(events), j # 1
          PROVE  j - 1 \in 1..Len(events') /\ events'[j - 1] = events[j]
      BY <1>2, <3>1
    <3> QED BY <1>2, <3>1
  <2>5. dialog # NoQ => \/ pendingQ = dialog
                        \/ \E j \in 1..Len(events') : events'[j] = Removal(dialog)
                        \/ \E j \in 1..Len(toPanel') : toPanel'[j] = Removal(dialog)
    <3>1. Len(toPanel) = 0
      BY <1>1
    <3> QED BY <2>4, <3>1 DEF QuestionsInv, WayOut
  <2>6. pendingQ # NoQ /\ ~ours =>
         /\ dialog # pendingQ
         /\ \A i \in 1..Len(events') : events'[i] # Asking(pendingQ)
         /\ \A i \in 1..Len(toPanel') : toPanel'[i] # Asking(pendingQ)
    BY <1>2, <1>5 DEF QuestionsInv, WayOut
  <2> QED BY <1>1, <1>2, <1>5, <2>2, <2>3, <2>5, <2>6 DEF WayOut
<1>8. NoLink' /\ RemovalFits'
  <2>1. attached
    BY <1>1 DEF QuestionsInv, NoLink
  <2>2. RemovalFits'
    BY <1>1, <1>2, QuestionsAssumption DEF QuestionsInv, RemovalFits
  <2> QED BY <1>1, <2>1, <2>2 DEF NoLink
<1> QED BY <1>3, <1>4, <1>6, <1>7, <1>8 DEF QuestionsInv

(* The answer is matched by its id alone; what is on the way is of this run.       *)
LEMMA AnswerKeeps ==
    ASSUME QuestionsInv, AnswerArrives
    PROVE  QuestionsInv'
<1> USE DEF askVars
<1> DEFINE h == toRunner[1]
<1>1. /\ UNCHANGED <<runNo, askedId, stale, phase, ownPending, choice, given, pendingQ, events, toPanel, dialog, ours,
                     attached>>
      /\ toRunner # <<>> /\ toRunner' = Tail(toRunner)
  BY DEF AnswerArrives
<1>2. /\ toRunner' \in Seq(SomeQ) /\ Len(toRunner) \in Nat \ {0} /\ Len(toRunner') = Len(toRunner) - 1
      /\ \A i \in 1..(Len(toRunner) - 1) : toRunner'[i] = toRunner[i + 1]
      /\ Head(toRunner) = h /\ h \in SomeQ /\ Known(h)
  <2>1. toRunner \in Seq(SomeQ) /\ \A i \in 1..Len(toRunner) : Known(toRunner[i])
    BY InThePipe
  <2>2. /\ Tail(toRunner) \in Seq(SomeQ) /\ Len(toRunner) \in Nat \ {0} /\ Len(Tail(toRunner)) = Len(toRunner) - 1
        /\ \A i \in 1..(Len(toRunner) - 1) : Tail(toRunner)[i] = toRunner[i + 1]
        /\ Head(toRunner) = toRunner[1] /\ toRunner[1] \in SomeQ
    BY <1>1, <2>1, HeadTaken
  <2>3. 1 \in 1..Len(toRunner)
    BY <2>2
  <2> QED BY <1>1, <2>1, <2>2, <2>3
<1>3. QuestionTypes'
  BY <1>1, <1>2 DEF QuestionsInv, QuestionTypes
<1>4. PanelKnows'
  <2>1. \A r : Known(r)' <=> Known(r)
    BY <1>1 DEF Known
  <2>2. \A i \in 1..Len(toRunner') : i \in 1..(Len(toRunner) - 1) /\ i + 1 \in 1..Len(toRunner)
    BY <1>2
  <2>3. \A i \in 1..Len(toRunner') : Known(toRunner'[i])
    BY <1>2, <2>2 DEF QuestionsInv, PanelKnows
  <2> QED BY <1>1, <2>1, <2>3 DEF QuestionsInv, PanelKnows
<1>5. WayOut' /\ NoLink' /\ RemovalFits' /\ AnswersOwn'
  BY <1>1 DEF QuestionsInv, WayOut, NoLink, RemovalFits, AnswersOwn
<1>6. slot'.kind = "wahl" => pendingQ # NoQ /\ ItsNumber(slot'.q)
  <2>1. CASE Accepts(Head(toRunner))
    <3>1. slot' = [kind |-> "wahl", q |-> h] /\ pendingQ # NoQ /\ pendingQ.id = h.id
      BY <1>2, <2>1 DEF AnswerArrives, Accepts
    <3>2. phase \in {"select", "leave"} /\ pendingQ = ThisQ
      BY <3>1 DEF QuestionsInv, PhaseFits
    <3>3. ThisQ \in SomeQ /\ ThisQ.run = runNo /\ ThisQ.id = askedId
      BY <3>2, ThisIsAsked
    <3>4. h.id = askedId
      BY <3>1, <3>2, <3>3
    <3>5. h.run = runNo \/ h \in stale
      BY <1>2, <3>2 DEF Known
    <3>6. h.run = runNo => h = ThisQ
      BY <1>2, <3>3, <3>4, QuestionShapes
    <3> QED BY <3>1, <3>4, <3>5, <3>6 DEF ItsNumber
  <2>2. CASE ~Accepts(Head(toRunner))
    BY <2>2 DEF AnswerArrives, QuestionsInv, PhaseFits
  <2> QED BY <2>1, <2>2
<1>7. PhaseFits'
  BY <1>1, <1>6 DEF QuestionsInv, PhaseFits, ThisQ, ItsNumber
<1> QED BY <1>3, <1>4, <1>5, <1>7 DEF QuestionsInv

(* The panel shows a question or takes a dialog away.                              *)
LEMMA ReceiveKeeps ==
    ASSUME QuestionsInv, Receive
    PROVE  QuestionsInv'
<1> USE DEF askVars, relayVars
<1> DEFINE e == toPanel[1]
<1>1. /\ UNCHANGED <<runNo, askedId, stale, phase, ownPending, choice, given, pendingQ, slot, events, toRunner, ours,
                     attached>>
      /\ toPanel # <<>> /\ toPanel' = <<>>
  BY DEF Receive
<1>2. /\ e \in SomeEvent /\ Head(toPanel) = e /\ Known(e.q) /\ Len(toPanel) = 1
      /\ <<>> \in Seq(SomeEvent) /\ Len(<<>>) = 0 /\ 1 \in 1..Len(toPanel)
  <2>1. toPanel \in Seq(SomeEvent) /\ Len(toPanel) <= 1 /\ \A i \in 1..Len(toPanel) : Known(toPanel[i].q)
    BY InThePipe
  <2>2. Len(toPanel) \in Nat \ {0} /\ Head(toPanel) = toPanel[1] /\ toPanel[1] \in SomeEvent
    <3>1. ASSUME NEW s \in Seq(SomeEvent), s # <<>>
          PROVE  Len(s) \in Nat \ {0} /\ Head(s) = s[1] /\ s[1] \in SomeEvent
      BY <3>1, HeadTaken
    <3> QED BY <1>1, <2>1, <3>1
  <2>3. Len(toPanel) = 1
    <3>1. \A n \in Nat \ {0} : n <= 1 => n = 1
      OBVIOUS
    <3>2. Len(toPanel) \in Nat \ {0} /\ Len(toPanel) <= 1
      BY <2>1, <2>2
    <3> QED BY <3>1, <3>2, Zenon
  <2>4. 1 \in 1..Len(toPanel)
    BY <2>3
  <2> QED BY <2>1, <2>2, <2>3, <2>4, NoneQueued
<1>3. e.q \in SomeQ /\ (dialog = NoQ \/ dialog \in SomeQ)
  BY <1>2, QuestionShapes, InThePipe
<1>4. \/ dialog' = NoQ
      \/ dialog' = e.q /\ e.kind = "frage"
      \/ dialog' = dialog /\ dialog \in SomeQ /\ e # Removal(dialog)
  <2>1. CASE e.kind = "frage"
    <3>1. dialog' \in IF dialog = NoQ THEN {NoQ, e.q} ELSE {dialog}
      BY <1>2, <2>1 DEF Receive
    <3>2. dialog \in SomeQ => e # Removal(dialog)
      BY <2>1, QuestionShapes
    <3> QED BY <1>3, <2>1, <3>1, <3>2
  <2>2. CASE e.kind # "frage"
    <3>1. dialog' = IF dialog.id = e.q.id THEN NoQ ELSE dialog
      BY <1>2, <2>2 DEF Receive
    <3>2. dialog \in SomeQ /\ e = Removal(dialog) => e.q = dialog
      BY QuestionShapes
    <3> QED BY <1>3, <3>1, <3>2
  <2> QED BY <2>1, <2>2
<1>5. QuestionTypes'
  BY <1>1, <1>2, <1>3, <1>4 DEF QuestionsInv, QuestionTypes
<1>6. PanelKnows'
  <2>1. \A r : Known(r)' <=> Known(r)
    BY <1>1 DEF Known
  <2>2. NoQ # e.q
    BY <1>3, QuestionShapes
  <2> QED BY <1>1, <1>2, <1>4, <2>1 DEF QuestionsInv, PanelKnows
<1>7. WayOut'
  <2>1. \A i \in 1..Len(toPanel) : i = 1
    BY <1>2
  <2>2. /\ e.kind = "frage" => pendingQ = e.q \/ \E j \in 1..Len(events) : events[j] = Removal(e.q)
        /\ pendingQ # NoQ /\ ~ours => e # Asking(pendingQ) /\ dialog # pendingQ
    BY <1>2 DEF QuestionsInv, WayOut
  <2>3. dialog' # NoQ => \/ pendingQ = dialog'
                         \/ \E j \in 1..Len(events) : events[j] = Removal(dialog')
    BY <1>4, <2>1, <2>2 DEF QuestionsInv, WayOut
  <2>4. pendingQ # NoQ /\ ~ours => dialog' # pendingQ
    BY <1>2, <1>4, <2>2, QuestionShapes
  <2> QED BY <1>1, <1>2, <2>3, <2>4 DEF QuestionsInv, WayOut
<1>8. PhaseFits' /\ AnswersOwn' /\ RemovalFits' /\ NoLink'
  <2>1. PhaseFits' /\ AnswersOwn' /\ RemovalFits'
    BY <1>1 DEF QuestionsInv, PhaseFits, ThisQ, ItsNumber, AnswersOwn, RemovalFits
  <2>2. attached
    BY <1>1 DEF QuestionsInv, NoLink
  <2> QED BY <1>1, <2>1, <2>2 DEF NoLink
<1> QED BY <1>5, <1>6, <1>7, <1>8 DEF QuestionsInv

LEMMA ScriptGoesOnKept ==
    ASSUME ScriptGoesOn, [QuestionsNext]_questionVars
    PROVE  ScriptGoesOn'
<1>1. CASE Frage \/ Select \/ WriteAnswer \/ ClearPending \/ Deadline \/ RunEnds \/ NextRun
           \/ UNCHANGED questionVars
  BY <1>1 DEF Frage, Select, WriteAnswer, ClearPending, Deadline, RunEnds, NextRun, questionVars,
     askVars, ScriptGoesOn
<1>2. CASE RelayAsk \/ LeaveAsk
  BY <1>2 DEF RelayAsk, LeaveAsk, ScriptGoesOn
<1>3. CASE Attach \/ Detach \/ HaltEndsRun \/ DialogExpires \/ UserAnswers \/ Pump
           \/ AnswerArrives \/ Receive
  BY <1>3 DEF Attach, Detach, HaltEndsRun, DialogExpires, UserAnswers, Pump, AnswerArrives, Receive,
     askVars, ScriptGoesOn
<1> QED BY <1>1, <1>2, <1>3 DEF QuestionsNext, AskSteps

(* The inductive invariant of the questions: the run, the goroutine that asks, the  *)
(* relay and the panel agree on which question is open, and behind every question   *)
(* that is not, its removal is on the way.  A script may ask as fast as it likes.   *)
THEOREM QuestionsInvariant == QuestionsSpec => [](QuestionsInv /\ ScriptGoesOn)
<1>0. QuestionsInit => ScriptGoesOn
  BY DEF QuestionsInit, ScriptGoesOn
<1>1. ASSUME QuestionsInv, ScriptGoesOn, [QuestionsNext]_questionVars PROVE QuestionsInv'
  <2>1. CASE Frage \/ Select \/ WriteAnswer \/ ClearPending \/ Deadline \/ RunEnds \/ NextRun
               \/ UNCHANGED questionVars
    BY <1>1, <2>1, AskerKeeps
  <2>2. CASE RelayAsk
    BY <1>1, <2>2, RelayAskKeeps
  <2>3. CASE LeaveAsk
    BY <1>1, <2>3, LeaveAskKeeps
  <2>4. CASE Attach \/ Detach \/ HaltEndsRun \/ DialogExpires \/ UserAnswers
    BY <1>1, <2>4, LinksKeep
  <2>5. CASE Pump
    BY <1>1, <2>5, PumpKeeps
  <2>6. CASE AnswerArrives
    BY <1>1, <2>6, AnswerKeeps
  <2>7. CASE Receive
    BY <1>1, <2>7, ReceiveKeeps
  <2> QED BY <1>1, <2>1, <2>2, <2>3, <2>4, <2>5, <2>6, <2>7 DEF QuestionsNext, AskSteps
<1> QED BY QuestionsInvInit, <1>0, <1>1, ScriptGoesOnKept, PTL DEF QuestionsSpec

(* For any number of runs, questions and connections and any capacity of the queue: *)
(* a script gets only what the user answered to the question it asked, or to one of  *)
(* its number that an earlier run had left with the panel when it asked; the removal *)
(* of a question always finds room, and a dialog goes away with its question.       *)
THEOREM QuestionsAreSound == QuestionsSpec => []QuestionSound
<1>1. QuestionsInv => QuestionSound
  <2> SUFFICES ASSUME QuestionsInv PROVE DialogGoes
    BY DEF QuestionsInv, QuestionSound
  <2>1. events \in Seq(SomeEvent) /\ toPanel \in Seq(SomeEvent)
    BY InThePipe
  <2> QED BY <2>1 DEF QuestionsInv, WayOut, DialogGoes, Queued
<1> QED BY QuestionsInvariant, <1>1, PTL

=============================================================================
