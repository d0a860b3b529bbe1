------------------------------- MODULE Kartei -------------------------------
(* A run of kartei-rpa over a work list. The list lives in the core (external), *)
(* which knows search, get and an update that overwrites every field of a        *)
(* record; the status of a record is the only lock. The clicks book in a          *)
(* specialist program (external), which shows a number. People work on the same    *)
(* list and in the same program.                                                  *)
EXTENDS Naturals, FiniteSets

CONSTANTS SatzIds,      \* records of the list
          Roboter,      \* machines, or consoles, where a run may be started
          Amounts,      \* what the clicks type
          Hoechstens,   \* the parameter of Invoke-Lauf.ps1, 0 for none
          MaxLaeufe,    \* bound on runs
          MaxHands      \* bound on changes by people

ASSUME KarteiAssumption == SatzIds # {} /\ Amounts # {}

VARIABLES
    satz,      \* the records: status, amount, run and number
    gebucht,   \* the specialist program: how often and with which amount
    lauf,      \* the locals of the run of each robot
    laeufe,    \* runs so far
    raced,     \* history: records written on although their status had changed
    hands

karteiVars == <<satz, gebucht, lauf, laeufe, raced, hands>>

Frei == "geprueft"
Gesperrt == "in_buchung"
Verbucht == "verbucht"
NoLauf == [at |-> "over", kennung |-> 0, list |-> {}, id |-> CHOOSE i \in SatzIds : TRUE,
           read |-> [status |-> Frei, amount |-> CHOOSE a \in Amounts : TRUE,
                     lauf |-> 0, nr |-> FALSE],
           nr |-> FALSE, count |-> 0]

KarteiInit ==
    /\ satz \in [SatzIds -> [status : {Frei}, amount : Amounts, lauf : {0}, nr : {FALSE}]]
    /\ gebucht = [i \in SatzIds |-> [times |-> 0, amount |-> CHOOSE a \in Amounts : TRUE]]
    /\ lauf = [r \in Roboter |-> NoLauf] /\ laeufe = 0 /\ raced = {} /\ hands = 0

LaufGoes(r, l) == lauf' = [lauf EXCEPT ![r] = l]
ListUntouched == UNCHANGED <<satz, gebucht, laeufe, raced, hands>>
(* Anything that throws ends the run; so does a process that dies. *)
LaufEnds(r) ==
    /\ lauf[r].at # "over" /\ LaufGoes(r, NoLauf) /\ ListUntouched
(* Nothing keeps a second run from starting: the queue of a machine knows only its *)
(* own. New-JnptLauf is the minute and the machine, so two runs may have one name.  *)
Connects(r) ==
    /\ lauf[r].at = "over" /\ laeufe < MaxLaeufe /\ laeufe' = laeufe + 1
    /\ \E k \in 1 .. laeufe + 1 : LaufGoes(r, [NoLauf EXCEPT !.at = "list", !.kennung = k])
    /\ UNCHANGED <<satz, gebucht, raced, hands>>

WithStatus(s) == {i \in SatzIds : satz[i].status = s}
(* Get-JnptArbeitsliste: a record that hangs ends the run; an empty list does so  *)
(* without an error. A search may return only a part.                            *)
Arbeitsliste(r) ==
    /\ lauf[r].at = "list"
    /\ \/ WithStatus(Gesperrt) # {} /\ LaufGoes(r, NoLauf)
       \/ WithStatus(Gesperrt) = {} /\ WithStatus(Frei) = {} /\ LaufGoes(r, NoLauf)
       \/ /\ WithStatus(Gesperrt) = {}
          /\ \E found \in (SUBSET WithStatus(Frei)) \ {{}} :
               LaufGoes(r, [lauf[r] EXCEPT !.at = "next", !.list = found])
    /\ ListUntouched
NextSatz(r) ==
    /\ lauf[r].at = "next"
    /\ \/ lauf[r].list = {} /\ LaufGoes(r, [lauf[r] EXCEPT !.at = "list"])
       \/ \E i \in lauf[r].list :
            LaufGoes(r, [lauf[r] EXCEPT !.at = "lock", !.id = i, !.list = @ \ {i}])
    /\ ListUntouched

(* Deviation: the record is locked whatever its status is by now. *)
LockGetUnchecked(r) ==
    /\ lauf[r].at = "lock"
    /\ LaufGoes(r, [lauf[r] EXCEPT !.at = "locking", !.read = satz[lauf[r].id]])
    /\ ListUntouched
(* Lock-JnptSatz: get and the comparison, then the update. *)
LockGet(r) ==
    /\ lauf[r].at = "lock"
    /\ IF satz[lauf[r].id].status # Frei THEN LaufGoes(r, NoLauf)
       ELSE LaufGoes(r, [lauf[r] EXCEPT !.at = "locking", !.read = satz[lauf[r].id]])
    /\ ListUntouched
(* The update of the whole record as it was read, whatever it is by now; it may be  *)
(* lost, or only its answer. Without an answer the run ends, nothing is sent again.  *)
Update(r, new, next) ==
    LET i == lauf[r].id IN
    /\ UNCHANGED <<gebucht, laeufe, hands>>
    /\ \/ /\ satz' = [satz EXCEPT ![i] = new]
          /\ raced' = IF satz[i].status = lauf[r].read.status THEN raced ELSE raced \cup {i}
          /\ LaufGoes(r, next) \/ LaufGoes(r, NoLauf)
       \/ UNCHANGED <<satz, raced>> /\ LaufGoes(r, NoLauf)
LockPut(r) ==
    /\ lauf[r].at = "locking"
    /\ Update(r, [lauf[r].read EXCEPT !.status = Gesperrt, !.lauf = lauf[r].kennung],
              [lauf[r] EXCEPT !.at = "clicks"])

(* The clicks type what was read; they fail before or after the booking, or book    *)
(* and show no number.                                                            *)
Klickfolge(r) ==
    LET booked == [gebucht EXCEPT ![lauf[r].id] = [times |-> @.times + 1,
                                                   amount |-> lauf[r].read.amount]]
        goesOn(at, nr) == LaufGoes(r, [lauf[r] EXCEPT !.at = at, !.nr = nr])
    IN  /\ lauf[r].at = "clicks" /\ UNCHANGED <<satz, laeufe, raced, hands>>
        /\ \/ gebucht' = booked /\ (goesOn("result", TRUE) \/ goesOn("result", FALSE))
           \/ gebucht' \in {booked, gebucht} /\ goesOn("error", FALSE)

(* Assert-JnptEigenerLauf *)
EigenerLauf(r) == LET s == satz[lauf[r].id] IN s.status = Gesperrt /\ s.lauf = lauf[r].kennung
(* Set-JnptSatzErgebnis and Set-JnptSatzFehler: get, the comparisons, the update.    *)
ErgebnisGet(r) ==
    /\ lauf[r].at = "result"
    /\ IF lauf[r].nr /\ EigenerLauf(r) /\ ~satz[lauf[r].id].nr
       THEN LaufGoes(r, [lauf[r] EXCEPT !.at = "writing", !.read = satz[lauf[r].id]])
       ELSE LaufGoes(r, NoLauf)
    /\ ListUntouched
FehlerGet(r) ==
    /\ lauf[r].at = "error"
    /\ IF EigenerLauf(r)
       THEN LaufGoes(r, [lauf[r] EXCEPT !.at = "failing", !.read = satz[lauf[r].id]])
       ELSE LaufGoes(r, NoLauf)
    /\ ListUntouched
Weiter(l) == IF Hoechstens > 0 /\ l.count + 1 >= Hoechstens THEN NoLauf
              ELSE [l EXCEPT !.at = "next", !.count = @ + 1, !.nr = FALSE]
ErgebnisPut(r) ==
    /\ lauf[r].at = "writing"
    /\ Update(r, [lauf[r].read EXCEPT !.status = Verbucht, !.nr = TRUE], Weiter(lauf[r]))
FehlerPut(r) ==
    /\ lauf[r].at = "failing"
    /\ Update(r, [lauf[r].read EXCEPT !.status = "fehler"], Weiter(lauf[r]))

(* People (external): they correct a record that is free, book one by hand, and look *)
(* at one that failed or hangs once no run holds it; what they find in the program    *)
(* decides.                                                                       *)
Hand == hands < MaxHands /\ hands' = hands + 1 /\ UNCHANGED <<lauf, laeufe, raced>>
Holds(r, i) == /\ lauf[r].at \in {"clicks", "result", "error", "writing", "failing"}
               /\ lauf[r].id = i
Corrects(i, a) ==
    /\ Hand /\ satz[i].status = Frei /\ a # satz[i].amount
    /\ satz' = [satz EXCEPT ![i].amount = a] /\ UNCHANGED gebucht
BooksByHand(i) ==
    /\ Hand /\ satz[i].status = Frei
    /\ gebucht' = [gebucht EXCEPT ![i] = [times |-> @.times + 1, amount |-> satz[i].amount]]
    /\ satz' = [satz EXCEPT ![i].status = Verbucht, ![i].nr = TRUE]
LooksInto(i) ==
    /\ Hand /\ satz[i].status \in {Gesperrt, "fehler"} /\ \A r \in Roboter : ~Holds(r, i)
    /\ satz' = [satz EXCEPT ![i].status = IF gebucht[i].times > 0 THEN Verbucht ELSE Frei,
                            ![i].nr = gebucht[i].times > 0]
    /\ UNCHANGED gebucht

LaufNext(r) ==
    \/ LaufEnds(r) \/ Connects(r) \/ Arbeitsliste(r) \/ NextSatz(r) \/ LockGet(r) \/ LockPut(r)
    \/ Klickfolge(r) \/ ErgebnisGet(r) \/ ErgebnisPut(r) \/ FehlerGet(r) \/ FehlerPut(r)
KarteiNext ==
    \/ \E r \in Roboter : LaufNext(r)
    \/ \E i \in SatzIds : BooksByHand(i) \/ LooksInto(i) \/ (\E a \in Amounts : Corrects(i, a))
KarteiSpec == KarteiInit /\ [][KarteiNext]_karteiVars

(* The status is the only lock, and reading it and writing it are two calls. Unless  *)
(* a write fell on a record whose status somebody else had changed since, nothing is   *)
(* booked twice, wherever a run dies, an answer is lost, a second robot starts or     *)
(* people work meanwhile; and a record that says verbucht was booked, with the       *)
(* amount that it shows.                                                           *)
BookedOnce ==
    \A i \in SatzIds \ raced :
        /\ gebucht[i].times <= 1
        /\ satz[i].status = Verbucht =>
             gebucht[i].times = 1 /\ gebucht[i].amount = satz[i].amount /\ satz[i].nr
=============================================================================
