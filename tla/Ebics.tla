------------------------------- MODULE Ebics -------------------------------
(* The EBICS client of the box: fetch.php, which a timer starts three times a  *)
(* day and an operator by hand with a window of days, and the tools of an       *)
(* operator, init.php and hpb.php. The bank (external) keeps each statement as   *)
(* new until a positive receipt; the receipt is sent by a closure that runs      *)
(* after the files are in place. Files are never replaced, only numbered.        *)
EXTENDS Naturals, Sequences, FiniteSets

CONSTANTS Statements,    \* statements the bank issues
          Unreadable,    \* of these: empty or unreadable entries of a container
          MaxNumber,     \* numbers tried for a name, 999 in the source
          BankKeys,          \* keys of the bank, in the order it changes them
          MaxFetches,    \* bound on runs
          MaxEbicsUpsets \* bound on failures of the disk, killed runs and init.php again

VARIABLES
    shelf,     \* the directory: statement under each path, Nothing when free
    teil,      \* the hidden files in it
    abruf,     \* per run: the locals of ebicsAbholen
    bankNew,   \* statements issued and not yet acknowledged
    bankDone,  \* statements the bank counts as delivered
    keyring,   \* the file: own keys, and the keys of the bank
    backups,   \* the files kept when it was replaced
    hpb,       \* the locals of ebicsHpbLauf
    init,      \* the locals of init.php
    bankKeys,  \* how often the bank has changed its keys
    crossed,   \* history: "names" that two runs chose, "keys" written back over newer ones
    fetches, ebicsUpsets

ebicsVars == <<shelf, teil, abruf, bankNew, bankDone, keyring, backups, hpb, init, bankKeys,
               crossed, fetches, ebicsUpsets>>
FetchUntouched == UNCHANGED <<shelf, teil, abruf, bankNew, bankDone, fetches>>
KeysUntouched == UNCHANGED <<keyring, backups, hpb, init, bankKeys>>

NoAbruf == "nothing"
Foreign == "foreign key"
ASSUME EbicsAssumption ==
    /\ Len(BankKeys) \in Nat \ {0}
    /\ \A i \in 1..Len(BankKeys) : BankKeys[i] \notin {NoAbruf, Foreign}
    /\ IsFiniteSet(Statements) /\ NoAbruf \notin Statements /\ MaxNumber \in Nat
Abrufe == {"timer", "hand"}
Paths == (1..Cardinality(Statements)) \X (1..MaxNumber)
NoKeys == [x |-> NoAbruf, e |-> NoAbruf]
Resting == [at |-> "idle", window |-> FALSE, keys |-> NoKeys, order |-> {}, todo |-> <<>>, i |-> 1,
            path |-> <<1, 1>>, written |-> {}, ok |-> TRUE, exit |-> 0]
NoHpb == [at |-> "idle", mode |-> "pruefen", delivered |-> [x |-> Foreign, e |-> Foreign],
          old |-> NoKeys, exit |-> 0]
NoInit == [at |-> "idle", bank |-> NoKeys]

Letter == [x |-> BankKeys[bankKeys], e |-> BankKeys[bankKeys]]
(* A new installation, or one in use. *)
EbicsInit ==
    /\ shelf = [p \in Paths |-> NoAbruf] /\ teil = [p \in Paths |-> NoAbruf]
    /\ abruf = [r \in Abrufe |-> Resting]
    /\ bankNew = {} /\ bankDone = {} /\ bankKeys = 1
    /\ keyring \in {[file |-> "none", bank |-> NoKeys], [file |-> "whole", bank |-> Letter]}
    /\ backups = {} /\ hpb = NoHpb /\ init = NoInit /\ crossed = {}
    /\ fetches = 0 /\ ebicsUpsets = 0

(* The bank: a statement, and new keys with a letter that prints them.          *)
Issue(s) ==
    /\ s \notin bankNew \cup bankDone /\ bankNew' = bankNew \cup {s}
    /\ UNCHANGED <<shelf, teil, abruf, bankDone, crossed, fetches, ebicsUpsets>> /\ KeysUntouched
ChangeKeys ==
    /\ bankKeys < Len(BankKeys) /\ bankKeys' = bankKeys + 1
    /\ UNCHANGED <<keyring, backups, hpb, init, crossed, ebicsUpsets>> /\ FetchUntouched

(* The checks that need no bank: arguments, configuration, directory, keyring.   *)
(* Any of them may fail, and then nothing is fetched. Nothing asks whether another  *)
(* run is on.                                                                    *)
Checks(ok) == ok /\ keyring.file = "whole"
EbicsGoes(r, f) == abruf' = [abruf EXCEPT ![r] = f]
ExitsWith(r, code) == EbicsGoes(r, [Resting EXCEPT !.exit = code])
Start(r, window, ok) ==
    /\ abruf[r].at = "idle" /\ fetches < MaxFetches /\ fetches' = fetches + 1
    /\ IF Checks(ok) THEN EbicsGoes(r, [Resting EXCEPT !.at = "order", !.window = window,
                                               !.keys = keyring.bank])
       ELSE ExitsWith(r, 1)
    /\ UNCHANGED <<shelf, teil, bankNew, bankDone, crossed, ebicsUpsets>> /\ KeysUntouched

(* executeDownloadOrder up to the receipt: an error, keys the bank does not       *)
(* accept, nothing new (which is no error), or statements: all new ones, or for    *)
(* a window any that were ever issued.                                            *)
Orders(set) == {o \in [1..Cardinality(set) -> set] : \A s \in set : \E i \in DOMAIN o : o[i] = s}
Offered(r) == IF abruf[r].window THEN (SUBSET (bankNew \cup bankDone)) \ {{}}
              ELSE {bankNew} \ {{}}
(* ebicsInhalte: an empty or unreadable entry of a container is left out.         *)
Inhalte(order) == order \ Unreadable
Order(r) ==
    /\ abruf[r].at = "order"
    /\ \/ ExitsWith(r, 2)
       \/ abruf[r].keys # Letter /\ ExitsWith(r, 4)
       \/ abruf[r].keys = Letter /\ ~abruf[r].window /\ bankNew = {} /\ ExitsWith(r, 0)
       \/ /\ abruf[r].keys = Letter
          /\ \E set \in Offered(r) : \E todo \in Orders(Inhalte(set)) :
               EbicsGoes(r, [abruf[r] EXCEPT !.at = "place", !.order = set, !.todo = todo])
    /\ UNCHANGED <<shelf, teil, bankNew, bankDone, crossed, fetches, ebicsUpsets>> /\ KeysUntouched

(* ebicsFreierPfad asks what lies there by now, and the end of the loop. *)
Free(i) == {n \in 1..MaxNumber : shelf[<<i, n>>] = NoAbruf}
Chosen(q, path) == abruf[q].at \in {"write", "rename"} /\ abruf[q].path = path
Undoes(r) == EbicsGoes(r, [abruf[r] EXCEPT !.at = "undo"])
Place(r) ==
    LET f == abruf[r] IN
    /\ f.at = "place"
    /\ \/ f.i > Len(f.todo) /\ EbicsGoes(r, [f EXCEPT !.at = "receipt"]) /\ UNCHANGED crossed
       \/ f.i <= Len(f.todo) /\ Free(f.i) = {} /\ Undoes(r) /\ UNCHANGED crossed
       \/ /\ f.i <= Len(f.todo)
          /\ \E n \in Free(f.i) :
               /\ \A k \in Free(f.i) : n <= k
               /\ EbicsGoes(r, [f EXCEPT !.at = "write", !.path = <<f.i, n>>])
               /\ crossed' = IF \E q \in Abrufe \ {r} : Chosen(q, <<f.i, n>>)
                             THEN crossed \cup {"names"} ELSE crossed
    /\ UNCHANGED <<shelf, teil, bankNew, bankDone, fetches, ebicsUpsets>> /\ KeysUntouched
EbicsUpset == ebicsUpsets < MaxEbicsUpsets /\ ebicsUpsets' = ebicsUpsets + 1
WriteTeil(r) ==
    LET f == abruf[r] IN
    /\ f.at = "write"
    /\ \/ /\ teil' = [teil EXCEPT ![f.path] = f.todo[f.i]] /\ UNCHANGED ebicsUpsets
          /\ EbicsGoes(r, [f EXCEPT !.at = "rename"])
       \/ EbicsUpset /\ Undoes(r) /\ UNCHANGED teil
    /\ UNCHANGED <<shelf, bankNew, bankDone, crossed, fetches>> /\ KeysUntouched
Rename(r) ==
    LET f == abruf[r] IN
    /\ f.at = "rename" /\ teil' = [teil EXCEPT ![f.path] = NoAbruf]
    /\ \/ /\ teil[f.path] # NoAbruf /\ shelf' = [shelf EXCEPT ![f.path] = teil[f.path]]
          /\ EbicsGoes(r, [f EXCEPT !.at = "place", !.i = @ + 1, !.written = @ \cup {f.path}])
          /\ UNCHANGED ebicsUpsets
       \/ teil[f.path] = NoAbruf /\ Undoes(r) /\ UNCHANGED <<shelf, ebicsUpsets>>
       \/ EbicsUpset /\ Undoes(r) /\ UNCHANGED shelf
    /\ UNCHANGED <<bankNew, bankDone, crossed, fetches>> /\ KeysUntouched
(* Deviation: the closure answers true, so the receipt is positive.               *)
UndoQuietly(r) ==
    /\ abruf[r].at = "undo"
    /\ shelf' = [p \in Paths |-> IF p \in abruf[r].written THEN NoAbruf ELSE shelf[p]]
    /\ EbicsGoes(r, [abruf[r] EXCEPT !.at = "receipt"])
    /\ UNCHANGED <<teil, bankNew, bankDone, crossed, fetches, ebicsUpsets>> /\ KeysUntouched
(* The files of this run are removed again, those that can be; the closure         *)
(* answers false.                                                                 *)
Undo(r) ==
    /\ abruf[r].at = "undo"
    /\ \E stuck \in SUBSET abruf[r].written :
         shelf' = [p \in Paths |-> IF p \in abruf[r].written \ stuck THEN NoAbruf ELSE shelf[p]]
    /\ EbicsGoes(r, [abruf[r] EXCEPT !.at = "receipt", !.ok = FALSE])
    /\ UNCHANGED <<teil, bankNew, bankDone, crossed, fetches, ebicsUpsets>> /\ KeysUntouched
(* The receipt, which may be lost on its way, or its answer on the way back.       *)
Receipt(r, arrives, answered) ==
    LET f == abruf[r] IN
    /\ f.at = "receipt"
    /\ bankDone' = IF arrives /\ f.ok THEN bankDone \cup f.order ELSE bankDone
    /\ bankNew' = IF arrives /\ f.ok THEN bankNew \ f.order ELSE bankNew
    /\ ExitsWith(r, IF ~(arrives /\ answered) THEN 2 ELSE IF f.ok THEN 0 ELSE 3)
    /\ UNCHANGED <<shelf, teil, crossed, fetches, ebicsUpsets>> /\ KeysUntouched
(* The time limit of the unit, a stop of the box; the files stay as they are.       *)
Killed(r) ==
    /\ abruf[r].at # "idle" /\ EbicsUpset /\ ExitsWith(r, 2)
    /\ UNCHANGED <<shelf, teil, bankNew, bankDone, crossed, fetches>> /\ KeysUntouched

(* init.php: own keys only where there is no file, saved before they are sent; a    *)
(* file that is there is loaded, and one that is damaged ends the run.              *)
InitKeys ==
    /\ init.at = "idle"
    /\ \/ /\ keyring.file = "none"
          /\ \/ keyring' = [keyring EXCEPT !.file = "whole"] /\ init' = [NoInit EXCEPT !.at = "sends"]
                /\ UNCHANGED ebicsUpsets
             \/ EbicsUpset /\ keyring' = [keyring EXCEPT !.file = "broken"] /\ UNCHANGED init
       \/ /\ keyring.file = "whole" /\ EbicsUpset /\ UNCHANGED keyring
          /\ init' = [at |-> "sends", bank |-> keyring.bank]
    /\ UNCHANGED <<backups, hpb, bankKeys, crossed>> /\ FetchUntouched
(* INI and HIA: if the bank refuses one, the run ends. Else what was loaded is        *)
(* written over the file, in place: whoever dies there leaves a damaged one.        *)
InitSends ==
    /\ init.at = "sends" /\ init' = NoInit
    /\ \/ UNCHANGED <<keyring, crossed, ebicsUpsets>>
       \/ /\ keyring' = [file |-> "whole", bank |-> init.bank] /\ UNCHANGED ebicsUpsets
          /\ crossed' = IF init.bank = keyring.bank THEN crossed ELSE crossed \cup {"keys"}
       \/ /\ EbicsUpset /\ keyring' = [file |-> "broken", bank |-> NoKeys]
          /\ UNCHANGED crossed
    /\ UNCHANGED <<backups, hpb, bankKeys>> /\ FetchUntouched
(* hpb.php: the mode; the first fetch is refused when keys of the bank are stored.   *)
(* Who answers may be somebody else, for one of the two keys or both.               *)
Answers == [x : {Letter.x, Foreign}, e : {Letter.e, Foreign}]
HpbStart(mode, answer) ==
    /\ hpb.at = "idle" /\ keyring.file = "whole"
    /\ hpb' = IF mode = "erstabruf" /\ keyring.bank # NoKeys THEN [NoHpb EXCEPT !.exit = 1]
              ELSE [at |-> "fetched", mode |-> mode, delivered |-> answer,
                    old |-> keyring.bank, exit |-> 0]
    /\ UNCHANGED <<keyring, backups, init, bankKeys, crossed, ebicsUpsets>> /\ FetchUntouched
(* ebicsPruefsummenLage, here without the certificates. *)
Geaendert(old, new) == old # new
(* ebicsUebernahmePruefen: both checksums of the letter, as the operator types them.  *)
UebernahmePruefen(entered, delivered) == entered = delivered
HpbChecks ==
    /\ hpb.at = "fetched"
    /\ \/ /\ hpb.mode = "pruefen"
          /\ hpb' = [NoHpb EXCEPT !.exit = IF Geaendert(hpb.old, hpb.delivered) THEN 4 ELSE 0]
       \/ /\ hpb.mode = "uebernehmen" /\ ~UebernahmePruefen(Letter, hpb.delivered)
          /\ hpb' = [NoHpb EXCEPT !.exit = 5]
       \/ /\ (hpb.mode = "erstabruf" \/ UebernahmePruefen(Letter, hpb.delivered))
          /\ hpb.mode # "pruefen" /\ hpb' = [hpb EXCEPT !.at = "save"]
    /\ UNCHANGED <<keyring, backups, init, bankKeys, crossed, ebicsUpsets>> /\ FetchUntouched
(* ebicsHpbSpeichern: a copy first, then the new file under its name.                *)
HpbBackup ==
    /\ hpb.at = "save" /\ backups' = backups \cup {keyring.bank}
    /\ hpb' = [hpb EXCEPT !.at = "rename"]
    /\ UNCHANGED <<keyring, init, bankKeys, crossed, ebicsUpsets>> /\ FetchUntouched
HpbRename ==
    /\ hpb.at = "rename" /\ keyring' = [file |-> "whole", bank |-> hpb.delivered] /\ hpb' = NoHpb
    /\ UNCHANGED <<backups, init, bankKeys, crossed, ebicsUpsets>> /\ FetchUntouched
HpbFails ==
    /\ hpb.at # "idle" /\ EbicsUpset /\ hpb' = [NoHpb EXCEPT !.exit = 2]
    /\ UNCHANGED <<keyring, backups, init, bankKeys, crossed>> /\ FetchUntouched

FetchStep(r) ==
    \/ Order(r) \/ Place(r) \/ WriteTeil(r) \/ Rename(r) \/ Undo(r) \/ Killed(r)
    \/ \E window, ok \in BOOLEAN : Start(r, window, ok)
    \/ \E arrives, answered \in BOOLEAN : Receipt(r, arrives, answered)
FetchNext == (\E s \in Statements : Issue(s)) \/ (\E r \in Abrufe : FetchStep(r)) \/ ChangeKeys
KeysNext ==
    \/ ChangeKeys \/ InitKeys \/ InitSends \/ HpbChecks \/ HpbBackup \/ HpbRename \/ HpbFails
    \/ \E m \in {"erstabruf", "pruefen", "uebernehmen"}, a \in Answers : HpbStart(m, a)
EbicsNext == FetchNext \/ KeysNext
EbicsSpec == EbicsInit /\ [][EbicsNext]_ebicsVars

(* A readable statement that the bank counts as delivered, and will not offer      *)
(* again by itself, lies in the directory, whatever failed, was lost or was killed  *)
(* on the way and however often it was fetched.                                    *)
StatementsKept ==
    \A s \in bankDone \ Unreadable : \E p \in Paths : shelf[p] = s
(* Keys of the bank that were genuine are never followed by foreign ones.           *)
KeysProved ==
    \A b \in backups \ {NoKeys} :
      (b.x # Foreign /\ b.e # Foreign) => (keyring.bank.x # Foreign /\ keyring.bank.e # Foreign)
(* Both, whatever fails, is lost or is killed and however many runs overlap: only     *)
(* two runs that choose one name lose a statement, and only an init.php that loaded   *)
(* the file before hpb.php replaced it brings older keys back.                      *)
EbicsKeeps ==
    /\ "names" \notin crossed => StatementsKept
    /\ "keys" \notin crossed => KeysProved
=============================================================================
