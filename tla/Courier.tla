------------------------------- MODULE Courier -------------------------------
(***************************************************************************)
(* The courier of the storage pins (mediator/storage_fetch.go, storage.go):*)
(* every minute it fetches the list and the packages that are missing into *)
(* the inbox, within a total, while the poll loop removes packages that    *)
(* were approved and are so no more.                                       *)
(***************************************************************************)
EXTENDS Integers, Sequences, FiniteSets, Functions

CONSTANTS PkgFiles,                  \* <name>-<commit>.pkg
          CourierLists,              \* lists: the files in the order of their pins
          PackageLimit, TotalLimit   \* in units of size

ASSUME CourierAssumption ==
    /\ IsFiniteSet(PkgFiles) /\ PackageLimit \in Nat /\ TotalLimit \in Nat
    /\ \A l \in CourierLists : l \in Seq(PkgFiles)

VARIABLES
    pkgDir,     \* inbox/pkg: the size per file, 0 if it is not there
    round,      \* Once: where it is, the list, pins to go, budget, files that are there
    cooling,    \* packageNext: files that failed or came a short time ago
    wasApproved \* approvedPackages

courierVars == <<pkgDir, round, cooling, wasApproved>>

RoundIdle == [at |-> "idle", list |-> <<>>, todo |-> <<>>, budget |-> 0, existing |-> {}]

CourierInit ==
    /\ pkgDir = [f \in PkgFiles |-> 0] /\ round = RoundIdle
    /\ cooling = {} /\ wasApproved = {}

\* A list with the pins that can be routed; what it does not name goes.
GetList ==
    /\ round.at = "idle"
    /\ \E l \in CourierLists :
          /\ pkgDir' = [f \in PkgFiles |-> IF f \in Range(l) THEN pkgDir[f] ELSE 0]
          /\ cooling' = cooling \cap Range(l)
          /\ round' = [RoundIdle EXCEPT !.at = "count", !.list = l, !.todo = l, !.budget = TotalLimit]
    /\ UNCHANGED wasApproved

\* Deviation: the files that are there are not charged.
CountExistingFree ==
    /\ round.at = "count" /\ round.todo # <<>>
    /\ round' = [round EXCEPT !.todo = Tail(@),
                   !.existing = @ \cup {f \in {Head(round.todo)} : pkgDir[f] > 0}]
    /\ UNCHANGED <<pkgDir, cooling, wasApproved>>

\* "Reserve all existing bytes first", pin by pin; a file beyond the rest of the
\* budget goes.
CountExisting ==
    LET f == Head(round.todo)
        rest == [round EXCEPT !.todo = Tail(@)] IN
    /\ round.at = "count" /\ round.todo # <<>>
    /\ \/ /\ f \in round.existing \/ pkgDir[f] = 0
          /\ round' = rest /\ UNCHANGED pkgDir
       \/ /\ f \notin round.existing /\ pkgDir[f] > round.budget
          /\ round' = rest /\ pkgDir' = [pkgDir EXCEPT ![f] = 0]
       \/ /\ f \notin round.existing /\ pkgDir[f] \in 1 .. round.budget
          /\ round' = [rest EXCEPT !.budget = @ - pkgDir[f], !.existing = @ \cup {f}]
          /\ UNCHANGED pkgDir
    /\ UNCHANGED <<cooling, wasApproved>>

AllCounted ==
    /\ round.at = "count" /\ round.todo = <<>>
    /\ round' = [round EXCEPT !.at = "fetch", !.todo = round.list]
    /\ UNCHANGED <<pkgDir, cooling, wasApproved>>

\* The package of the next pin: a failing call is charged with all it may have read.
FetchPackage ==
    LET f == Head(round.todo)
        limit == IF PackageLimit < round.budget THEN PackageLimit ELSE round.budget
        rest == [round EXCEPT !.todo = Tail(@)] IN
    /\ round.at = "fetch" /\ round.todo # <<>>
    /\ \/ /\ f \in round.existing \/ (limit > 0 /\ f \in cooling)
          /\ round' = rest /\ UNCHANGED <<pkgDir, cooling>>
       \/ /\ f \notin round.existing /\ limit = 0
          /\ round' = RoundIdle /\ UNCHANGED <<pkgDir, cooling>>
       \/ /\ f \notin round.existing \cup cooling /\ limit > 0
          /\ cooling' = cooling \cup {f}
          /\ \/ \E n \in 1 .. limit :
                   /\ pkgDir' = [pkgDir EXCEPT ![f] = n]
                   /\ round' = [rest EXCEPT !.budget = @ - n, !.existing = @ \cup {f}]
             \/ round' = [rest EXCEPT !.budget = @ - limit] /\ UNCHANGED pkgDir
    /\ UNCHANGED wasApproved

RoundEnds ==
    /\ round.at = "fetch" /\ round.todo = <<>>
    /\ round' = RoundIdle
    /\ UNCHANGED <<pkgDir, cooling, wasApproved>>

CoolsDown(f) ==
    /\ f \in cooling /\ cooling' = cooling \ {f}
    /\ UNCHANGED <<pkgDir, round, wasApproved>>

\* pruneStoragePackages: only what was approved goes, if it is so no more or the
\* approvals have expired.
PrunePackages ==
    \E accepted \in SUBSET PkgFiles : \E keep \in {accepted, {}} :
       /\ pkgDir' = [f \in PkgFiles |-> IF f \in (wasApproved \cup accepted) \ keep THEN 0 ELSE pkgDir[f]]
       /\ wasApproved' = keep
       /\ UNCHANGED <<round, cooling>>

CourierNext == GetList \/ CountExisting \/ AllCounted \/ FetchPackage \/ RoundEnds
               \/ (\E f \in PkgFiles : CoolsDown(f)) \/ PrunePackages

CourierSpec == CourierInit /\ [][CourierNext]_courierVars
-----------------------------------------------------------------------------
\* "a missing package sorted before an existing one must not let the directory
\* exceed the total limit": over any rounds, lists, failing calls and removals
\* by the poll loop in between.
InboxKeepsLimit == SumFunctionOnSet(pkgDir, PkgFiles) <= TotalLimit
=============================================================================
