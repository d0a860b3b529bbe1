----------------------------- MODULE AppWindows -----------------------------
(* The windows of the apps in the control panel: the goroutine that watches the runner's     *)
(* manifest, the goroutines that open an app, and the UI thread that takes their results      *)
(* from two channels, opens windows, updates them and closes those of withdrawn apps. While    *)
(* a window starts, the UI thread handles other messages.                                *)
EXTENDS Naturals, Sequences

CONSTANTS AppNames,   \* apps of the device
          MaxBundles, \* bound on manifests of the runner
          ListCap,    \* capacity of appLists; 4 in the code
          MaxFailed   \* failed reads in a row that empty the list; 3 in the code

NoApp == "none"
ASSUME AppWindowsAssumption ==
    /\ MaxBundles \in Nat /\ ListCap \in Nat \ {0} /\ MaxFailed \in Nat \ {0}
    /\ NoApp \notin AppNames

VARIABLES
    bundle,             \* the runner's: sequence, apps, and whether it can be read
    last, failures, offered, \* Watch: last list given, failures in a row, the list it is about to send
    lists,              \* channel appLists
    apps,               \* the list the UI shows
    opening,            \* per app: not opening, reading, found under a sequence, failed
    embedding,          \* the app whose window is being started
    window              \* per app: the sequence its open window has, or none

appVars == <<bundle, last, failures, offered, lists, apps, opening, embedding, window>>
watchVars == <<last, failures, offered>>

NoList == [seq |-> 0, names |-> {}]
NoWindow == [open |-> "no", seq |-> 0]
OpenAt(n) == [open |-> "yes", seq |-> n]
NotOpening == [at |-> "no", seq |-> 0]
HasWindow(a) == window[a].open = "yes"

AppsInit ==
    /\ bundle \in {[seq |-> 1, names |-> s, file |-> "there"] : s \in SUBSET AppNames}
    /\ last = <<>> /\ failures = 0 /\ offered = <<>> /\ lists = <<>> /\ apps = NoList
    /\ opening = [a \in AppNames |-> NotOpening] /\ embedding = NoApp
    /\ window = [a \in AppNames |-> NoWindow]

(* The runner accepts a newer manifest, writes it, or erases everything when revoked.         *)
RunnerSaves ==
    /\ bundle.seq < MaxBundles /\ bundle.file # "erased"
    /\ \E s \in SUBSET AppNames :
          bundle' = [seq |-> bundle.seq + 1, names |-> s, file |-> "there"]
    /\ UNCHANGED <<watchVars, lists, apps, opening, embedding, window>>
RunnerWrites ==
    /\ \E f \in {"there", "unreadable"} : bundle.file # "erased" /\ bundle' = [bundle EXCEPT !.file = f]
    /\ bundle' # bundle
    /\ UNCHANGED <<watchVars, lists, apps, opening, embedding, window>>
RunnerRevoked ==
    /\ bundle.file # "erased" /\ bundle' = [bundle EXCEPT !.file = "erased", !.names = {}]
    /\ UNCHANGED <<watchVars, lists, apps, opening, embedding, window>>

(* Watch: a changed list is sent on; a few failures in a row, or no file, empty the list.     *)
Emits(l) == last' = <<l>> /\ offered' = <<l>>
WatchReads ==
    /\ offered = <<>> /\ bundle.file = "there" /\ failures' = 0
    /\ LET l == [seq |-> bundle.seq, names |-> bundle.names]
       IN IF last # <<l>> THEN Emits(l) ELSE UNCHANGED <<last, offered>>
    /\ UNCHANGED <<bundle, lists, apps, opening, embedding, window>>
Failed == IF bundle.file = "erased" THEN MaxFailed
          ELSE IF failures > MaxFailed THEN failures ELSE failures + 1
EmptiesList == failures' = MaxFailed /\ (last = <<>> \/ last[1].names # {})
WatchFails ==
    /\ offered = <<>> /\ bundle.file # "there" /\ failures' = Failed
    /\ IF EmptiesList THEN Emits(NoList) ELSE UNCHANGED <<last, offered>>
    /\ UNCHANGED <<bundle, lists, apps, opening, embedding, window>>
WatchSends ==
    /\ offered # <<>> /\ Len(lists) < ListCap /\ lists' = Append(lists, offered[1]) /\ offered' = <<>>
    /\ UNCHANGED <<bundle, last, failures, apps, opening, embedding, window>>

(* A click on the menu: one window, one opening.                                         *)
MayOpenEarly(a) == ~HasWindow(a)
MayOpen(a) == ~HasWindow(a) /\ opening[a].at = "no"
ClickOpen(a) ==
    /\ a \in apps.names /\ MayOpen(a)
    /\ opening' = [opening EXCEPT ![a].at = "reads"]
    /\ UNCHANGED <<bundle, watchVars, lists, apps, embedding, window>>
(* Runtime.Open in its goroutine: the signed manifest of now, the seal, the credentials.       *)
OpenReads(a) ==
    /\ opening[a].at = "reads"
    /\ \/ /\ bundle.file = "there" /\ a \in bundle.names
          /\ opening' = [opening EXCEPT ![a] = [at |-> "found", seq |-> bundle.seq]]
       \/ opening' = [opening EXCEPT ![a].at = "failed"]
    /\ UNCHANGED <<bundle, watchVars, lists, apps, embedding, window>>

(* drainApps, a list: windows of apps it lacks are closed, the others updated unless newer.     *)
Updated(w, l) == IF l.seq < w.seq THEN w ELSE OpenAt(l.seq)
ListedUpdates(l) == [a \in AppNames |-> IF HasWindow(a) THEN Updated(window[a], l) ELSE NoWindow]
Listed(l) ==
    [a \in AppNames |-> IF ~HasWindow(a) THEN NoWindow
                        ELSE IF a \in l.names THEN Updated(window[a], l) ELSE NoWindow]
MayDrain == embedding = NoApp
DrainList ==
    /\ MayDrain /\ lists # <<>> /\ lists' = Tail(lists) /\ apps' = Head(lists)
    /\ window' = Listed(Head(lists))
    /\ UNCHANGED <<bundle, watchVars, opening, embedding>>
(* drainApps, an opened app: handleOpened up to the start of the window.                   *)
DrainOpened(a) ==
    /\ MayDrain
    /\ \/ opening[a].at = "failed" /\ opening' = [opening EXCEPT ![a] = NotOpening]
          /\ UNCHANGED embedding
       \/ opening[a].at = "found" /\ embedding' = a /\ UNCHANGED opening
    /\ UNCHANGED <<bundle, watchVars, lists, apps, window>>
(* NewSurface has returned: the window counts and is updated, or a step has failed.           *)
EmbedEnds ==
    /\ embedding # NoApp /\ embedding' = NoApp
    /\ opening' = [opening EXCEPT ![embedding] = NotOpening]
    /\ LET w == OpenAt(opening[embedding].seq)
       IN \/ window' = [window EXCEPT ![embedding] =
                          IF embedding \in apps.names THEN Updated(w, apps) ELSE w]
          \/ UNCHANGED window
    /\ UNCHANGED <<bundle, watchVars, lists, apps>>
(* OnClosed: the user has closed it, or it has failed.                                     *)
WindowCloses(a) ==
    /\ HasWindow(a) /\ window' = [window EXCEPT ![a] = NoWindow]
    /\ UNCHANGED <<bundle, watchVars, lists, apps, opening, embedding>>

WatchSteps == WatchReads \/ WatchFails \/ WatchSends
UISteps == DrainList \/ (\E a \in AppNames : DrainOpened(a)) \/ EmbedEnds
OpenSteps == \E a \in AppNames : OpenReads(a)
AppsNext ==
    \/ RunnerSaves \/ RunnerWrites \/ RunnerRevoked
    \/ WatchSteps \/ UISteps \/ OpenSteps
    \/ \E a \in AppNames : ClickOpen(a) \/ WindowCloses(a)
(* The loops go on, a window that starts is there or fails, and the UI thread takes what waits  *)
(* from both channels.                                                                 *)
AppsSpec ==
    /\ AppsInit /\ [][AppsNext]_appVars
    /\ WF_appVars(WatchSteps) /\ WF_appVars(OpenSteps) /\ WF_appVars(EmbedEnds)
    /\ SF_appVars(DrainList) /\ \A a \in AppNames : SF_appVars(DrainOpened(a))

-----------------------------------------------------------------------------
(* A window is never started for an app that has one, so no two windows share a profile,     *)
(* and an open window shows a manifest at least as new as the one the menu shows.            *)
OneWindowUpToDate ==
    /\ embedding # NoApp => ~HasWindow(embedding) /\ opening[embedding].at = "found"
    /\ \A a \in AppNames : HasWindow(a) /\ a \in apps.names => window[a].seq >= apps.seq

(* The window of an app that the menu still shows and the runner's manifest no longer has is   *)
(* closed, and so are all when the manifest cannot be read for long. (An opening that had      *)
(* found the app and is overtaken by that list keeps its window: nobody looks again.)        *)
WithdrawnCloses ==
    \A a \in AppNames :
        a \in apps.names \ bundle.names ~> (~HasWindow(a) \/ a \in bundle.names)
=============================================================================
