-------------------------------- MODULE Pins --------------------------------
(***************************************************************************)
(* From a pin to an approved script: the mediator's poll loop writes what  *)
(* it wants, the fetcher checks that each commit is on the default branch  *)
(* and leaves marks, the mediator reads the marks and lists the pins       *)
(* (mediator/pins.go, desktop.go; fetcher/fetcher.go; store/store.go).     *)
(* They share only files.  The name of a pin is taken to be its commit;    *)
(* the two pin files are written by the gateway, the repository is remote. *)
(***************************************************************************)
EXTENDS Naturals, FiniteSets

CONSTANTS Urls, Commits,
          Wishes,        \* contents of pins.json and desktop-pins.json
          Valid,         \* commits whose tree and manifest are in order
          MaxPinEvents   \* bound on new wishes, moved branches, failing calls, crashes

NoUrl == "no url"

ASSUME PinsAssumption ==
    /\ Wishes \subseteq [url : Urls, pins : SUBSET Commits, deskUrl : Urls, desk : SUBSET Commits]
    /\ Valid \subseteq Commits /\ NoUrl \notin Urls /\ MaxPinEvents \in Nat

VARIABLES
    wish,      \* the two pin files
    onMain,    \* per repository: the ancestors of its default head
    proved,    \* history: <<url, commit>> that were on the default branch when checked
    polled,    \* the poll loop: where it is, what it has read, whom it judges
    cache,     \* m.cache and m.desktopCache, for m.repoURL
    cacheUrl,  \* m.repoURL
    verdict,   \* of this poll
    listed,    \* m.pins, m.desktopPins: [url, of], of per kind and commit
    wanted, urlFile,     \* the files wanted/<sha> and repo_url
    fetching,     \* the fetcher: where it is, what it has read
    approvals, failed,    \* the files approved/<sha> and failed/<sha>
    storeUrl, objects,   \* store.url and the commits in store.git
    hand,      \* GET /desktop/package: where it is
    handed,    \* history: the packages that were sent
    pinEvents

pollVars  == <<polled, cache, cacheUrl, verdict, listed, wanted, urlFile>>
fetchVars == <<fetching, approvals, failed, storeUrl, objects, proved>>
handVars  == <<hand, handed>>
pinVars   == <<wish, onMain, pollVars, fetchVars, handVars, pinEvents>>

Kinds == {"script", "desk"}
DeployKeys == Kinds \X Commits
PinEvent == pinEvents < MaxPinEvents /\ pinEvents' = pinEvents + 1

NoRead == [k \in DeployKeys |-> "none"]
PollIdle == [at |-> "read", wish |-> CHOOSE w \in Wishes : TRUE, todo |-> {}, key |-> "none"]
FetchIdle == [at |-> "idle", todo |-> {}, url |-> NoUrl, head |-> {}]
HandIdle == [at |-> "idle", url |-> NoUrl, commit |-> "none"]

PinsInit ==
    /\ wish \in Wishes /\ onMain \in [Urls -> {Commits}] /\ proved = {}
    /\ polled = PollIdle /\ cache = NoRead /\ cacheUrl = NoUrl /\ verdict = NoRead
    /\ listed = [url |-> NoUrl, of |-> NoRead]
    /\ wanted = {} /\ urlFile = NoUrl
    /\ fetching = FetchIdle /\ approvals = [c \in Commits |-> NoUrl] /\ failed = {}
    /\ storeUrl = NoUrl /\ objects = {}
    /\ hand = HandIdle /\ handed = {} /\ pinEvents = 0

-----------------------------------------------------------------------------
(* The gateway and the remote repository *)

NewWish ==
    /\ PinEvent /\ wish' \in Wishes \ {wish}
    /\ UNCHANGED <<onMain, pollVars, fetchVars, handVars>>

BranchMoves(u) ==
    /\ PinEvent
    /\ \E s \in SUBSET Commits : s # onMain[u] /\ onMain' = [onMain EXCEPT ![u] = s]
    /\ UNCHANGED <<wish, pollVars, fetchVars, handVars>>

-----------------------------------------------------------------------------
(* The poll loop of the mediator *)

\* readPinFiles: desktop pins of another repository are invalid.
DeskPins(w) == IF w.deskUrl = w.url THEN w.desk ELSE {}
WantedOf(w) == w.pins \cup DeskPins(w)

GoTo(at) == polled' = [polled EXCEPT !.at = at]
PollRest == UNCHANGED <<wish, onMain, fetchVars, handVars>>

\* Both files are read, and what is no longer wanted is removed.
ReadWish ==
    /\ polled.at = "read"
    /\ polled' = [PollIdle EXCEPT !.at = "url", !.wish = wish]
    /\ wanted' = wanted \cap WantedOf(wish)
    /\ UNCHANGED <<cache, cacheUrl, verdict, listed, urlFile, pinEvents>> /\ PollRest

\* repo_url is published before new wishes; a failing write ends writeWanted.
WriteUrl ==
    /\ polled.at = "url"
    /\ \/ urlFile' = polled.wish.url /\ GoTo("want") /\ UNCHANGED pinEvents
       \/ PinEvent /\ GoTo("begin") /\ UNCHANGED urlFile
    /\ UNCHANGED <<cache, cacheUrl, verdict, listed, wanted>> /\ PollRest

WriteWanted ==
    /\ polled.at = "want"
    /\ wanted' = wanted \cup WantedOf(polled.wish)
    /\ GoTo("begin")
    /\ UNCHANGED <<cache, cacheUrl, verdict, listed, urlFile, pinEvents>> /\ PollRest

\* A new repository empties the caches; pins that are invalid by themselves,
\* and scripts with the name of a desktop pin, are not evaluated.
BeginJudging ==
    LET w == polled.wish  same == w.url = cacheUrl IN
    /\ polled.at = "begin"
    /\ cache' = IF same THEN cache ELSE NoRead
    /\ cacheUrl' = w.url
    /\ verdict' = [k \in DeployKeys |-> IF k \in ({"script"} \X (w.pins \cap w.desk)) \cup ({"desk"} \X (w.desk \ DeskPins(w)))
                                   THEN "invalid" ELSE "none"]
    /\ polled' = [polled EXCEPT !.at = "judge",
                    !.todo = ({"script"} \X (w.pins \ w.desk)) \cup ({"desk"} \X DeskPins(w))]
    /\ UNCHANGED <<listed, wanted, urlFile, pinEvents>> /\ PollRest

\* Deviation: an approval counts for every repository.
FetchVerdictAny(c, u) == IF c \in failed THEN "invalid" ELSE IF approvals[c] # NoUrl THEN "ready" ELSE "pending"

\* fetchVerdictFor: failures come first, an approval counts for its repository.
FetchVerdict(c, u) == IF c \in failed THEN "invalid" ELSE IF approvals[c] = u THEN "ready" ELSE "pending"

Judged(k, v) == /\ verdict' = [verdict EXCEPT ![k] = v]
                /\ polled' = [polled EXCEPT !.at = "judge", !.todo = @ \ {k}, !.key = "none"]

\* Deviation: what was ready once is not asked of the fetcher again.
EvaluateCached(k) ==
    LET f == FetchVerdict(k[2], cacheUrl) IN
    /\ polled.at = "judge" /\ k \in polled.todo
    /\ IF cache[k] # "none" THEN Judged(k, cache[k])
       ELSE IF f # "ready" THEN Judged(k, f)
       ELSE polled' = [polled EXCEPT !.at = "verify", !.key = k] /\ UNCHANGED verdict
    /\ UNCHANGED <<cache, cacheUrl, listed, wanted, urlFile, pinEvents>> /\ PollRest

\* evaluate, evaluateDesktop: the fetcher's marks come before the cache.
Evaluate(k) ==
    LET f == FetchVerdict(k[2], cacheUrl) IN
    /\ polled.at = "judge" /\ k \in polled.todo
    /\ IF f # "ready" THEN Judged(k, f)
       ELSE IF cache[k] # "none" THEN Judged(k, cache[k])
       ELSE polled' = [polled EXCEPT !.at = "verify", !.key = k] /\ UNCHANGED verdict
    /\ UNCHANGED <<cache, cacheUrl, listed, wanted, urlFile, pinEvents>> /\ PollRest

\* verifySource and DesktopPackage walk the tree.  git may fail: a script's
\* verdict is then "pending" and cached, a desktop pin's is not cached.  A store
\* that the fetcher empties meanwhile lacks objects, which is final.
Verify ==
    LET k == polled.key  c == k[2] IN
    /\ polled.at = "verify"
    /\ \/ c \notin objects /\ Judged(k, "pending") /\ UNCHANGED <<cache, pinEvents>>
       \/ /\ c \in objects /\ UNCHANGED pinEvents
          /\ LET v == IF c \in Valid THEN "ready" ELSE "invalid" IN
             Judged(k, v) /\ cache' = [cache EXCEPT ![k] = v]
       \/ /\ fetching.at = "init" /\ UNCHANGED pinEvents
          /\ Judged(k, "invalid") /\ cache' = [cache EXCEPT ![k] = "invalid"]
       \/ /\ c \in objects /\ PinEvent
          /\ Judged(k, "pending")
          /\ cache' = IF k[1] = "script" THEN [cache EXCEPT ![k] = "pending"] ELSE cache
    /\ UNCHANGED <<cacheUrl, listed, wanted, urlFile>> /\ PollRest

\* m.pins and m.desktopPins are replaced together.
PublishPins ==
    /\ polled.at = "judge" /\ polled.todo = {}
    /\ listed' = [url |-> cacheUrl, of |-> verdict]
    /\ polled' = PollIdle /\ verdict' = NoRead
    /\ UNCHANGED <<cache, cacheUrl, wanted, urlFile, pinEvents>> /\ PollRest

Poll == ReadWish \/ WriteUrl \/ WriteWanted \/ BeginJudging \/ (\E k \in DeployKeys : Evaluate(k)) \/ Verify \/ PublishPins

\* A run that finds its approval gone, or fails to load the tree, forgets.
Forget(k) ==
    /\ k[1] = "script" /\ listed.of[k] = "ready" /\ cache[k] # "none"
    /\ cache' = [cache EXCEPT ![k] = "none"]
    /\ UNCHANGED <<polled, cacheUrl, verdict, listed, wanted, urlFile, pinEvents>> /\ PollRest

MediatorRestarts ==
    /\ PinEvent
    /\ polled' = PollIdle /\ cache' = NoRead /\ cacheUrl' = NoUrl /\ verdict' = NoRead
    /\ listed' = [url |-> NoUrl, of |-> NoRead]
    /\ hand' = HandIdle
    /\ UNCHANGED <<wish, onMain, wanted, urlFile, fetchVars, handed>>

-----------------------------------------------------------------------------
(* The fetcher *)

FetchRest == UNCHANGED <<wish, onMain, pollVars, handVars>>
PinsGo(at) == fetching' = [fetching EXCEPT !.at = at]

ReadWanted ==
    /\ fetching.at = "idle" /\ wanted # {}
    /\ fetching' = [FetchIdle EXCEPT !.at = "url", !.todo = wanted]
    /\ UNCHANGED <<approvals, failed, storeUrl, objects, proved, pinEvents>> /\ FetchRest

\* failUnverified: what is approved for this repository stays so.
Unverified(cs, u) == {c \in cs : approvals[c] # u}
FailUnverified(cs) == /\ approvals' = [c \in Commits |-> IF c \in Unverified(cs, fetching.url) THEN NoUrl ELSE approvals[c]]
                      /\ failed' = failed \cup Unverified(cs, fetching.url)

\* repo_url, then ensureStore: another repository needs an empty store.
ReadUrl ==
    /\ fetching.at = "url" /\ urlFile # NoUrl
    /\ fetching' = [fetching EXCEPT !.url = urlFile, !.at = IF storeUrl = urlFile THEN "head" ELSE "init"]
    /\ UNCHANGED <<approvals, failed, storeUrl, objects, proved, pinEvents>> /\ FetchRest

\* Approvals, objects and failures go before store.url names the new one.
InitStore ==
    /\ fetching.at = "init"
    /\ \/ /\ approvals' = [c \in Commits |-> NoUrl] /\ objects' = {} /\ failed' = {}
          /\ storeUrl' = fetching.url /\ PinsGo("head") /\ UNCHANGED pinEvents
       \/ /\ PinEvent /\ fetching' = FetchIdle
          /\ approvals' = [c \in Commits |-> NoUrl] /\ failed' = fetching.todo
          /\ storeUrl' = NoUrl /\ objects' = {}
    /\ UNCHANGED proved /\ FetchRest

\* The default head, resolved and fetched anew in every pass.
ResolveHead ==
    /\ fetching.at = "head"
    /\ \/ /\ fetching' = [fetching EXCEPT !.at = "check", !.head = onMain[fetching.url]]
          /\ objects' = objects \cup onMain[fetching.url]
          /\ UNCHANGED <<approvals, failed, pinEvents>>
       \/ /\ PinEvent /\ FailUnverified(fetching.todo) /\ fetching' = FetchIdle
          /\ UNCHANGED objects
    /\ UNCHANGED <<storeUrl, proved>> /\ FetchRest

MarkFailed(c) == failed' = failed \cup {c} /\ approvals' = [approvals EXCEPT ![c] = NoUrl]
Checked(c) == fetching' = [fetching EXCEPT !.todo = @ \ {c}]

\* isAncestor says yes: approved first, then the old failure is removed.
CheckAncestor(c) ==
    /\ fetching.at = "check" /\ c \in fetching.todo
    /\ \/ /\ c \in fetching.head /\ UNCHANGED pinEvents
          /\ approvals' = [approvals EXCEPT ![c] = fetching.url] /\ failed' = failed \ {c}
          /\ proved' = proved \cup {<<fetching.url, c>>}
          /\ Checked(c)
       \/ /\ c \in fetching.head /\ PinEvent           \* only the first of the two
          /\ approvals' = [approvals EXCEPT ![c] = fetching.url]
          /\ proved' = proved \cup {<<fetching.url, c>>}
          /\ UNCHANGED failed /\ Checked(c)
       \/ /\ c \notin fetching.head /\ UNCHANGED <<proved, pinEvents>>
          /\ MarkFailed(c) /\ Checked(c)
       \/ /\ PinEvent /\ FailUnverified({c})        \* fetch or git failed
          /\ UNCHANGED proved /\ Checked(c)
    /\ UNCHANGED <<storeUrl, objects>> /\ FetchRest

PassEnds ==
    /\ fetching.at = "check" /\ fetching.todo = {}
    /\ fetching' = FetchIdle
    /\ UNCHANGED <<approvals, failed, storeUrl, objects, proved, pinEvents>> /\ FetchRest

Fetch == ReadWanted \/ ReadUrl \/ InitStore \/ ResolveHead \/ (\E c \in Commits : CheckAncestor(c)) \/ PassEnds

\* The container of the fetcher dies; its files stay.
FetcherRestarts ==
    /\ PinEvent /\ fetching' = FetchIdle
    /\ UNCHANGED <<approvals, failed, storeUrl, objects, proved>> /\ FetchRest

-----------------------------------------------------------------------------
(* GET /desktop/package *)

\* authorizedDesktop reads the pin files and the marks itself.
Authorized(c) == c \in DeskPins(wish) /\ FetchVerdict(c, wish.url) = "ready"
HandRest == UNCHANGED <<wish, onMain, pollVars, fetchVars, pinEvents>>

AskPackage(c) ==
    /\ hand.at = "idle" /\ Authorized(c)
    /\ hand' = [at |-> "walk", url |-> wish.url, commit |-> c]
    /\ UNCHANGED handed /\ HandRest

\* The tree has been walked: pins and approval are read again.
SendPackage ==
    /\ hand.at = "walk"
    /\ handed' = IF Authorized(hand.commit) /\ wish.url = hand.url
                 THEN handed \cup {[url |-> wish.url, commit |-> hand.commit, ok |-> TRUE]} ELSE handed
    /\ hand' = HandIdle
    /\ HandRest

-----------------------------------------------------------------------------
PinsNext ==
    \/ NewWish \/ \E u \in Urls : BranchMoves(u)
    \/ Poll \/ (\E k \in DeployKeys : Forget(k)) \/ MediatorRestarts
    \/ Fetch \/ FetcherRestarts
    \/ (\E c \in Commits : AskPackage(c)) \/ SendPackage

\* Both loops run on; failures and changes are bounded.
PinsFairness == WF_pinVars(Poll) /\ WF_pinVars(Fetch)

PinsSpec == PinsInit /\ [][PinsNext]_pinVars /\ PinsFairness
-----------------------------------------------------------------------------
Verdicts == {"none", "ready", "pending", "invalid"}
PinsTypeOK ==
    /\ wish \in Wishes /\ onMain \in [Urls -> SUBSET Commits] /\ proved \subseteq Urls \X Commits
    /\ polled.at \in {"read", "url", "want", "begin", "judge", "verify"} /\ polled.todo \subseteq DeployKeys
    /\ cache \in [DeployKeys -> Verdicts] /\ verdict \in [DeployKeys -> Verdicts]
    /\ cacheUrl \in Urls \cup {NoUrl} /\ listed.of \in [DeployKeys -> Verdicts]
    /\ wanted \subseteq Commits /\ urlFile \in Urls \cup {NoUrl}
    /\ fetching.at \in {"idle", "url", "init", "head", "check"} /\ fetching.todo \subseteq Commits
    /\ approvals \in [Commits -> Urls \cup {NoUrl}] /\ failed \subseteq Commits
    /\ storeUrl \in Urls \cup {NoUrl} /\ objects \subseteq Commits
    /\ pinEvents \in 0 .. MaxPinEvents

\* A pin is listed as ready, and a package is sent, only for a commit that was
\* proved to be on the default branch of the very repository the pins name,
\* however loops, wishes and marks are interleaved; what is sent was authorised
\* after the walk.
OnlyProvedRuns ==
    /\ \A k \in DeployKeys : listed.of[k] = "ready" => <<listed.url, k[2]>> \in proved
    /\ \A h \in handed : h.ok /\ <<h.url, h.commit>> \in proved

\* Once branches, wishes and failures rest, no commit that is off the default
\* branch is listed as ready, however it became ready.
RejectedIsWithdrawn ==
    <>[](\A k \in DeployKeys : listed.of[k] = "ready" =>
            k[2] \in onMain[wish.url] \/ listed.url # wish.url)

\* "Lesefehler von git: später erneut versuchen": a valid commit that stays
\* wanted and on the default branch becomes ready.
WantedGetsListed ==
    \A c \in Valid : <>[](c \in wish.pins \ wish.desk /\ c \in onMain[wish.url])
                     => []<>(listed.of[<<"script", c>>] = "ready")
=============================================================================
