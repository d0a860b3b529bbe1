------------------------------- MODULE Ticker -------------------------------
(***************************************************************************)
(* The clock of the schedules (ticker/ticker.go, schedules/schedules.go,   *)
(* mediator/schedules.go): every poll compares schedules.json with the     *)
(* wall clock and fires what is due, each slot in a goroutine of its own   *)
(* that waits for the gateway and records the answer.  One schedule; the   *)
(* cron expression is the set of its slots.  Time moves in units of the    *)
(* deadline of a call; polls may be late, and the clock of the machine may *)
(* be set, or stand still with it, apart from the deadlines of calls.      *)
(***************************************************************************)
EXTENDS Integers, FiniteSets, FiniteSetsExt

CONSTANTS Slots,         \* Next: the times at which the schedule is due
          Gaps,          \* GapMisses: times that a change of summer time left out
          FireWindow,    \* 25 s, in these units
          CallTimeout,   \* triggerTimeout
          MaxScan,       \* maxScan: slots that one poll judges
          MaxWall,       \* bound on the time
          MaxFileEvents  \* bound on changes of the file, of the pin, of the clock

\* spacedFiveMinutes: when the next slot begins, a call for the last one, made
\* as late as the window allows, has used its time up.
Apart == \A s, t \in Slots : s < t => t - s >= FireWindow + CallTimeout

ASSUME TickerAssumption ==
    /\ Slots \subseteq 1 .. MaxWall /\ Gaps \subseteq 1 .. MaxWall
    /\ Slots \cap Gaps = {}
    /\ {FireWindow, CallTimeout, MaxScan, MaxWall, MaxFileEvents} \subseteq Nat \ {0}
    /\ Apart

VARIABLES
    wall,       \* m.cfg.Now
    line,       \* the schedule in schedules.json, or Absent
    pinReady,   \* readyPins has the pin with the commit of the schedule
    item,       \* t.items[name], or Unknown
    calls,      \* goroutines that wait for the gateway
    gone,       \* history: what became of the slots since the item is known
    paused,     \* history: whether the core's pause stands, and the file was off since
    strayed,    \* history: the clock was set since the call was made whose end stands
    fileEvents

tickVars == <<wall, line, pinReady, item, calls, gone, paused, strayed, fileEvents>>

Absent == "absent"     \* also: unreadable, too large or invalid as a whole
Lines == {"enabled", "disabled", "external"}
TickerEnds == {"ok", "paused"}      \* classes of pauseReason
NewItem(at) == [cursor |-> at, lastFired |-> 0, pause |-> FALSE, pauseOff |-> FALSE,
                lastRun |-> 0, missed |-> 0]
Unknown == NewItem(-1)
NewCall(s) == [slot |-> s, left |-> CallTimeout, stepped |-> FALSE]
\* Slots fired, fired once more, counted as missed, passed by while the schedule
\* was not eligible, left out by maxScan; and whether the cursor went back.
NothingGone == [since |-> wall, fired |-> {}, again |-> {}, missed |-> {}, passed |-> {},
                skipped |-> {}, back |-> FALSE]
FileEvent == fileEvents < MaxFileEvents /\ fileEvents' = fileEvents + 1

TickerInit ==
    /\ wall = 0 /\ line \in Lines \cup {Absent} /\ pinReady \in BOOLEAN
    /\ item = Unknown /\ calls = {} /\ gone = NothingGone /\ paused = "no"
    /\ strayed = FALSE /\ fileEvents = 0

-----------------------------------------------------------------------------
\* The gateway rewrites the file, the pins change.
LineChanges ==
    /\ FileEvent /\ line' \in (Lines \cup {Absent}) \ {line}
    /\ UNCHANGED <<wall, pinReady, item, calls, gone, paused, strayed>>

PinChanges ==
    /\ FileEvent /\ pinReady' = ~pinReady
    /\ UNCHANGED <<wall, line, item, calls, gone, paused, strayed>>

\* The clock of the machine is set, back or ahead, or stood still while the
\* machine slept: no deadline of a call moves with it.
ClockIsSet ==
    /\ FileEvent /\ wall' \in (0 .. MaxWall) \ {wall}
    /\ calls' = {[c EXCEPT !.stepped = TRUE] : c \in calls} /\ strayed' = TRUE
    /\ UNCHANGED <<line, pinReady, item, gone, paused>>

\* Deviation: a call has no deadline.
OverdueNever == FALSE

\* triggerTimeout, by a clock that nobody sets: a call that has used its time
\* up returns before the next unit begins.
Overdue == \E c \in calls : c.left = 0

TimePasses ==
    /\ wall < MaxWall /\ ~Overdue
    /\ wall' = wall + 1
    /\ calls' = {[c EXCEPT !.left = Max({0, @ - 1})] : c \in calls}
    /\ UNCHANGED <<line, pinReady, item, gone, paused, strayed, fileEvents>>

-----------------------------------------------------------------------------

\* syncPause: the pause of the core ends when the schedule was disabled and is
\* enabled again.
SyncPause(it) ==
    IF ~it.pause THEN it
    ELSE IF line = "disabled" THEN [it EXCEPT !.pauseOff = TRUE]
    ELSE IF it.pauseOff THEN [it EXCEPT !.pause = FALSE, !.pauseOff = FALSE]
    ELSE it

Occurred(it) == {s \in Slots : it.cursor < s /\ s <= wall}
Eligible == line = "enabled" /\ pinReady

\* The loop ends after maxScan slots; the cursor goes to now all the same.
Scanned(it) == {s \in Occurred(it) : Cardinality({t \in Occurred(it) : t < s}) < MaxScan}

\* Deviation: a slot that was tried is tried again.
FiresAgain(it) == {s \in Scanned(it) : /\ Eligible
                                       /\ wall - s < FireWindow /\ \A t \in Occurred(it) : t <= s}
\* The youngest slot, if its window is open and it was not tried before.
Fires(it) == {s \in Scanned(it) : /\ Eligible /\ s > it.lastFired
                                  /\ wall - s < FireWindow /\ \A t \in Occurred(it) : t <= s}
Late(it) == {s \in Scanned(it) : Eligible /\ s > it.lastFired} \ Fires(it)
GapMisses(it) == {g \in Gaps : Eligible /\ it.cursor < g /\ g <= wall}

\* advance: the cursor goes where the clock is, back too: time.Now carries a
\* monotonic reading, and Before compares that.  An external schedule belongs
\* to its device.
Advance(it) ==
    IF line = "external" THEN [it EXCEPT !.cursor = wall]
    ELSE [it EXCEPT !.cursor = wall,
            !.missed = @ + Cardinality(Late(it)) + Cardinality(GapMisses(it)),
            !.lastFired = IF Fires(it) = {} THEN @ ELSE Max(Fires(it))]

After(it, g) ==
    [g EXCEPT !.fired = @ \cup Fires(it), !.again = @ \cup (g.fired \cap Fires(it)),
              !.missed = @ \cup Late(it) \cup GapMisses(it),
              !.passed = @ \cup IF Eligible THEN {} ELSE Occurred(it),
              !.skipped = @ \cup IF Eligible THEN Occurred(it) \ Scanned(it) ELSE {},
              !.back = @ \/ wall < it.cursor]

\* A schedule that is not in the file is forgotten, with its pause and counts.
Tick ==
    LET old == IF item = Unknown THEN NewItem(wall) ELSE item
        it == SyncPause(old)
        was == IF item = Unknown THEN NothingGone ELSE gone IN
    /\ IF line = Absent
       THEN item' = Unknown /\ gone' = NothingGone /\ paused' = "no" /\ UNCHANGED calls
       ELSE /\ item' = Advance(it) /\ gone' = After(it, was)
            /\ calls' = calls \cup {NewCall(s) : s \in Fires(it)}
            /\ paused' = CASE paused = "yes" /\ line = "disabled" -> "off"
                           [] paused = "off" /\ line # "disabled" -> "no"
                           [] OTHER -> paused
    /\ UNCHANGED <<wall, line, pinReady, strayed, fileEvents>>

\* Record, for an answer 200 that names an end.
Recorded(c, end) ==
    IF item = Unknown THEN UNCHANGED <<item, paused, strayed>>
    ELSE /\ item' = [item EXCEPT !.lastRun = c.slot, !.pause = end = "paused", !.pauseOff = FALSE]
         /\ paused' = IF end = "paused" THEN "yes" ELSE "no"
         /\ strayed' = c.stepped

\* fire returns: with an end, refused, failed, or because its time is up.
Answered(c) ==
    /\ calls' = calls \ {c}
    /\ \/ \E end \in TickerEnds : Recorded(c, end)
       \/ UNCHANGED <<item, paused, strayed>>
    /\ UNCHANGED <<wall, line, pinReady, gone, fileEvents>>

TickerNext == LineChanges \/ PinChanges \/ TimePasses \/ ClockIsSet \/ Tick \/ \E c \in calls : Answered(c)

TickerSpec == TickerInit /\ [][TickerNext]_tickVars
-----------------------------------------------------------------------------
\* As long as the schedule stays in the file, no slot is fired twice, wherever
\* the clock goes, and none that the clock has passed is forgotten.  While the
\* cursor did not go back, each was one of the four, and once: fired, counted
\* as missed, passed by for a schedule that was not eligible, or left out after
\* at least MaxScan others of which none was fired.
EverySlotOnce ==
    item # Unknown =>
       LET g == gone
           all == g.fired \cup g.missed \cup g.passed \cup g.skipped
           due == {s \in Slots : g.since < s /\ s <= item.cursor} IN
       /\ g.again = {} /\ due \subseteq all
       /\ ~g.back =>
            /\ due = all \ Gaps /\ item.missed = Cardinality(g.missed)
            /\ g.fired \cap (g.missed \cup g.passed \cup g.skipped) = {}
            /\ g.missed \cap (g.passed \cup g.skipped) = {} /\ g.passed \cap g.skipped = {}
            /\ \A s \in g.skipped : Cardinality({t \in due \ g.fired : t < s}) >= MaxScan

\* A pause of the core stands until the core has disabled the schedule and
\* enabled it again, or has run it.
PauseLasts == item # Unknown => (item.pause <=> paused # "no")

\* Both: the record of a schedule that is in the file is the truth about its
\* slots and about its pause.
TickerKeeps == EverySlotOnce /\ PauseLasts

\* Record does not compare slots.  The answer of an earlier slot replaces that
\* of a later one only if the clock was set since one of their two calls was
\* made: otherwise a call ends before the next slot can begin.
LatestAnswerCounts ==
    [][item # Unknown /\ item' # Unknown /\ item'.lastRun < item.lastRun => strayed \/ strayed']_tickVars
=============================================================================
