---------------------------- MODULE AccessPoints ----------------------------
(***************************************************************************)
(* The access points as Home Assistant sees them: the coordinator's poll   *)
(* (GETAPLIST, then one GETAPINFO per point), the events that patch what   *)
(* the poll read, the refresh after LINK_RESTORED, the optimistic patch of *)
(* set_mode, and the announcement of new points to the entity platforms.   *)
(*                                                                         *)
(* OifConnection serialises commands: at most one is between its request   *)
(* and its reply, and whoever sent it handles the reply before the next    *)
(* command is sent.  The server answers for the moment it is asked.  The   *)
(* event queue is filled and emptied independently of that.                *)
(***************************************************************************)
EXTENDS Integers, Sequences, FiniteSets, SequencesExt

CONSTANTS
    Points,         \* access points of the server, at one time or another
    InitialPoints,  \* those it has when the entry is set up
    Selected,       \* those the options include
    Modes,          \* ApMode
    Absent,         \* no such point on the server; no `info` in the hub
    QueueSize,      \* _EVENT_QUEUE_SIZE
    MaxChanges,     \* bound: changes of the server's points
    MaxDrops,       \* bound: times the event connection drops
    MaxFailures     \* bound: commands that fail

ASSUME PointsAssumption ==
    /\ InitialPoints \subseteq Points /\ Selected \subseteq Points
    /\ IsFiniteSet(Points)
ASSUME ValuesAssumption == "OFFLINE" \notin Modes /\ QueueSize \in Nat \ {0}
ASSUME BoundsAssumption == MaxChanges \in Nat /\ MaxDrops \in Nat /\ MaxFailures \in Nat

VARIABLES
    truth,         \* what the server knows of each point
    live,          \* the event subscription is live
    queue,         \* events pushed and not processed
    missed,        \* events that occurred while the subscription was down
    known,         \* the keys of self.access_points, in their order
    info,          \* AccessPointState.info
    available,     \* AccessPointState.available
    pollAt,        \* where the poll is
    next,          \* the point of `known` it asks about next
    added,         \* points this poll has discovered
    refreshing,    \* _async_refresh_one tasks of each point
    command,       \* the command in flight, with the server's reply
    announcements, \* how often a point was given to the entity platforms
    forgotten,     \* history: points whose discovering poll an exception ended
    changes, drops, failures   \* count towards the bounds

serverVars == <<truth, changes>>
eventVars == <<live, queue, missed, drops>>
stateVars == <<info, available>>
pollVars == <<known, pollAt, next, added, announcements, forgotten>>
vars == <<serverVars, eventVars, stateVars, pollVars, refreshing, command, failures>>

Info == [state : Modes \cup {"OFFLINE"}, door : {"OPENED", "CLOSED"}]
Event == [point : Points, field : {"door"}, value : {"OPENED", "CLOSED"}]
         \cup [point : Points, field : {"state"}, value : Modes \cup {"OFFLINE"}]
         \cup [point : Points, field : {"restored", "nothing"}]
NoCommand == [by |-> "nobody"]

Online(p) == truth[p] # Absent /\ truth[p].state # "OFFLINE"

Init ==
    /\ truth \in [Points -> Info \cup {Absent}]
    /\ \A p \in Points : truth[p] # Absent <=> p \in InitialPoints
    /\ live = TRUE
    /\ queue = <<>>
    /\ missed = <<>>
    /\ known = SetToSeq(InitialPoints \cap Selected)
    /\ info = [p \in Points |-> IF p \in InitialPoints \cap Selected THEN truth[p] ELSE Absent]
    /\ available = [p \in Points |-> TRUE]
    /\ pollAt = "idle"
    /\ next = 1
    /\ added = {}
    /\ refreshing = [p \in Points |-> 0]
    /\ command = NoCommand
    /\ announcements = [p \in Points |-> IF p \in InitialPoints \cap Selected THEN 1 ELSE 0]
    /\ forgotten = {}
    /\ changes = 0
    /\ drops = 0
    /\ failures = 0

------------------------------------------------------------------------------
(* The server and its events *)

\* Faulty variant: the queue has no limit.
QueuedWithoutLimit(events) == queue \o events

\* put_nowait for each event; a full queue refuses the newest (_on_raw_event).
Queued(events) ==
    LET all == queue \o events
    IN  SubSeq(all, 1, IF Len(all) <= QueueSize THEN Len(all) ELSE QueueSize)

Push(events) ==
    IF live
    THEN /\ queue' = Queued(events)
         /\ UNCHANGED missed
    ELSE /\ missed' = missed \o events
         /\ UNCHANGED queue

Change(p, value, events) ==
    /\ changes < MaxChanges
    /\ changes' = changes + 1
    /\ truth' = [truth EXCEPT ![p] = value]
    /\ Push(events)
    /\ UNCHANGED <<live, drops, stateVars, pollVars, refreshing, command, failures>>

Patched(p, field, value) == [truth[p] EXCEPT ![field] = value]
Patch(p, field, value) == [point |-> p, field |-> field, value |-> value]

DoorMoves(p) ==
    /\ Online(p)
    /\ LET door == IF truth[p].door = "OPENED" THEN "CLOSED" ELSE "OPENED"
       IN  Change(p, Patched(p, "door", door), <<Patch(p, "door", door)>>)

LinkLost(p) ==
    /\ Online(p)
    /\ Change(p, Patched(p, "state", "OFFLINE"), <<Patch(p, "state", "OFFLINE")>>)

LinkRestored(p) ==
    /\ truth[p] # Absent /\ ~Online(p)
    /\ \E m \in Modes :
          Change(p, Patched(p, "state", m), <<[point |-> p, field |-> "restored"]>>)

ModeChanges(p) ==
    /\ Online(p)
    /\ \E m \in Modes \ {truth[p].state} :
          Change(p, Patched(p, "state", m), <<Patch(p, "state", m)>>)

PointRemoved(p) == truth[p] # Absent /\ Change(p, Absent, <<>>)

PointAdded(p) ==
    /\ truth[p] = Absent
    /\ \E value \in Info : Change(p, value, <<>>)

EventsDrop ==
    /\ live /\ drops < MaxDrops
    /\ live' = FALSE
    /\ drops' = drops + 1
    /\ UNCHANGED <<serverVars, queue, missed, stateVars, pollVars, refreshing, command,
                   failures>>

EventsResume ==
    /\ ~live
    /\ live' = TRUE
    /\ UNCHANGED <<serverVars, queue, missed, drops, stateVars, pollVars, refreshing,
                   command, failures>>

\* The history joins the queue behind what was pushed since the subscription, or
\* there is no backfill.  Its events have no code, so none of them tells a mode.
FromHistory(e) ==
    IF e.field = "state" /\ e.value \in Modes
    THEN [point |-> e.point, field |-> "nothing"] ELSE e
MissedArrive ==
    /\ live /\ missed # <<>>
    /\ queue' \in {queue, Queued([i \in DOMAIN missed |-> FromHistory(missed[i])])}
    /\ missed' = <<>>
    /\ UNCHANGED <<serverVars, live, drops, stateVars, pollVars, refreshing, command,
                   failures>>

------------------------------------------------------------------------------
(* _apply_event_to_state *)

ProcessEvent ==
    /\ queue # <<>>
    /\ queue' = Tail(queue)
    /\ LET e == Head(queue)
       IN  IF info[e.point] = Absent \/ e.field = "nothing"
           THEN UNCHANGED <<info, refreshing>>
           ELSE IF e.field = "restored"
           THEN /\ refreshing' = [refreshing EXCEPT ![e.point] = @ + 1]
                /\ UNCHANGED info
           ELSE /\ info' = [info EXCEPT ![e.point][e.field] = e.value]
                /\ UNCHANGED refreshing
    /\ UNCHANGED <<serverVars, live, missed, drops, available, pollVars, command, failures>>

------------------------------------------------------------------------------
(* async_poll *)

Send(by, points, reply) ==
    /\ command = NoCommand
    /\ command' = [by |-> by, points |-> points, reply |-> reply]

Replied(by) == command.by = by
Fails == failures < MaxFailures /\ failures' = failures + 1

\* GETAPLIST is sent.
PollBegins ==
    /\ pollAt = "idle"
    /\ Send("list", {}, {p \in Points : truth[p] # Absent})
    /\ pollAt' = "list"
    /\ UNCHANGED <<serverVars, eventVars, stateVars, known, next, added, announcements,
                   forgotten, refreshing, failures>>

\* Faulty variant: every point of the list is new.
ListedAsNew(listed) == listed \cap Selected

\* Points the options include and access_points lacks.
Discovered(listed) == (listed \cap Selected) \ ToSet(known)

\* The poll is over: the points it discovered are announced, those included whose
\* GETAPINFO failed and that have no `info` yet.
Finish ==
    /\ pollAt' = "idle"
    /\ added' = {}
    /\ announcements' = [p \in Points |-> announcements[p] + IF p \in added THEN 1 ELSE 0]

\* _async_refresh_access_point_list.  A server without points leaves nothing to ask.
ListArrives ==
    /\ pollAt = "list" /\ Replied("list")
    /\ LET listed == command.reply
       IN  /\ added' = Discovered(listed)
           /\ known' = known \o SetToSeq(Discovered(listed))
           /\ available' = [p \in Points |-> available[p] /\ (p \in ToSet(known) => p \in listed)]
    /\ pollAt' = IF known' = <<>> THEN "idle" ELSE "points"
    /\ next' = 1
    /\ command' = NoCommand
    /\ UNCHANGED <<serverVars, eventVars, info, announcements, forgotten,
                   refreshing, failures>>

\* GETAPINFO for the next point is sent.
PollAsks ==
    /\ pollAt = "points"
    /\ Send("poll", {known[next]}, truth[known[next]])
    /\ UNCHANGED <<serverVars, eventVars, stateVars, pollVars, refreshing, failures>>

\* The poll goes on to the next point, or is over.
Advance ==
    /\ next' = next + 1
    /\ IF next = Len(known) THEN Finish
       ELSE UNCHANGED <<pollAt, added, announcements>>
    /\ UNCHANGED <<known, forgotten>>

\* Faulty variant: a point that is back stays unavailable.
TakeInfoQuietly(p, reply) ==
    /\ info' = [info EXCEPT ![p] = reply]
    /\ UNCHANGED available

TakeInfo(p, reply) ==
    /\ info' = [info EXCEPT ![p] = reply]
    /\ available' = [available EXCEPT ![p] = TRUE]

\* GETAPINFO is answered; ERROR 10 says that there is no such point.
PollAnswered ==
    /\ pollAt = "points" /\ Replied("poll")
    /\ LET p == known[next]
       IN  IF command.reply = Absent
           THEN available' = [available EXCEPT ![p] = FALSE] /\ UNCHANGED info
           ELSE TakeInfo(p, command.reply)
    /\ Advance
    /\ command' = NoCommand
    /\ UNCHANGED <<serverVars, eventVars, refreshing, failures>>

\* Faulty variant: the first point that fails ends the poll.
PointFailsForAll ==
    /\ pollAt = "points" /\ Replied("poll") /\ Fails
    /\ available' = [available EXCEPT ![known[next]] = FALSE]
    /\ pollAt' = "idle" /\ added' = {}
    /\ command' = NoCommand
    /\ UNCHANGED <<serverVars, eventVars, info, known, next, announcements, forgotten,
                   refreshing>>

\* Any other SigurError is tolerated for one point.
PointFails ==
    /\ pollAt = "points" /\ Replied("poll") /\ Fails
    /\ available' = [available EXCEPT ![known[next]] = FALSE]
    /\ UNCHANGED info
    /\ Advance
    /\ command' = NoCommand
    /\ UNCHANGED <<serverVars, eventVars, refreshing>>

\* The command session is lost, or GETAPLIST fails: the exception leaves async_poll.
PollFails ==
    /\ pollAt # "idle" /\ Fails
    /\ pollAt' = "idle"
    /\ forgotten' = forgotten \cup added
    /\ added' = {}
    /\ command' = IF command.by \in {"list", "poll"} THEN NoCommand ELSE command
    /\ UNCHANGED <<serverVars, eventVars, stateVars, known, next, announcements,
                   refreshing>>

------------------------------------------------------------------------------
(* _async_refresh_one *)

RefreshAsks(p) ==
    /\ refreshing[p] > 0
    /\ Send("refresh", {p}, truth[p])
    /\ UNCHANGED <<serverVars, eventVars, stateVars, pollVars, refreshing, failures>>

RefreshEnds ==
    /\ Replied("refresh")
    /\ \E p \in command.points : refreshing' = [refreshing EXCEPT ![p] = @ - 1]
    /\ command' = NoCommand

RefreshAnswered ==
    /\ RefreshEnds
    /\ IF command.reply = Absent
       THEN UNCHANGED stateVars
       ELSE \A p \in command.points : TakeInfo(p, command.reply)
    /\ UNCHANGED <<serverVars, eventVars, pollVars, failures>>

RefreshFails ==
    /\ RefreshEnds /\ Fails
    /\ UNCHANGED <<serverVars, eventVars, stateVars, pollVars>>

------------------------------------------------------------------------------
(* async_set_mode *)

\* SETAPMODE is refused when a point is missing, and leaves offline ones alone.
SetMode ==
    /\ changes < MaxChanges
    /\ \E points \in SUBSET ToSet(known) \ {{}}, m \in Modes :
          LET accepted == \A p \in points : truth[p] # Absent
              moved == {p \in points : accepted /\ Online(p) /\ truth[p].state # m}
          IN  /\ Send("mode", points, IF accepted THEN m ELSE Absent)
              /\ truth' = [p \in Points |-> IF p \in moved THEN Patched(p, "state", m)
                                            ELSE truth[p]]
              /\ Push(SetToSeq({Patch(p, "state", m) : p \in moved}))
    /\ changes' = changes + 1
    /\ UNCHANGED <<live, drops, stateVars, pollVars, refreshing, failures>>

\* OK: the points the hub believes to be online are patched.
ModeAnswered ==
    /\ Replied("mode")
    /\ info' = [p \in Points |->
                  IF p \in command.points /\ command.reply # Absent
                     /\ info[p] # Absent /\ info[p].state # "OFFLINE"
                  THEN [info[p] EXCEPT !.state = command.reply] ELSE info[p]]
    /\ command' = NoCommand
    /\ UNCHANGED <<serverVars, eventVars, available, pollVars, refreshing, failures>>

ModeFails ==
    /\ Replied("mode") /\ Fails
    /\ command' = NoCommand
    /\ UNCHANGED <<serverVars, eventVars, stateVars, pollVars, refreshing>>

------------------------------------------------------------------------------

Server == \E p \in Points :
    \/ DoorMoves(p) \/ LinkLost(p) \/ LinkRestored(p) \/ ModeChanges(p)
    \/ PointRemoved(p) \/ PointAdded(p)
Events == EventsDrop \/ EventsResume \/ MissedArrive \/ ProcessEvent
Poll == PollBegins \/ ListArrives \/ PollAsks \/ PollAnswered \/ PointFails \/ PollFails
Refresh == (\E p \in Points : RefreshAsks(p)) \/ RefreshAnswered \/ RefreshFails
Control == SetMode \/ ModeAnswered \/ ModeFails

Next == Server \/ Events \/ Poll \/ Refresh \/ Control

Spec == Init /\ [][Next]_vars

\* The coordinator polls again and again, the worker goes on, every command ends
\* (OifConnection!CallsReturn) and the supervisor subscribes again.
Fairness ==
    /\ WF_vars(Poll) /\ WF_vars(Refresh) /\ WF_vars(ModeAnswered \/ ModeFails)
    /\ WF_vars(ProcessEvent) /\ WF_vars(EventsResume) /\ WF_vars(MissedArrive)

FairSpec == Spec /\ Fairness

------------------------------------------------------------------------------
(* Properties *)

TypeOK ==
    /\ truth \in [Points -> Info \cup {Absent}]
    /\ live \in BOOLEAN
    /\ queue \in Seq(Event) /\ Len(queue) <= QueueSize
    /\ missed \in Seq(Event)
    /\ known \in Seq(Selected)
    /\ info \in [Points -> Info \cup {Absent}]
    /\ available \in [Points -> BOOLEAN]
    /\ pollAt \in {"idle", "list", "points"}
    /\ next \in Nat \ {0}
    /\ added \subseteq ToSet(known)
    /\ refreshing \in [Points -> Nat]
    /\ command = NoCommand \/ command.by \in {"list", "poll", "refresh", "mode"}
    /\ announcements \in [Points -> Nat]
    /\ forgotten \subseteq Selected
    /\ changes \in Nat /\ drops \in Nat /\ failures \in Nat

\* A point is given to the entity platforms once, over any number of polls that
\* fail half-way and of removals from the server: a second announcement would
\* create its entities twice (async_poll, _async_refresh_access_point_list).
AnnouncedOnce ==
    /\ \A p \in Points : announcements[p] <= 1
    /\ \A i, j \in DOMAIN known : known[i] = known[j] => i = j

\* What the hub shows of the points it knows is what the server has.
Agrees ==
    \A p \in ToSet(known) :
        IF truth[p] = Absent THEN ~available[p]
        ELSE available[p] /\ info[p] = truth[p]

\* coordinator.py's promise that polling is the safety net: once the server's
\* points stop changing, the hub ends up showing them as they are and goes on doing
\* so, whatever stale replies, reordered or lost events and optimistic patches came
\* before.
Converges == <>[]Agrees

\* Once the server's points stop changing, each of them that is selected has been
\* announced, even when the GETAPINFO of some of them, or its own, failed in the
\* poll that discovered it (async_poll); unless an exception ended that poll, after
\* which no later one takes the point for new.
NewPointsAppear ==
    <>[](\A p \in Selected :
            truth[p] # Absent => announcements[p] = 1 \/ p \in forgotten)
=============================================================================
