---------------------------- MODULE EventPipeline ----------------------------
(***************************************************************************)
(* runtime.py's event pipeline: the bounded queue between the reader and   *)
(* the event worker, the fingerprint window that removes duplicates, the   *)
(* GETHISTORY backfill after every (re)subscription, and the last event    *)
(* time that is kept in memory, persisted and read back after a restart.   *)
(*                                                                         *)
(* An event is the number of its position in `log`, the server's history.  *)
(* Its time has one second resolution, like the protocol.  `kind` stands   *)
(* for the other fingerprint fields (category, access point, object,       *)
(* direction, masked key), alike in both forms of the event                *)
(* (Protocol!TwinsAgree), and for what GETHISTORY does with the event: it  *)
(* answers passes and denials, may answer kinds the parser does not know,  *)
(* and never answers what only SUBSCRIBE reports (doors, links, modes).    *)
(***************************************************************************)
EXTENDS Integers, Sequences, FiniteSets, SequencesExt

CONSTANTS
    ClassicKinds,       \* kinds of event in a history that the parser knows
    UndocumentedKinds,  \* kinds of event in a history that it does not know
    LiveKinds,          \* kinds of event that are never in a history
    QueueSize,          \* _EVENT_QUEUE_SIZE
    DedupWindow,        \* DEDUP_WINDOW
    BackfillSeconds,    \* the backfill_hours option
    EnableBackfill,     \* the enable_backfill option
    BackfillOnFirstStart,  \* the backfill_on_first_start option
    MaxEvents,          \* bound: events that ever occur
    MaxOthers,          \* bound: those of them that are not of ClassicKinds
    MaxTime,            \* bound: seconds that ever pass
    MaxDrops,           \* bound: times the event connection drops
    MaxRestarts,        \* bound: times the entry is reloaded or the host dies
    MaxFailures         \* bound: GETHISTORY commands and name lookups that fail

ASSUME KindsAssumption ==
    /\ ClassicKinds \cap (UndocumentedKinds \cup LiveKinds) = {}
    /\ UndocumentedKinds \cap LiveKinds = {}
ASSUME SizesAssumption ==
    /\ QueueSize \in Nat \ {0}
    /\ DedupWindow \in Nat \ {0}
    /\ BackfillSeconds \in Nat
    /\ EnableBackfill \in BOOLEAN
    /\ BackfillOnFirstStart \in BOOLEAN
ASSUME BoundsAssumption ==
    /\ MaxEvents \in Nat /\ MaxOthers \in Nat /\ MaxTime \in Nat /\ MaxDrops \in Nat
    /\ MaxRestarts \in Nat /\ MaxFailures \in Nat

VARIABLES
    clock,            \* the current second
    log,              \* every event that has occurred, in order
    live,             \* the event connection is subscribed
    wire,             \* events pushed on it and not read yet
    queue,            \* _event_queue
    working,          \* the event the worker has taken, 0 when it waits
    fingerprints,     \* the deque _fingerprints
    fingerprintSet,   \* _fingerprint_set
    lastEventAt,      \* last_event_at, 0 for None
    stored,           \* last_event_at in the Store
    phase,            \* where the event supervisor is
    hadConnection,    \* self._event_connection is not None
    window,           \* the backfill request in flight, or the last one that was
                      \* answered while the same subscription is live
    published,        \* <<event, run>> for every event fired on the bus
    run,              \* counts the restarts
    lost,             \* events nothing will deliver unless a backfill does
    dropped,          \* events the pipeline gave up: the queue was full, or
                      \* processing them raised
    merged,           \* events taken for a duplicate
    drops, failures   \* count towards MaxDrops and MaxFailures

serverVars == <<clock, log>>
linkVars == <<live, wire, lost, drops>>
workerVars == <<working, fingerprints, fingerprintSet, lastEventAt, published, merged>>
supervisorVars == <<phase, hadConnection, window>>
vars == <<serverVars, linkVars, queue, dropped, workerVars, supervisorVars, stored,
          run, failures>>

------------------------------------------------------------------------------
(* Data *)

Kinds == ClassicKinds \cup UndocumentedKinds \cup LiveKinds
EventIds == 1 .. Len(log)
At(e) == log[e].at
Window == [from : Int, till : Nat]
NoWindow == [from |-> 0, till |-> 0]

\* SigurEvent.fingerprint
Fingerprint(e) == <<log[e].at, log[e].kind>>

Init ==
    /\ clock = 1
    /\ log = <<>>
    /\ live = FALSE
    /\ wire = <<>>
    /\ queue = <<>>
    /\ working = 0
    /\ fingerprints = <<>>
    /\ fingerprintSet = {}
    /\ lastEventAt = 0
    /\ stored = 0
    /\ phase = "down"
    /\ hadConnection = FALSE
    /\ window = NoWindow
    /\ published = <<>>
    /\ run = 0
    /\ lost = {}
    /\ dropped = {}
    /\ merged = {}
    /\ drops = 0
    /\ failures = 0

------------------------------------------------------------------------------
(* The server *)

Tick ==
    /\ clock < MaxTime
    /\ clock' = clock + 1
    /\ UNCHANGED <<log, linkVars, queue, dropped, workerVars, supervisorVars, stored,
                   run, failures>>

\* Bound: the last event, with none behind it in a history, is of a classic kind.
OtherMayOccur ==
    /\ Len(log) + 1 < MaxEvents
    /\ Cardinality({e \in EventIds : log[e].kind \notin ClassicKinds}) < MaxOthers

\* An event occurs; it is pushed when the subscription is live.
Occur ==
    /\ Len(log) < MaxEvents
    /\ \E k \in Kinds :
          /\ k \in ClassicKinds \/ OtherMayOccur
          /\ log' = Append(log, [at |-> clock, kind |-> k])
    /\ IF live
       THEN wire' = Append(wire, Len(log) + 1) /\ UNCHANGED lost
       ELSE lost' = lost \cup {Len(log) + 1} /\ UNCHANGED wire
    /\ UNCHANGED <<clock, live, drops, queue, dropped, workerVars, supervisorVars,
                   stored, run, failures>>

\* The event connection is lost with what the reader has not read.
Drop ==
    /\ live /\ drops < MaxDrops
    /\ live' = FALSE
    /\ drops' = drops + 1
    /\ wire' = <<>>
    /\ lost' = lost \cup ToSet(wire)
    /\ window' = IF phase = "asking" THEN window ELSE NoWindow
    /\ UNCHANGED <<serverVars, queue, dropped, workerVars, phase, hadConnection,
                   stored, run, failures>>

------------------------------------------------------------------------------
(* _on_raw_event and the event worker *)

\* Faulty variant: the queue makes room by forgetting its oldest events.
EnqueueDroppingOldest(events) ==
    LET all == queue \o events
        over == IF Len(all) > QueueSize THEN Len(all) - QueueSize ELSE 0
    IN  queue' = SubSeq(all, over + 1, Len(all)) /\ UNCHANGED dropped

\* put_nowait for each event in turn; a full queue refuses the newest.
Room == QueueSize - Len(queue)
Enqueue(events) ==
    LET taken == IF Len(events) <= Room THEN Len(events) ELSE Room
    IN  /\ queue' = queue \o SubSeq(events, 1, taken)
        /\ dropped' = dropped \cup ToSet(SubSeq(events, taken + 1, Len(events)))

ReadEvent ==
    /\ live /\ wire # <<>>
    /\ Enqueue(<<Head(wire)>>)
    /\ wire' = Tail(wire)
    /\ UNCHANGED <<serverVars, live, lost, drops, workerVars, supervisorVars, stored,
                   run, failures>>

\* Faulty variant: the fingerprint is recorded before the name lookup.
TakeAndRemember ==
    /\ phase # "stopped"
    /\ working = 0 /\ queue # <<>>
    /\ working' = Head(queue)
    /\ queue' = Tail(queue)
    /\ fingerprints' = Append(fingerprints, Fingerprint(Head(queue)))
    /\ fingerprintSet' = fingerprintSet \cup {Fingerprint(Head(queue))}
    /\ UNCHANGED <<serverVars, linkVars, dropped, lastEventAt, published, merged,
                   supervisorVars, stored, run, failures>>

\* The worker takes an event and, with resolve_object_names, awaits its name.
\* (Without that option Process follows at once.)
TakeEvent ==
    /\ phase # "stopped"
    /\ working = 0 /\ queue # <<>>
    /\ working' = Head(queue)
    /\ queue' = Tail(queue)
    /\ UNCHANGED <<serverVars, linkVars, dropped, fingerprints, fingerprintSet,
                   lastEventAt, published, merged, supervisorVars, stored, run, failures>>

RememberEvictingNewest(f) ==
    LET full == Len(fingerprints) = DedupWindow
    IN  /\ fingerprints' = Append(IF full THEN Front(fingerprints) ELSE fingerprints, f)
        /\ fingerprintSet' = (IF full THEN fingerprintSet \ {Last(fingerprints)}
                              ELSE fingerprintSet) \cup {f}

\* _remember: the oldest fingerprint leaves the set as the deque pushes it out.
Remember(f) ==
    LET full == Len(fingerprints) = DedupWindow
        oldest == IF full THEN {fingerprints[1]} ELSE {}
    IN  /\ fingerprints' = Append(IF full THEN Tail(fingerprints) ELSE fingerprints, f)
        /\ fingerprintSet' = (fingerprintSet \ oldest) \cup {f}

\* Faulty variant: an older event moves last_event_at back.
FirstOf(a, b) == a

LaterOf(a, b) == IF a > b THEN a ELSE b

\* _async_process_event after the name lookup.
Process ==
    LET e == working
    IN  /\ phase # "stopped"
        /\ e > 0
        /\ working' = 0
        /\ \/ /\ Fingerprint(e) \in fingerprintSet
              /\ merged' = merged \cup {e}
              /\ UNCHANGED <<fingerprints, fingerprintSet, lastEventAt, published>>
           \/ /\ Fingerprint(e) \notin fingerprintSet
              /\ Remember(Fingerprint(e))
              /\ lastEventAt' = LaterOf(At(e), lastEventAt)
              /\ published' = Append(published, <<e, run>>)
              /\ UNCHANGED merged
        /\ UNCHANGED <<serverVars, linkVars, queue, dropped, supervisorVars, stored,
                       run, failures>>

\* Faulty variant: the exception ends the worker.
ProcessRaisesForGood ==
    /\ phase # "stopped"
    /\ working > 0 /\ failures < MaxFailures
    /\ working' = -1
    /\ failures' = failures + 1
    /\ dropped' = dropped \cup {working}
    /\ UNCHANGED <<serverVars, linkVars, queue, fingerprints, fingerprintSet,
                   lastEventAt, published, merged, supervisorVars, stored, run>>

\* The lookup raised something else than a SigurError (a reconnection refused by
\* Home Assistant's ConfigEntryNotReady): the worker logs it and goes on.
ProcessRaises ==
    /\ phase # "stopped"
    /\ working # 0 /\ failures < MaxFailures
    /\ working' = 0
    /\ failures' = failures + 1
    /\ dropped' = dropped \cup {working}
    /\ UNCHANGED <<serverVars, linkVars, queue, fingerprints, fingerprintSet,
                   lastEventAt, published, merged, supervisorVars, stored, run>>

------------------------------------------------------------------------------
(* The event supervisor and _async_backfill *)

\* The part of _async_backfill before its first await.  The history request is
\* for whole seconds; `now` lies inside the current second, so it is never
\* before the start of the window.
StartBackfill(from) ==
    IF ~EnableBackfill
    THEN phase' = "watching" /\ UNCHANGED <<lastEventAt, window>>
    ELSE IF lastEventAt = 0 /\ ~BackfillOnFirstStart
    THEN /\ phase' = "watching"
         /\ lastEventAt' = clock
         /\ UNCHANGED window
    ELSE /\ phase' = "asking"
         /\ window' = [from |-> from, till |-> clock]
         /\ UNCHANGED lastEventAt

\* max(last_event_at or window_start, window_start)
WindowStart == LaterOf(lastEventAt, clock - BackfillSeconds)

\* _async_open_event_connection returns from SUBSCRIBE.  On a reconnection it
\* still awaits the close of the previous connection; otherwise it goes straight
\* on to the backfill.
Subscribe ==
    /\ phase = "down" /\ ~live
    /\ live' = TRUE
    /\ IF hadConnection
       THEN phase' = "swapping" /\ UNCHANGED <<lastEventAt, window>>
       ELSE StartBackfill(WindowStart)
    /\ hadConnection' = TRUE
    /\ UNCHANGED <<serverVars, wire, lost, drops, queue, dropped, working, fingerprints,
                   fingerprintSet, published, merged, stored, run, failures>>

Swapped ==
    /\ phase = "swapping"
    /\ StartBackfill(WindowStart)
    /\ UNCHANGED <<serverVars, linkVars, queue, dropped, working, fingerprints,
                   fingerprintSet, published, merged, hadConnection, stored, run,
                   failures>>

\* Faulty variant: the second the window starts in is left out.
InWindowButStart(e) == window.from < At(e) /\ At(e) <= window.till

InWindow(e) == window.from <= At(e) /\ At(e) <= window.till

\* What GETHISTORY returns, and what parse_history makes of it: it stops after the
\* first event of a kind it does not know, whose fields it cannot skip.
Returned == {e \in EventIds : InWindow(e) /\ log[e].kind \notin LiveKinds}
Parsed ==
    {e \in Returned : \A u \in Returned : u < e => log[u].kind \notin UndocumentedKinds}

\* The events join the queue in the order of the history, and last_event_at, as it
\* is now, is persisted.
HistoryAnswers ==
    /\ phase = "asking"
    /\ \E history \in [1 .. Cardinality(Parsed) -> Parsed] :
          /\ ToSet(history) = Parsed
          /\ \A i, j \in DOMAIN history : i < j => history[i] < history[j]
          /\ Enqueue(history)
    /\ lost' = lost \ Parsed
    /\ stored' = lastEventAt
    /\ phase' = "watching"
    /\ window' = IF live THEN window ELSE NoWindow
    /\ UNCHANGED <<serverVars, live, wire, drops, workerVars, hadConnection, run, failures>>

HistoryFails ==
    /\ phase = "asking" /\ failures < MaxFailures
    /\ failures' = failures + 1
    /\ phase' = "watching"
    /\ window' = NoWindow
    /\ UNCHANGED <<serverVars, linkVars, queue, dropped, workerVars, hadConnection,
                   stored, run>>

\* Reconnecting the command connection raised Home Assistant's ConfigEntryNotReady
\* or ConfigEntryAuthFailed, which is not a SigurError: the supervisor task ends.
HistoryRaises ==
    /\ phase = "asking" /\ failures < MaxFailures
    /\ failures' = failures + 1
    /\ phase' = "ended"
    /\ window' = NoWindow
    /\ UNCHANGED <<serverVars, linkVars, queue, dropped, workerVars, hadConnection,
                   stored, run>>

\* wait_disconnected() wakes the supervisor.
NoticeDrop ==
    /\ phase = "watching" /\ ~live
    /\ phase' = "down"
    /\ UNCHANGED <<serverVars, linkVars, queue, dropped, workerVars, hadConnection,
                   window, stored, run, failures>>

------------------------------------------------------------------------------
(* Unloading, dying and starting again *)

\* What is on the wire, in the queue or with the worker dies with the hub.
Stop ==
    /\ phase # "stopped" /\ run < MaxRestarts
    /\ phase' = "stopped"
    /\ live' = FALSE
    /\ wire' = <<>>
    /\ queue' = <<>>
    /\ working' = 0
    /\ window' = NoWindow
    /\ lost' = lost \cup ToSet(wire) \cup ToSet(queue) \cup ({working} \ {0})
    /\ UNCHANGED <<serverVars, drops, dropped, fingerprints, fingerprintSet, lastEventAt,
                   published, merged, hadConnection, run, failures>>

\* async_shutdown persists last_event_at; a crash does not.
Shutdown == Stop /\ stored' = lastEventAt
Crash == Stop /\ UNCHANGED stored

\* A new hub: nothing is remembered but the stored time.
Start ==
    /\ phase = "stopped"
    /\ phase' = "down"
    /\ run' = run + 1
    /\ lastEventAt' = stored
    /\ fingerprints' = <<>>
    /\ fingerprintSet' = {}
    /\ hadConnection' = FALSE
    /\ UNCHANGED <<serverVars, linkVars, queue, dropped, working, published, merged,
                   window, stored, failures>>

------------------------------------------------------------------------------

Server == Tick \/ Occur \/ Drop
Worker == TakeEvent \/ Process \/ ProcessRaises
Supervisor == Subscribe \/ Swapped \/ HistoryAnswers
              \/ HistoryFails \/ HistoryRaises \/ NoticeDrop
Restarts == Shutdown \/ Crash \/ Start

Next == Server \/ ReadEvent \/ Worker \/ Supervisor \/ Restarts

Spec == Init /\ [][Next]_vars

\* The event loop runs the reader and the worker; a name lookup ends because
\* every command does (OifConnection!CallsReturn).
Fairness == WF_vars(ReadEvent) /\ WF_vars(Worker)

FairSpec == Spec /\ Fairness

------------------------------------------------------------------------------
(* Properties *)

TypeOK ==
    /\ clock \in Nat
    /\ log \in Seq([at : Nat, kind : Kinds])
    /\ live \in BOOLEAN
    /\ wire \in Seq(EventIds)
    /\ queue \in Seq(EventIds) /\ Len(queue) <= QueueSize
    /\ working \in EventIds \cup {0}
    /\ fingerprints \in Seq(Nat \X Kinds)
    /\ fingerprintSet \subseteq Nat \X Kinds
    /\ lastEventAt \in Nat
    /\ stored \in Nat
    /\ phase \in {"down", "swapping", "asking", "watching", "ended", "stopped"}
    /\ hadConnection \in BOOLEAN
    /\ window \in Window
    /\ published \in Seq(EventIds \X Nat)
    /\ run \in Nat
    /\ lost \subseteq EventIds /\ dropped \subseteq EventIds /\ merged \subseteq EventIds
    /\ drops \in Nat /\ failures \in Nat

\* The set and the deque of _remember always hold the same fingerprints, each
\* once, and never more than the window.
WindowConsistent ==
    /\ fingerprintSet = ToSet(fingerprints)
    /\ \A i, j \in 1 .. Len(fingerprints) :
          fingerprints[i] = fingerprints[j] => i = j
    /\ Len(fingerprints) <= DedupWindow

\* Within a run, two events with one fingerprint are never both published unless
\* more than DEDUP_WINDOW others were published between them, whichever way each
\* of them came (_async_process_event).
NoReplayInWindow ==
    \A i, j \in 1 .. Len(published) :
        /\ i < j /\ j - i <= DedupWindow
        /\ published[i][2] = published[j][2]
        => Fingerprint(published[i][1]) # Fingerprint(published[j][1])

\* An event is only taken for a duplicate when one like it was published, even
\* when name lookups fail and backfills bring events back (_remember).
MergedHasTwin ==
    \A e \in merged : \E i \in 1 .. Len(published) :
        Fingerprint(published[i][1]) = Fingerprint(e)

\* last_event_at is never behind an event this run has published, so a backfill
\* does not start earlier than needed, nor ahead of the clock.
LastCoversPublished ==
    /\ lastEventAt <= clock
    /\ \A i \in 1 .. Len(published) :
          published[i][2] = run => At(published[i][1]) <= lastEventAt

\* No event disappears: each is still on its way, was published, was taken for a
\* duplicate, was given up and counted, or was lost with a connection or a hub.
EveryEventAccounted ==
    EventIds = ToSet(wire) \cup ToSet(queue) \cup ({working} \ {0})
               \cup {published[i][1] : i \in 1 .. Len(published)}
               \cup merged \cup dropped \cup lost

\* What a backfill does not bring back: what happened before its window, what no
\* history has, and what is behind an event of an undocumented kind in the window.
OutOfReach(e) ==
    \/ At(e) < window.from
    \/ log[e].kind \notin ClassicKinds
    \/ \E u \in EventIds :
          u < e /\ window.from <= At(u) /\ log[u].kind \in UndocumentedKinds

\* The subscription comes first and the history request second, so once the history
\* is in, no pass or denial from the start of its window on is missing that the
\* reply had and parse_history reached (_async_backfill).
NoGapInWindow ==
    phase = "watching" /\ window # NoWindow => \A e \in lost : OutOfReach(e)

\* The persisted time never goes back, over any number of restarts.
StoredNeverRewinds == [][stored' >= stored]_stored

\* Every queued event leaves the queue, and the worker never stops for good.
WorkerGoesOn ==
    /\ \A e \in 1 .. MaxEvents : (e \in ToSet(queue)) ~> (e \notin ToSet(queue))
    /\ (working # 0) ~> (working = 0)
=============================================================================
