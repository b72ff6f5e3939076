----------------------------- MODULE HubSessions -----------------------------
(***************************************************************************)
(* runtime.py's SigurHub and its two OIF sessions: the command session,    *)
(* reopened by whichever task finds it dead (async_ensure_command_connec-  *)
(* tion, under _command_lock); the event session, kept by the supervisor   *)
(* task; and async_shutdown, which cancels the hub's tasks, waits for them *)
(* and closes both sessions.                                               *)
(*                                                                         *)
(* A session is one connected OifConnection.  async_shutdown cancels the   *)
(* hub's tasks, and Home Assistant may cancel a script or a service call   *)
(* at any time.  asyncio throws a requested cancellation into a task at    *)
(* the await it is suspended in, so the next step of a cancelled task is   *)
(* the one that takes it.                                                  *)
(***************************************************************************)
EXTENDS Integers, Sequences, FiniteSets, SequencesExt

CONSTANTS
    Worker,          \* the task running _event_worker
    Supervisor,      \* the task running _event_supervisor
    Refreshes,       \* tasks running _async_refresh_one
    Others,          \* tasks of Home Assistant: a poll, a service call, a script
    NoTask,          \* not a task
    Sessions,        \* bound: the names an open session can have
    NoSession,       \* None
    EnableBackfill,  \* the enable_backfill option
    ResolveObjectNames, \* the resolve_object_names option
    OverflowAttempt  \* first attempt number for which 2.0 ** attempt overflows

ASSUME TasksAssumption ==
    /\ Worker # Supervisor
    /\ {Worker, Supervisor} \cap (Refreshes \cup Others) = {}
    /\ Refreshes \cap Others = {}
    /\ NoTask \notin {Worker, Supervisor} \cup Refreshes \cup Others
ASSUME SessionsAssumption == Sessions # {} /\ NoSession \notin Sessions
ASSUME OptionsAssumption ==
    {EnableBackfill, ResolveObjectNames} \subseteq BOOLEAN /\ OverflowAttempt \in Nat

VARIABLES
    sockets,     \* sessions whose socket the hub's process holds open
    up,          \* those whose `connected` is true
    command,     \* self._command
    event,       \* self._event_connection
    lockHolder,  \* _command_lock: the task inside _async_connect_command
    lockQueue,   \* _command_lock: the tasks waiting for it
    pc,          \* the await each task is suspended in
    target,      \* which session the supervisor needs; the other tasks only
                 \* need the command session
    opening,     \* the session it has dialled and not installed yet
    failure,     \* how LOGIN failed, while the task closes the session and in
                 \* a supervisor that has ended
    cancelled,   \* cancel() was called and CancelledError not thrown yet
    attempt,     \* self.backoff.attempt
    phase,       \* where async_shutdown is
    captured,    \* the command session async_shutdown is about to close
    abandoned,   \* sessions left open by a task whose SUBSCRIBE failed or that
                 \* was cancelled before it could install them
    swallowed,   \* tasks whose CancelledError close() suppressed
    raised       \* tasks that ended with an exception after that

sessionVars == <<sockets, up, command, event, abandoned>>
lockVars == <<lockHolder, lockQueue>>
taskVars == <<pc, target, opening, failure, cancelled, swallowed, raised>>
shutdownVars == <<phase, captured>>
vars == <<sessionVars, lockVars, taskVars, attempt, shutdownVars>>

HubTasks == {Worker, Supervisor} \cup Refreshes     \* self._tasks
Tasks == HubTasks \cup Others

\* After async_setup: the command session is open, the supervisor is about to
\* dial the event session.
Init ==
    /\ command \in Sessions
    /\ sockets = {command}
    /\ up = {command}
    /\ event = NoSession
    /\ lockHolder = NoTask
    /\ lockQueue = <<>>
    /\ pc = [t \in Tasks |-> IF t = Supervisor THEN "dial" ELSE "idle"]
    /\ target = "event"
    /\ opening = [t \in Tasks |-> NoSession]
    /\ failure = [t \in Tasks |-> "none"]
    /\ cancelled = [t \in Tasks |-> FALSE]
    /\ attempt = 0
    /\ phase = "running"
    /\ captured = NoSession
    /\ abandoned = {}
    /\ swallowed = {}
    /\ raised = {}

\* The task is suspended at `where` and may go on from there.
At(t, where) == pc[t] = where /\ ~cancelled[t]

Needs(t) == IF t = Supervisor THEN target ELSE "command"

Goto(t, where) == pc' = [pc EXCEPT ![t] = where]

------------------------------------------------------------------------------
(* Opening the command session *)

\* async_ensure_command_connection, up to its first await or the command.
EnsureCommand(t) ==
    /\ target' = IF t = Supervisor THEN "command" ELSE target
    /\ IF command \in up
       THEN Goto(t, "use") /\ UNCHANGED lockVars
       ELSE /\ Goto(t, "lock")
            /\ lockQueue' = Append(lockQueue, t)
            /\ UNCHANGED lockHolder

\* A poll, a control command or a name lookup starts, or the worker starts the
\* refresh of a point.  Nothing here looks at the shutdown event; Home Assistant
\* can still find the hub of an entry whose unload is going on or whose first
\* refresh failed.
Begin(t) ==
    /\ t # Supervisor
    /\ At(t, "idle")
    /\ t = Worker => ResolveObjectNames
    /\ t \in Refreshes => At(Worker, "idle")
    /\ EnsureCommand(t)
    /\ UNCHANGED <<sessionVars, opening, failure, cancelled, swallowed, raised, attempt,
                   shutdownVars>>

LockGranted(t) ==
    At(t, "lock") /\ lockHolder = NoTask /\ lockQueue # <<>> /\ Head(lockQueue) = t

\* Faulty variant: the task that waited for the lock does not look again whether
\* the session is connected.
ConnectUnchecked(t) ==
    /\ LockGranted(t)
    /\ lockQueue' = Tail(lockQueue)
    /\ Goto(t, "dial") /\ lockHolder' = t
    /\ UNCHANGED <<sessionVars, target, opening, failure, cancelled, swallowed, raised,
                   attempt, shutdownVars>>

\* The task before us may have reopened the session already.
ConnectCommand(t) ==
    /\ LockGranted(t)
    /\ lockQueue' = Tail(lockQueue)
    /\ IF command \in up
       THEN Goto(t, "use") /\ UNCHANGED lockHolder
       ELSE Goto(t, "dial") /\ lockHolder' = t
    /\ UNCHANGED <<sessionVars, target, opening, failure, cancelled, swallowed, raised,
                   attempt, shutdownVars>>

\* The command has its reply, or failed.  The supervisor's was GETHISTORY.
UseEnds(t) ==
    /\ At(t, "use")
    /\ Goto(t, IF t = Supervisor THEN "watch" ELSE "idle")
    /\ UNCHANGED <<sessionVars, lockVars, target, opening, failure, cancelled, swallowed,
                   raised, attempt, shutdownVars>>

------------------------------------------------------------------------------
(* OifConnection.connect, for either session *)

\* Faulty variant: close() leaves the session connected.
CloseStayingConnected(s) == sockets' = sockets \ {s} /\ UNCHANGED up

Close(s) == sockets' = sockets \ {s} /\ up' = up \ {s}

CloseOpening(t) == Close(opening[t]) /\ opening' = [opening EXCEPT ![t] = NoSession]

FreeNames == Sessions \ (sockets \cup {command, event, captured})

DialOk(t) ==
    /\ At(t, "dial")
    /\ \E s \in FreeNames :
          /\ sockets' = sockets \cup {s}
          /\ up' = up \cup {s}
          /\ opening' = [opening EXCEPT ![t] = s]
    /\ Goto(t, "login")
    /\ UNCHANGED <<command, event, abandoned, lockVars, target, failure, cancelled,
                   swallowed, raised, attempt, shutdownVars>>

\* next_delay() computes 2.0 ** attempt before it takes the minimum.
DelayOverflows == attempt = OverflowAttempt

\* No session could be opened.  For the command session the failure leaves
\* _async_connect_command as Home Assistant's exception: the worker logs it, a
\* poll or a service reports it, but it ends a refresh and the supervisor, which
\* catch only SigurError.  For the event session the supervisor gives up on an
\* authentication error and otherwise sleeps; next_delay() raises OverflowError
\* once 2.0 ** attempt is too large.
Fail(t, how) ==
    LET toEvent == Needs(t) = "event"
        overflow == toEvent /\ how # "auth" /\ DelayOverflows
        dies == t = Supervisor /\ (~toEvent \/ overflow)
        ends == dies \/ (toEvent /\ how = "auth")
    IN  /\ failure' = [failure EXCEPT ![t] = IF ends THEN how ELSE "none"]
        /\ opening' = [opening EXCEPT ![t] = NoSession]
        /\ lockHolder' = IF toEvent THEN lockHolder ELSE NoTask
        /\ attempt' = IF toEvent /\ how # "auth" /\ ~overflow THEN attempt + 1 ELSE attempt
        /\ raised' = IF (dies \/ t \in Refreshes) /\ t \in swallowed
                     THEN raised \cup {t} ELSE raised
        /\ Goto(t, IF t # Supervisor THEN "idle"
                   ELSE IF ends THEN "ended" ELSE "sleep")
        /\ UNCHANGED lockQueue

DialFails(t) ==
    /\ At(t, "dial")
    /\ Fail(t, "error")
    /\ UNCHANGED <<sessionVars, target, cancelled, swallowed, shutdownVars>>

\* Faulty variant: a session whose LOGIN failed is left open.
LoginFailsUnclosed(t) ==
    /\ At(t, "login")
    /\ \E how \in {"auth", "error"} : Fail(t, how)
    /\ UNCHANGED <<sessionVars, target, cancelled, swallowed, shutdownVars>>

\* LOGIN is refused, times out or loses the session: connect() closes it, first
\* waiting for the reader task if that still runs.
LoginFails(t) ==
    /\ At(t, "login")
    /\ \E how \in {"auth", "error"} :
          /\ how = "auth" => Needs(t) = "event"
          /\ failure' = [failure EXCEPT ![t] = how]
    /\ IF opening[t] \in up
       THEN Goto(t, "closeReader") /\ UNCHANGED <<sockets, up, opening>>
       ELSE Goto(t, "closeSocket") /\ CloseOpening(t)
    /\ UNCHANGED <<command, event, abandoned, lockVars, target, cancelled, swallowed,
                   raised, attempt, shutdownVars>>

\* close() suppresses every CancelledError while it waits for the reader, the
\* task's own included.
ReaderClosed(t) ==
    /\ pc[t] = "closeReader"
    /\ CloseOpening(t)
    /\ cancelled' = [cancelled EXCEPT ![t] = FALSE]
    /\ swallowed' = IF cancelled[t] THEN swallowed \cup {t} ELSE swallowed
    /\ Goto(t, "closeSocket")
    /\ UNCHANGED <<command, event, abandoned, lockVars, target, failure, raised, attempt,
                   shutdownVars>>

SocketClosed(t) ==
    /\ At(t, "closeSocket")
    /\ Fail(t, failure[t])
    /\ UNCHANGED <<sessionVars, target, cancelled, swallowed, shutdownVars>>

\* LOGIN succeeded.  A command session replaces the dead one, which is closed
\* first; the event session still has to subscribe.

LoginOk(t) ==
    /\ At(t, "login")
    /\ opening[t] \in up
    /\ IF Needs(t) = "event"
       THEN Goto(t, "subscribe") /\ UNCHANGED <<sockets, up>>
       ELSE Goto(t, "swap") /\ Close(command)
    /\ UNCHANGED <<command, event, abandoned, lockVars, target, opening, failure, cancelled,
                   swallowed, raised, attempt, shutdownVars>>

CommandInstalled(t) ==
    /\ At(t, "swap") /\ Needs(t) = "command"
    /\ command' = opening[t]
    /\ opening' = [opening EXCEPT ![t] = NoSession]
    /\ lockHolder' = NoTask
    /\ Goto(t, "use")
    /\ UNCHANGED <<sockets, up, event, abandoned, lockQueue, target, failure, cancelled,
                   swallowed, raised, attempt, shutdownVars>>

------------------------------------------------------------------------------
(* _event_supervisor *)

\* The top of the loop.
Iterate ==
    /\ target' = "event"
    /\ Goto(Supervisor, IF phase = "running" THEN "dial" ELSE "ended")

SubscribeOk ==
    /\ At(Supervisor, "subscribe")
    /\ opening[Supervisor] \in up
    /\ Close(event)
    /\ Goto(Supervisor, "swap")
    /\ UNCHANGED <<command, event, abandoned, lockVars, target, opening, failure, cancelled,
                   swallowed, raised, attempt, shutdownVars>>

\* Nothing closes the session on which SUBSCRIBE failed.
SubscribeFails ==
    /\ At(Supervisor, "subscribe")
    /\ abandoned' = abandoned \cup {opening[Supervisor]}
    /\ \E how \in {"auth", "error"} : Fail(Supervisor, how)
    /\ UNCHANGED <<sockets, up, command, event, target, cancelled, swallowed, shutdownVars>>

\* The previous event session is closed; the backfill follows.
EventInstalled ==
    /\ At(Supervisor, "swap") /\ target = "event"
    /\ event' = opening[Supervisor]
    /\ opening' = [opening EXCEPT ![Supervisor] = NoSession]
    /\ attempt' = 0
    /\ IF EnableBackfill
       THEN EnsureCommand(Supervisor)
       ELSE Goto(Supervisor, "watch") /\ UNCHANGED <<target, lockVars>>
    /\ UNCHANGED <<sockets, up, command, abandoned, failure, cancelled, swallowed, raised,
                   shutdownVars>>

\* Faulty variant: only the shutdown event wakes the supervisor.
NoticeShutdown ==
    /\ At(Supervisor, "watch")
    /\ phase # "running"
    /\ Iterate
    /\ UNCHANGED <<sessionVars, lockVars, opening, failure, cancelled, swallowed, raised,
                   attempt, shutdownVars>>

\* _async_wait_for_event_connection_loss returns.
NoticeLoss ==
    /\ At(Supervisor, "watch")
    /\ event \notin up \/ phase # "running"
    /\ Iterate
    /\ UNCHANGED <<sessionVars, lockVars, opening, failure, cancelled, swallowed, raised,
                   attempt, shutdownVars>>

\* The delay has passed, or the shutdown event was set.
WakeUp ==
    /\ At(Supervisor, "sleep")
    /\ Iterate
    /\ UNCHANGED <<sessionVars, lockVars, opening, failure, cancelled, swallowed, raised,
                   attempt, shutdownVars>>

------------------------------------------------------------------------------
(* async_shutdown *)

\* A refresh is a task of its own each time, which is gone when it has ended.
Ended(t) == pc[t] = IF t \in Refreshes THEN "idle" ELSE "ended"

\* Set the shutdown event and cancel the hub's tasks.
Shutdown ==
    /\ phase = "running"
    /\ phase' = "awaiting"
    /\ cancelled' = [t \in Tasks |-> t \in HubTasks /\ ~Ended(t)]
    /\ UNCHANGED <<sessionVars, lockVars, pc, target, opening, failure, swallowed, raised,
                   attempt, captured>>

\* A cancelled Lock.acquire() takes its task out of the waiters.
LeaveQueue(t) ==
    IF pc[t] = "lock"
    THEN \E i \in DOMAIN lockQueue : lockQueue[i] = t /\ lockQueue' = RemoveAt(lockQueue, i)
    ELSE UNCHANGED lockQueue

EndTask(t) == Goto(t, IF t \in {Worker, Supervisor} THEN "ended" ELSE "idle")

\* connect() closes its session on SigurError only, subscribe() and the swap never:
\* what the task was opening is left open and forgotten.
AbandonOpening(t) ==
    /\ opening' = [opening EXCEPT ![t] = NoSession]
    /\ abandoned' = abandoned \cup ({opening[t]} \ {NoSession})

\* Faulty variant: a task that was waiting for the command lock or holding it
\* ends without giving it up.
CancelKeepingLock(t) ==
    /\ AbandonOpening(t) /\ EndTask(t)
    /\ cancelled' = [cancelled EXCEPT ![t] = FALSE]
    /\ UNCHANGED <<sockets, up, command, event, lockVars, target, failure, swallowed,
                   raised, attempt, shutdownVars>>

\* Faulty variant: the worker treats CancelledError like any other exception.
CancelButWorker(t) ==
    /\ AbandonOpening(t)
    /\ IF t = Worker THEN Goto(t, "idle") ELSE EndTask(t)
    /\ cancelled' = [cancelled EXCEPT ![t] = FALSE]
    /\ lockHolder' = IF lockHolder = t THEN NoTask ELSE lockHolder
    /\ LeaveQueue(t)
    /\ UNCHANGED <<sockets, up, command, event, target, failure, swallowed, raised,
                   attempt, shutdownVars>>

\* CancelledError ends the task and releases the lock.
Cancel(t) ==
    /\ AbandonOpening(t) /\ EndTask(t)
    /\ cancelled' = [cancelled EXCEPT ![t] = FALSE]
    /\ lockHolder' = IF lockHolder = t THEN NoTask ELSE lockHolder
    /\ LeaveQueue(t)
    /\ UNCHANGED <<sockets, up, command, event, target, failure, swallowed, raised,
                   attempt, shutdownVars>>

TakeCancellation(t) == cancelled[t] /\ pc[t] # "closeReader" /\ Cancel(t)

\* Home Assistant stops a script or a service call.  A cancellation requested earlier
\* and thrown now has the same effect; in close() it has none.
CancelOther(t) == t \in Others /\ pc[t] \notin {"idle", "closeReader"} /\ Cancel(t)

\* Every task was awaited; next is webhook.async_shutdown.
TasksEnded ==
    /\ phase = "awaiting"
    /\ raised = {} /\ \A t \in HubTasks : Ended(t)
    /\ phase' = "webhook"
    /\ UNCHANGED <<sessionVars, lockVars, taskVars, attempt, captured>>

\* An exception of an awaited task, or of the webhook's worker, leaves
\* async_shutdown at once; the set of tasks is awaited in any order.
ShutdownFails ==
    /\ (phase = "awaiting" /\ raised # {}) \/ phase = "webhook"
    /\ phase' = "failed"
    /\ UNCHANGED <<sessionVars, lockVars, taskVars, attempt, captured>>

\* Both sessions are read from self and the event session is closed.
WebhookStopped ==
    /\ phase = "webhook"
    /\ phase' = "closingEvent"
    /\ Close(event) /\ captured' = command
    /\ UNCHANGED <<command, event, abandoned, lockVars, taskVars, attempt>>

EventClosed ==
    /\ phase = "closingEvent"
    /\ phase' = "closingCommand"
    /\ Close(captured)
    /\ UNCHANGED <<command, event, abandoned, lockVars, taskVars, attempt, captured>>

CommandClosed ==
    /\ phase = "closingCommand"
    /\ phase' = "done"
    /\ command' = NoSession /\ event' = NoSession /\ captured' = NoSession
    /\ UNCHANGED <<sockets, up, abandoned, lockVars, taskVars, attempt>>

------------------------------------------------------------------------------
(* The outside *)

\* Sessions that were neither installed nor closed: no object of the hub refers
\* to them.
Orphans == sockets \ ({command, event, captured} \cup {opening[t] : t \in Tasks})

PeerCloses(s) ==
    /\ s \in up
    /\ up' = up \ {s}
    /\ UNCHANGED <<sockets, command, event, abandoned, lockVars, taskVars, attempt,
                   shutdownVars>>

\* The reader task of an orphan keeps it alive until the peer closes it; then
\* Python's garbage collector closes its socket.
OrphanCollected ==
    /\ \E s \in Orphans \ up : sockets' = sockets \ {s} /\ abandoned' = abandoned \ {s}
    /\ UNCHANGED <<up, command, event, lockVars, taskVars, attempt, shutdownVars>>

------------------------------------------------------------------------------

Opens(t) ==
    \/ ConnectCommand(t) \/ DialOk(t) \/ DialFails(t) \/ LoginOk(t) \/ LoginFails(t)
    \/ ReaderClosed(t) \/ SocketClosed(t) \/ CommandInstalled(t)
Supervise ==
    SubscribeOk \/ SubscribeFails \/ EventInstalled \/ NoticeLoss \/ WakeUp
StopsOn == TasksEnded \/ ShutdownFails \/ WebhookStopped \/ EventClosed \/ CommandClosed

\* What a task that is not idle does next: one step, or several of which it takes
\* one.
GoesOn(t) ==
    \/ Opens(t) \/ UseEnds(t) \/ TakeCancellation(t)
    \/ t = Supervisor /\ Supervise

Next ==
    \/ \E t \in Tasks : Begin(t) \/ Opens(t) \/ UseEnds(t) \/ CancelOther(t) \/ TakeCancellation(t)
    \/ Supervise \/ Shutdown \/ StopsOn
    \/ (\E s \in Sessions : PeerCloses(s)) \/ OrphanCollected

Spec == Init /\ [][Next]_vars

\* Every await of a task ends: dialling and commands have timeouts
\* (OifConnection!CallsReturn), closing a socket does not wait for the peer.  The
\* event loop throws requested cancellations, and goes on with async_shutdown, in
\* which webhook.async_shutdown ends (Webhook!ShutdownEnds).
Fairness ==
    /\ \A t \in Tasks : WF_vars(GoesOn(t))
    /\ WF_vars(StopsOn)

\* What the server can do to a session the hub uses: refuse it, not answer, close it.
ServerFails ==
    \/ \E t \in Tasks : DialFails(t) \/ LoginFails(t)
    \/ SubscribeFails
    \/ \E s \in Sessions \ Orphans : PeerCloses(s)

OrphanEnds == OrphanCollected \/ \E s \in Orphans : PeerCloses(s)

\* The server fails for some time and then stays up.  Names of sessions are a
\* bound of the model: orphans give theirs back in the end, and the supervisor is
\* not refused one for ever.
ServerRecovers ==
    /\ <>[][~ServerFails]_vars
    /\ WF_vars(OrphanEnds) /\ SF_vars(DialOk(Supervisor))

FairSpec == Spec /\ Fairness

------------------------------------------------------------------------------
(* Properties *)

TypeOK ==
    /\ sockets \subseteq Sessions
    /\ up \subseteq sockets
    /\ {command, event, captured} \subseteq Sessions \cup {NoSession}
    /\ lockHolder \in Tasks \cup {NoTask}
    /\ lockQueue \in Seq(Tasks)
    /\ pc \in [Tasks -> {"idle", "lock", "dial", "login", "closeReader", "closeSocket",
                         "subscribe", "swap", "use", "watch", "sleep", "ended"}]
    /\ target \in {"command", "event"}
    /\ opening \in [Tasks -> Sessions \cup {NoSession}]
    /\ failure \in [Tasks -> {"none", "auth", "error"}]
    /\ cancelled \in [Tasks -> BOOLEAN]
    /\ attempt \in 0 .. OverflowAttempt
    /\ phase \in {"running", "awaiting", "webhook", "closingEvent", "closingCommand", "done",
                 "failed"}
    /\ abandoned \subseteq Sessions
    /\ swallowed \subseteq HubTasks
    /\ raised \subseteq HubTasks

\* Tasks that find the command session dead at the same time reopen it once: a
\* connected command session is closed by its peer or by async_shutdown, never by
\* a reconnection (_async_connect_command looks again under the lock).
LiveCommandKept ==
    [][phase = "running" /\ phase' = "running" /\ command \in up => command \in sockets']_vars

\* While the entry is loaded every socket belongs to one of the two sessions, to
\* an attempt in progress, or to a session abandoned because its SUBSCRIBE failed or
\* its task was cancelled: a failed LOGIN, a swap, a session lost or reopened at the
\* same time leaves none (connect, _async_connect_command,
\* _async_open_event_connection).
NoOrphanWhileRunning ==
    phase = "running" =>
        sockets \subseteq {command, event} \cup abandoned \cup {opening[t] : t \in Tasks}

\* Every task that waits for the command lock gets it, or is cancelled.
LockIsGranted == \A t \in Tasks : pc[t] = "lock" ~> pc[t] # "lock"

\* With a server that answers in the end, a lost event session is replaced, unless
\* the supervisor has ended or the entry is unloaded (_event_supervisor).
Resubscribes ==
    ServerRecovers => (event \notin up) ~> (event \in up \/ pc[Supervisor] = "ended" \/ phase # "running")

\* async_shutdown returns or fails, unless a task of the hub lost its cancellation
\* in close().
ShutdownReturns ==
    (phase = "awaiting") ~> (phase \in {"done", "failed"} \/ swallowed # {})

\* _event_supervisor's docstring: "Keep the event connection alive, re-subscribing
\* after every drop".  Only rejected credentials make it return.
KeepsSubscribing ==
    phase = "running" /\ pc[Supervisor] = "ended" =>
        target = "event" /\ failure[Supervisor] = "auth"

\* async_shutdown's docstring: "Stop every task and close both connections".
StopsEveryTask == (phase = "awaiting") ~> (\A t \in HubTasks : Ended(t))
=============================================================================
