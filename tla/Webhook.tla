------------------------------- MODULE Webhook -------------------------------
(***************************************************************************)
(* webhook.py: WebhookForwarder, the bounded queue of events and the       *)
(* worker task that posts them one by one, each at most MaxAttempts times. *)
(*                                                                         *)
(* Its options are those of the hub, read once when the entry is loaded    *)
(* (SigurHub.__init__), so they never change under a running worker.       *)
(* async_shutdown cancels the task in the step that sets _closing: the     *)
(* worker's next step is then the one that takes the CancelledError.       *)
(***************************************************************************)
EXTENDS Integers, Sequences, FiniteSets

CONSTANTS
    MaxQueue,     \* MAX_WEBHOOK_QUEUE
    MaxAttempts,  \* _MAX_ATTEMPTS
    Categories,   \* event categories
    MaxEvents     \* bound: events enqueue() accepts

ASSUME LimitsAssumption ==
    /\ MaxQueue \in Nat \ {0}
    /\ MaxAttempts \in Nat \ {0}
    /\ MaxEvents \in Nat

VARIABLES
    options,    \* [url, secret, insecure, categories]
    task,       \* self._task: "none", the await its worker is suspended in,
                \* "cancelled", or "crashed" by an exception
    closing,    \* self._closing
    queue,      \* self._queue; events are numbered as they are accepted
    wakeup,     \* self._wakeup is set
    current,    \* the event of _async_deliver, 0 for none
    attempt,    \* its attempt number
    delivered,  \* self.delivered_count
    failed,     \* self.failure_count
    dropped,    \* self.dropped_count
    accepted,   \* how many events enqueue() took
    shutdown    \* where async_shutdown is: "not", "awaiting", "done", "raised"

workerVars == <<current, attempt, delivered, failed>>
vars == <<options, task, closing, queue, wakeup, workerVars, dropped, accepted, shutdown>>

\* is_private_url: the kinds of webhook_url there are; "" is None.
Urls == {"", "https", "private", "public"}
Alive == {"ready", "idle", "posting", "sleeping"}
NoEvent == 0

-----------------------------------------------------------------------------
\* The branches of async_setup that return without starting a worker.
Refused(o) ==
    \/ o.url = "" \/ ~o.secret
    \/ (o.url # "https" /\ ~(o.insecure /\ o.url = "private"))

Init ==
    /\ options \in [url : Urls, secret : BOOLEAN, insecure : BOOLEAN, categories : SUBSET Categories]
    /\ task = IF Refused(options) THEN "none" ELSE "ready"
    /\ closing = FALSE /\ wakeup = FALSE /\ queue = <<>>
    /\ current = NoEvent /\ attempt = 0
    /\ delivered = 0 /\ failed = 0 /\ dropped = 0 /\ accepted = 0
    /\ shutdown = "not"

\* A full deque(maxlen) drops its oldest event as it takes the new one.
EnqueueUncounted(category) ==
    /\ task # "none" /\ ~closing
    /\ options.categories = {} \/ category \in options.categories
    /\ accepted < MaxEvents
    /\ accepted' = accepted + 1
    /\ queue' = IF Len(queue) = MaxQueue THEN Append(Tail(queue), accepted')
                                         ELSE Append(queue, accepted')
    /\ dropped' = IF Len(queue) + 1 = MaxQueue THEN dropped + 1 ELSE dropped
    /\ wakeup' = TRUE
    /\ UNCHANGED <<options, task, closing, workerVars, shutdown>>

Enqueue(category) ==
    /\ task # "none" /\ ~closing
    /\ options.categories = {} \/ category \in options.categories
    /\ accepted < MaxEvents
    /\ accepted' = accepted + 1
    /\ queue' = IF Len(queue) = MaxQueue THEN Append(Tail(queue), accepted')
                                         ELSE Append(queue, accepted')
    /\ dropped' = IF Len(queue) = MaxQueue THEN dropped + 1 ELSE dropped
    /\ wakeup' = TRUE
    /\ UNCHANGED <<options, task, closing, workerVars, shutdown>>

-----------------------------------------------------------------------------
(* The worker.  From the head of its loop it runs to the next await: it    *)
(* waits for _wakeup, or takes the oldest event and posts it.              *)
OneEventPerWakeup ==
    IF queue = <<>> \/ ~wakeup
    THEN /\ task' = "idle" /\ wakeup' = FALSE /\ current' = NoEvent /\ attempt' = 0
         /\ UNCHANGED queue
    ELSE /\ task' = "posting" /\ current' = Head(queue) /\ attempt' = 1
         /\ queue' = Tail(queue) /\ wakeup' = FALSE

LoopHead ==
    IF queue = <<>>
    THEN /\ task' = "idle" /\ wakeup' = FALSE /\ current' = NoEvent /\ attempt' = 0
         /\ UNCHANGED queue
    ELSE /\ task' = "posting" /\ current' = Head(queue) /\ attempt' = 1
         /\ queue' = Tail(queue)
         /\ UNCHANGED wakeup

Runs ==
    /\ ~closing
    /\ task = "ready" \/ (task = "idle" /\ wakeup)
    /\ LoopHead
    /\ UNCHANGED <<options, closing, delivered, failed, dropped, accepted, shutdown>>

\* The endpoint answers below 400.
Delivered ==
    /\ ~closing /\ task = "posting"
    /\ LoopHead /\ delivered' = delivered + 1
    /\ UNCHANGED <<options, closing, failed, dropped, accepted, shutdown>>

\* It answers 400 or above, cannot be reached, or webhook_timeout runs out; in
\* the last case it may have taken the event, and takes it again.
RequeuesLast ==
    /\ ~closing /\ task = "posting"
    /\ \/ /\ attempt < MaxAttempts /\ task' = "sleeping"
          /\ UNCHANGED <<queue, wakeup, workerVars>>
       \/ /\ attempt = MaxAttempts /\ Len(queue) < MaxQueue
          /\ queue' = Append(queue, current) /\ task' = "ready"
          /\ current' = NoEvent /\ attempt' = 0
          /\ UNCHANGED <<wakeup, delivered, failed>>
    /\ UNCHANGED <<options, closing, dropped, accepted, shutdown>>

AttemptFails ==
    /\ ~closing /\ task = "posting"
    /\ \/ /\ attempt < MaxAttempts /\ task' = "sleeping"
          /\ UNCHANGED <<queue, wakeup, workerVars>>
       \/ /\ attempt = MaxAttempts
          /\ LoopHead /\ failed' = failed + 1
          /\ UNCHANGED delivered
    /\ UNCHANGED <<options, closing, dropped, accepted, shutdown>>

Retries ==
    /\ ~closing /\ task = "sleeping"
    /\ task' = "posting" /\ attempt' = attempt + 1
    /\ UNCHANGED <<options, closing, queue, wakeup, current, delivered, failed, dropped, accepted, shutdown>>

\* session.post raises neither ClientError nor TimeoutError, as a RuntimeError
\* once Home Assistant has closed its client session: the task ends.
Crashes ==
    /\ ~closing /\ task = "posting" /\ task' = "crashed"
    /\ UNCHANGED <<options, closing, queue, wakeup, workerVars, dropped, accepted, shutdown>>

-----------------------------------------------------------------------------
(* async_shutdown.                                                         *)
Shutdown ==
    /\ shutdown = "not"
    /\ closing' = TRUE /\ wakeup' = TRUE /\ shutdown' = "awaiting"
    /\ UNCHANGED <<options, task, queue, workerVars, dropped, accepted>>

TakesCancel ==
    /\ closing /\ task \in Alive /\ task' = "cancelled"
    /\ UNCHANGED <<options, closing, queue, wakeup, workerVars, dropped, accepted, shutdown>>

ShutdownForgetsQueue ==
    /\ shutdown = "awaiting" /\ task \in {"none", "cancelled"}
    /\ task' = "none" /\ current' = NoEvent /\ attempt' = 0 /\ shutdown' = "done"
    /\ UNCHANGED <<options, closing, queue, wakeup, delivered, failed, dropped, accepted>>

ShutdownEnds ==
    /\ shutdown = "awaiting" /\ task \in {"none", "cancelled"}
    /\ task' = "none" /\ queue' = <<>> /\ current' = NoEvent /\ attempt' = 0
    /\ shutdown' = "done"
    /\ UNCHANGED <<options, closing, wakeup, delivered, failed, dropped, accepted>>

\* `await self._task` raises what ended the worker, and async_shutdown with it:
\* the queue and the task stay, and SigurHub.async_shutdown stops there.
ShutdownRaises ==
    /\ shutdown = "awaiting" /\ task = "crashed" /\ shutdown' = "raised"
    /\ UNCHANGED <<options, task, closing, queue, wakeup, workerVars, dropped, accepted>>

Stopped == shutdown \in {"done", "raised"} /\ UNCHANGED vars

Worker == Runs \/ Delivered \/ AttemptFails \/ Retries
Next ==
    \/ \E c \in Categories : Enqueue(c)
    \/ Worker
    \/ Crashes
    \/ Shutdown \/ TakesCancel \/ ShutdownEnds \/ ShutdownRaises
    \/ Stopped

Spec == Init /\ [][Next]_vars

\* The event loop runs what is ready, ClientTimeout bounds every post and
\* asyncio.sleep ends.
Fairness == WF_vars(Worker) /\ WF_vars(TakesCancel) /\ WF_vars(ShutdownEnds) /\ WF_vars(ShutdownRaises)
FairSpec == Spec /\ Fairness

-----------------------------------------------------------------------------
(* Properties.                                                             *)
TypeOK ==
    /\ options \in [url : Urls, secret : BOOLEAN, insecure : BOOLEAN, categories : SUBSET Categories]
    /\ task \in Alive \cup {"none", "cancelled", "crashed"}
    /\ closing \in BOOLEAN /\ wakeup \in BOOLEAN
    /\ queue \in Seq(1..accepted) /\ Len(queue) <= MaxQueue
    /\ current \in 0..accepted /\ attempt \in 0..MaxAttempts
    /\ delivered \in Nat /\ failed \in Nat /\ dropped \in Nat /\ accepted \in Nat
    /\ shutdown \in {"not", "awaiting", "done", "raised"}

\* Until async_shutdown clears the queue, every event enqueue() took is counted
\* as delivered, failed or dropped, or waits in the queue, or is the one the
\* worker is busy with or died on (enqueue, _worker, _async_deliver).
EveryEventCounted ==
    shutdown # "done" =>
        accepted = delivered + failed + dropped + Len(queue)
                   + (IF current = NoEvent THEN 0 ELSE 1)

\* The worker sleeps for good only when nothing is queued: enqueue()'s wake-up
\* is never lost, and a queue is emptied unless the worker has died (_worker).
QueueDrains == queue # <<>> ~> (queue = <<>> \/ task = "crashed")

\* async_shutdown ends, with an empty queue unless the worker had died.
WebhookStops ==
    closing ~> \/ shutdown = "done" /\ queue = <<>> /\ task = "none"
               \/ shutdown = "raised" /\ task = "crashed"

-----------------------------------------------------------------------------
(* The forwarder keeps what Forwarding promises: the event being delivered *)
(* is the head of the line.                                                *)
InLine == (IF current = NoEvent THEN <<>> ELSE <<current>>) \o queue
Counters == [delivered |-> delivered, failed |-> failed, dropped |-> dropped]
Open == task # "none" /\ ~closing

Lined == INSTANCE Forwarding WITH
    Events <- 1..MaxEvents, Capacity <- MaxQueue,
    line <- InLine, left <- Counters, open <- Open

\* Events leave in the order in which they were accepted, each once and under
\* one counter, whatever is retried, displaced or cancelled meanwhile.
ForwardsInOrder == Lined!Spec
=============================================================================
