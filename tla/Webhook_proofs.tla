---------------------------- MODULE Webhook_proofs ----------------------------
(* Theorems about Webhook, for every size of the queue, number of attempts    *)
(* and number of events.                                                      *)
EXTENDS Webhook, SequenceTheorems, TLAPS

\* The worker has an event just while it delivers it or was cancelled at it, and
\* only async_shutdown closes the forwarder.
BusyInv ==
    /\ task \in {"none", "ready", "idle"} => current = NoEvent
    /\ task \in {"posting", "sleeping", "crashed"} => current # NoEvent
    /\ task = "sleeping" => attempt < MaxAttempts
    /\ shutdown # "not" <=> closing

IInv == TypeOK /\ BusyInv /\ EveryEventCounted

\* TypeOK in two parts: the Boolean variables, and what is counted.
FlagTypes ==
    /\ options \in [url : Urls, secret : BOOLEAN, insecure : BOOLEAN, categories : SUBSET Categories]
    /\ closing \in BOOLEAN /\ wakeup \in BOOLEAN
CountTypes ==
    /\ task \in Alive \cup {"none", "cancelled", "crashed"}
    /\ queue \in Seq(1..accepted) /\ Len(queue) <= MaxQueue
    /\ current \in 0..accepted /\ attempt \in 0..MaxAttempts
    /\ delivered \in Nat /\ failed \in Nat /\ dropped \in Nat /\ accepted \in Nat
    /\ shutdown \in {"not", "awaiting", "done", "raised"}

LEMMA TypeParts == TypeOK <=> FlagTypes /\ CountTypes
  BY Zenon DEF TypeOK, FlagTypes, CountTypes

-----------------------------------------------------------------------------
\* Lemmas about lines.

\* What becomes of a sequence when its head is taken off and put before it again.
LEMMA TakeHead ==
    ASSUME NEW S, NEW q \in Seq(S), q # <<>>
    PROVE  /\ Head(q) \in S /\ Tail(q) \in Seq(S)
           /\ Len(Tail(q)) = Len(q) - 1 /\ Len(q) \in Nat \ {0}
           /\ <<Head(q)>> \o Tail(q) = q
<1>1. Head(q) \in S /\ Tail(q) \in Seq(S) /\ Len(Tail(q)) = Len(q) - 1
  BY HeadTailProperties
<1>2. Len(q) \in Nat \ {0}
  BY EmptySeq
<1>3. <<Head(q)>> \o Tail(q) = q
  OBVIOUS
<1> QED
  BY <1>1, <1>2, <1>3

\* A line with one event on its way before those that wait.
LEMMA OnItsWay ==
    ASSUME NEW S, NEW q \in Seq(S), NEW c \in S
    PROVE  /\ <<c>> \o q \in Seq(S) /\ <<c>> \o q # <<>>
           /\ Len(<<c>> \o q) = Len(q) + 1
           /\ Head(<<c>> \o q) = c /\ Tail(<<c>> \o q) = q
           /\ \A e \in S : <<c>> \o Append(q, e) = Append(<<c>> \o q, e)
  OBVIOUS

LEMMA AppendTypes ==
    ASSUME NEW S, NEW q \in Seq(S), NEW e \in S
    PROVE  Append(q, e) \in Seq(S) /\ Len(Append(q, e)) = Len(q) + 1
  OBVIOUS

LEMMA NothingBefore ==
    ASSUME NEW S, NEW q \in Seq(S)
    PROVE  <<>> \o q = q
  BY ConcatEmptySeq

-----------------------------------------------------------------------------
\* Lemmas about the worker.

\* From the head of its loop the worker takes the first event, or sleeps.
LEMMA LoopHeadTakes ==
    ASSUME CountTypes, wakeup \in BOOLEAN, LoopHead
    PROVE  /\ \/ task' = "idle" /\ current' = NoEvent
              \/ task' = "posting" /\ current' # NoEvent
           /\ queue' \in Seq(1..accepted) /\ Len(queue') <= MaxQueue
           /\ current' \in 0..accepted /\ attempt' \in 0..MaxAttempts
           /\ wakeup' \in BOOLEAN
           /\ Len(queue) = Len(queue') + (IF current' = NoEvent THEN 0 ELSE 1)
           /\ InLine' = queue
<1>t. /\ queue \in Seq(1..accepted) /\ Len(queue) \in Nat /\ Len(queue) <= MaxQueue
      /\ accepted \in Nat /\ MaxQueue \in Nat /\ MaxAttempts \in Nat \ {0}
  BY LimitsAssumption DEF CountTypes
<1>1. CASE queue = <<>>
  <2>1. /\ task' = "idle" /\ wakeup' = FALSE /\ current' = 0 /\ attempt' = 0
        /\ queue' = queue
    BY <1>1 DEF LoopHead, NoEvent
  <2>2. InLine' = queue
    BY <1>1, <2>1 DEF InLine, NoEvent
  <2>3. wakeup' \in BOOLEAN
    BY <2>1, Zenon
  <2>4. current' \in 0..accepted /\ attempt' \in 0..MaxAttempts
    BY <1>t, <2>1
  <2>5. Len(queue) = Len(queue') + (IF current' = NoEvent THEN 0 ELSE 1)
    BY <1>t, <2>1 DEF NoEvent
  <2>6. /\ task' = "idle" /\ current' = NoEvent
        /\ queue' \in Seq(1..accepted) /\ Len(queue') <= MaxQueue
    BY <1>t, <2>1 DEF NoEvent
  <2> QED
    BY <2>2, <2>3, <2>4, <2>5, <2>6
<1>2. CASE queue # <<>>
  <2>1. /\ task' = "posting" /\ current' = Head(queue) /\ attempt' = 1
        /\ queue' = Tail(queue) /\ wakeup' = wakeup
    BY <1>2 DEF LoopHead
  <2>2. /\ Head(queue) \in 1..accepted /\ Tail(queue) \in Seq(1..accepted)
        /\ Len(Tail(queue)) = Len(queue) - 1 /\ Len(queue) \in Nat \ {0}
        /\ <<Head(queue)>> \o Tail(queue) = queue
    BY <1>t, <1>2, TakeHead
  <2>3. current' # NoEvent /\ current' \in 0..accepted /\ attempt' \in 0..MaxAttempts
    BY <1>t, <2>1, <2>2 DEF NoEvent
  <2>4. InLine' = <<current'>> \o queue'
    BY <2>3 DEF InLine
  <2>5. wakeup' \in BOOLEAN
    BY <2>1, Zenon
  <2>6. Len(queue) = Len(queue') + (IF current' = NoEvent THEN 0 ELSE 1)
    BY <1>t, <2>1, <2>2, <2>3
  <2> QED
    BY <1>t, <2>1, <2>2, <2>3, <2>4, <2>5, <2>6
<1> QED
  BY <1>1, <1>2

\* Enqueue puts an event at the end, and takes out the first that waits when the
\* queue is full.
LEMMA EnqueueAppends ==
    ASSUME TypeOK, NEW category, Enqueue(category)
    PROVE  /\ accepted' = accepted + 1
           /\ queue' \in Seq(1..accepted') /\ Len(queue') <= MaxQueue
           /\ \/ /\ Len(queue) < MaxQueue /\ queue' = Append(queue, accepted')
                 /\ Len(queue') = Len(queue) + 1 /\ dropped' = dropped
              \/ /\ Len(queue) = MaxQueue /\ queue # <<>>
                 /\ queue' = Append(Tail(queue), accepted')
                 /\ Len(queue') = Len(queue) /\ dropped' = dropped + 1
<1> USE LimitsAssumption
<1>1. /\ accepted \in Nat /\ accepted' = accepted + 1 /\ accepted' \in 1..accepted'
      /\ queue \in Seq(1..accepted) /\ Len(queue) \in Nat /\ Len(queue) <= MaxQueue
  BY DEF Enqueue, TypeOK
<1>2. queue \in Seq(1..accepted')
  BY <1>1, SeqMonotonic
<1>3. CASE Len(queue) = MaxQueue
  <2>1. queue' = Append(Tail(queue), accepted') /\ dropped' = dropped + 1
    BY <1>3 DEF Enqueue
  <2>2. queue # <<>>
    BY <1>3
  <2>3. Tail(queue) \in Seq(1..accepted') /\ Len(Tail(queue)) = Len(queue) - 1
    BY <1>2, <2>2, TakeHead
  <2>4. queue' \in Seq(1..accepted') /\ Len(queue') = Len(Tail(queue)) + 1
    BY <1>1, <2>1, <2>3, AppendTypes
  <2> QED
    BY <1>1, <1>3, <2>1, <2>2, <2>3, <2>4
<1>4. CASE Len(queue) # MaxQueue
  <2>1. queue' = Append(queue, accepted') /\ dropped' = dropped
    BY <1>4 DEF Enqueue
  <2>2. queue' \in Seq(1..accepted') /\ Len(queue') = Len(queue) + 1
    BY <1>1, <1>2, <2>1, AppendTypes
  <2> QED
    BY <1>1, <1>4, <2>1, <2>2
<1> QED
  BY <1>3, <1>4

-----------------------------------------------------------------------------
LEMMA IInvInit == Init => IInv
<1> SUFFICES ASSUME Init PROVE IInv
  OBVIOUS
<1>1. task \in {"none", "ready"}
  BY DEF Init
<1>2. FlagTypes
  BY Zenon DEF Init, FlagTypes
<1>3. /\ queue = <<>> /\ current = 0 /\ attempt = 0 /\ shutdown = "not"
      /\ delivered = 0 /\ failed = 0 /\ dropped = 0 /\ accepted = 0
  BY DEF Init, NoEvent
<1>4. CountTypes
  BY <1>1, <1>3, LimitsAssumption DEF CountTypes, Alive
<1>5. BusyInv
  BY <1>1 DEF Init, BusyInv, NoEvent
<1>6. EveryEventCounted
  BY <1>3 DEF EveryEventCounted, NoEvent
<1> QED
  BY <1>2, <1>4, <1>5, <1>6, TypeParts DEF IInv

\* Every action keeps the invariant.
LEMMA IInvStep == IInv /\ [Next]_vars => IInv'
<1> SUFFICES ASSUME IInv, [Next]_vars PROVE IInv'
  OBVIOUS
<1>t. TypeOK /\ FlagTypes /\ CountTypes /\ BusyInv /\ EveryEventCounted
  BY TypeParts DEF IInv
<1>q. Len(queue) \in Nat
  BY <1>t DEF CountTypes
<1>r. ASSUME FlagTypes', CountTypes', BusyInv', EveryEventCounted' PROVE IInv'
  <2>1. TypeOK' <=> FlagTypes' /\ CountTypes'
    BY Zenon DEF TypeOK, FlagTypes, CountTypes
  <2> QED
    BY <1>r, <2>1 DEF IInv
<1>1. ASSUME NEW category \in Categories, Enqueue(category) PROVE IInv'
  <2>1. /\ accepted' = accepted + 1
        /\ queue' \in Seq(1..accepted') /\ Len(queue') <= MaxQueue
        /\ Len(queue') \in Nat /\ dropped' \in Nat
        /\ Len(queue') + dropped' = Len(queue) + dropped + 1
    <3>1. dropped \in Nat
      BY <1>t DEF CountTypes
    <3>2. /\ accepted' = accepted + 1
          /\ queue' \in Seq(1..accepted') /\ Len(queue') <= MaxQueue
          /\ \/ /\ Len(queue') = Len(queue) + 1
                /\ dropped' = dropped
             \/ /\ Len(queue') = Len(queue)
                /\ dropped' = dropped + 1
      BY <1>1, <1>t, EnqueueAppends, Zenon
    <3>3. /\ Len(queue') \in Nat /\ dropped' \in Nat
          /\ Len(queue') + dropped' = Len(queue) + dropped + 1
      BY <1>q, <3>1, <3>2
    <3> QED
      BY <3>2, <3>3
  <2>2. FlagTypes'
    BY <1>1, <1>t, Zenon DEF Enqueue, FlagTypes
  <2>3. UNCHANGED <<task, current, attempt, delivered, failed, shutdown>>
    BY <1>1 DEF Enqueue, workerVars
  <2>4. CountTypes'
    BY <1>t, <2>1, <2>3 DEF CountTypes
  <2>5. BusyInv'
    BY <1>1, <1>t, Zenon DEF Enqueue, BusyInv, workerVars
  <2>6. EveryEventCounted'
    <3>1. /\ accepted \in Nat /\ delivered \in Nat /\ failed \in Nat /\ dropped \in Nat
      BY <1>t DEF CountTypes
    <3>2. shutdown # "done"
          => accepted = delivered + failed + dropped + Len(queue) + (IF current = NoEvent THEN 0 ELSE 1)
      BY <1>t DEF EveryEventCounted
    <3>3. shutdown' # "done"
          => accepted' = delivered' + failed' + dropped' + Len(queue') + (IF current' = NoEvent THEN 0 ELSE 1)
      <4>1. /\ UNCHANGED <<shutdown, current, delivered, failed>>
            /\ accepted' = accepted + 1
            /\ Len(queue') + dropped' = Len(queue) + dropped + 1
            /\ Len(queue') \in Nat /\ dropped' \in Nat
        BY <2>1, <2>3
      <4> QED
        BY <1>q, <3>1, <3>2, <4>1
    <3> QED
      BY <3>3 DEF EveryEventCounted
  <2> QED
    BY <1>r, <2>2, <2>4, <2>5, <2>6
\* Where the worker goes on from the head of its loop, the event it had, if any,
\* having been counted.
<1>h. ASSUME LoopHead, UNCHANGED <<options, closing, dropped, accepted, shutdown>>,
             ~closing, delivered' \in Nat, failed' \in Nat,
             delivered' + failed' = delivered + failed + (IF current = NoEvent THEN 0 ELSE 1)
      PROVE  IInv'
  <2>1. wakeup \in BOOLEAN
    BY <1>t, Zenon DEF FlagTypes
  <2>2. /\ \/ task' = "idle" /\ current' = NoEvent
           \/ task' = "posting" /\ current' # NoEvent
        /\ queue' \in Seq(1..accepted) /\ Len(queue') <= MaxQueue
        /\ current' \in 0..accepted /\ attempt' \in 0..MaxAttempts
        /\ wakeup' \in BOOLEAN
        /\ Len(queue) = Len(queue') + (IF current' = NoEvent THEN 0 ELSE 1)
    BY <1>h, <1>t, <2>1, LoopHeadTakes, Zenon
  <2>3. FlagTypes'
    BY <1>h, <1>t, <2>2, Zenon DEF FlagTypes
  <2>4. CountTypes'
    <3>1. task' \in Alive \cup {"none", "cancelled", "crashed"}
      BY <2>2 DEF Alive
    <3>2. UNCHANGED <<dropped, accepted, shutdown>> /\ delivered' \in Nat /\ failed' \in Nat
      BY <1>h
    <3> QED
      BY <1>t, <2>2, <3>1, <3>2 DEF CountTypes
  <2>5. BusyInv'
    <3>1. UNCHANGED <<closing, shutdown>>
      BY <1>h
    <3>2. (shutdown # "not" <=> closing)'
      BY <1>t, <3>1, Zenon DEF BusyInv
    <3>3. /\ task' \in {"none", "ready", "idle"} => current' = NoEvent
          /\ task' \in {"posting", "sleeping", "crashed"} => current' # NoEvent
          /\ task' = "sleeping" => attempt' < MaxAttempts
      BY <2>2
    <3> QED
      BY <3>2, <3>3, Zenon DEF BusyInv
  <2>6. EveryEventCounted'
    <3>a. PICK before \in Nat : before = (IF current = NoEvent THEN 0 ELSE 1)
      OBVIOUS
    <3>b. PICK after \in Nat : after = (IF current' = NoEvent THEN 0 ELSE 1)
      OBVIOUS
    <3>1. /\ accepted \in Nat /\ delivered \in Nat /\ failed \in Nat /\ dropped \in Nat
      BY <1>t DEF CountTypes
    <3>2. shutdown # "done" => accepted = delivered + failed + dropped + Len(queue) + before
      BY <1>t, <3>a DEF EveryEventCounted
    <3>3. /\ delivered' \in Nat /\ failed' \in Nat
          /\ delivered' + failed' = delivered + failed + before
          /\ Len(queue) = Len(queue') + after
          /\ accepted' = accepted /\ dropped' = dropped /\ shutdown' = shutdown
      BY <1>h, <2>2, <3>a, <3>b
    <3>4. Len(queue') \in Nat
      BY <2>2
    <3>5. ASSUME accepted = delivered + failed + dropped + Len(queue) + before
          PROVE  accepted = delivered' + failed' + dropped + Len(queue') + after
      <4>1. PICK d \in Nat, f \in Nat, q \in Nat : d = delivered' /\ f = failed' /\ q = Len(queue')
        BY <3>3, <3>4
      <4>2. d + f = delivered + failed + before /\ Len(queue) = q + after
        BY <3>3, <4>1
      <4>3. accepted = d + f + dropped + q + after
        BY <1>q, <3>1, <3>5, <4>2
      <4> QED
        BY <4>1, <4>3
    <3> QED
      BY <3>b, <3>2, <3>3, <3>5 DEF EveryEventCounted
  <2> QED
    BY <1>r, <2>3, <2>4, <2>5, <2>6
\* Where neither the queue nor a counter changes.
<1>u. ASSUME UNCHANGED <<queue, current, delivered, failed, dropped, accepted, options>>,
             FlagTypes', BusyInv', shutdown' = "done" \/ shutdown # "done",
             attempt' \in 0..MaxAttempts,
             task' \in Alive \cup {"none", "cancelled", "crashed"},
             shutdown' \in {"not", "awaiting", "done", "raised"}
      PROVE  IInv'
  <2>1. CountTypes'
    BY <1>u, <1>t DEF CountTypes
  <2>2. EveryEventCounted'
    BY <1>u, <1>t DEF EveryEventCounted
  <2> QED
    BY <1>r, <1>u, <2>1, <2>2
<1>2. CASE Runs
  <2>1. current = NoEvent
    BY <1>2, <1>t DEF Runs, BusyInv
  <2>2. /\ LoopHead /\ ~closing /\ UNCHANGED <<options, closing, dropped, accepted, shutdown>>
        /\ UNCHANGED <<delivered, failed>>
    BY <1>2 DEF Runs
  <2>3. /\ delivered' \in Nat /\ failed' \in Nat
        /\ delivered' + failed' = delivered + failed + (IF current = NoEvent THEN 0 ELSE 1)
    BY <1>t, <2>1, <2>2 DEF CountTypes
  <2> QED
    BY <1>h, <2>2, <2>3, Zenon
<1>3. CASE Delivered
  <2>1. current # NoEvent
    BY <1>3, <1>t DEF Delivered, BusyInv
  <2>2. /\ LoopHead /\ ~closing /\ UNCHANGED <<options, closing, dropped, accepted, shutdown>>
        /\ delivered' = delivered + 1 /\ failed' = failed
    BY <1>3 DEF Delivered
  <2>3. /\ delivered' \in Nat /\ failed' \in Nat
        /\ delivered' + failed' = delivered + failed + (IF current = NoEvent THEN 0 ELSE 1)
    BY <1>t, <2>1, <2>2 DEF CountTypes
  <2> QED
    BY <1>h, <2>2, <2>3, Zenon
<1>4. CASE AttemptFails
  <2>1. CASE attempt = MaxAttempts
    <3>1. current # NoEvent
      BY <1>4, <1>t DEF AttemptFails, BusyInv
    <3>2. attempt \in Nat /\ MaxAttempts \in Nat
      BY <1>t, LimitsAssumption DEF CountTypes
    <3>3. /\ LoopHead /\ ~closing /\ UNCHANGED <<options, closing, dropped, accepted, shutdown>>
          /\ failed' = failed + 1 /\ delivered' = delivered
      BY <1>4, <2>1, <3>2 DEF AttemptFails
    <3>4. /\ delivered' \in Nat /\ failed' \in Nat
          /\ delivered' + failed' = delivered + failed + (IF current = NoEvent THEN 0 ELSE 1)
      BY <1>t, <3>1, <3>3 DEF CountTypes
    <3> QED
      BY <1>h, <3>3, <3>4, Zenon
  <2>2. CASE attempt # MaxAttempts
    <3>1. /\ task' = "sleeping" /\ task = "posting"
          /\ UNCHANGED <<queue, wakeup, workerVars, options, closing, dropped, accepted, shutdown>>
      BY <1>4, <2>2 DEF AttemptFails
    <3>2. FlagTypes'
      BY <1>t, <3>1, Zenon DEF FlagTypes
    <3>3. BusyInv'
      <4>1. attempt' < MaxAttempts
        BY <1>t, <2>2, <3>1, LimitsAssumption DEF CountTypes, workerVars
      <4>2. current' # NoEvent
        BY <1>t, <3>1 DEF BusyInv, workerVars
      <4>3. (shutdown # "not" <=> closing)'
        BY <1>t, <3>1, Zenon DEF BusyInv
      <4> QED
        BY <3>1, <4>1, <4>2, <4>3, Zenon DEF BusyInv
    <3>4. UNCHANGED <<queue, current, delivered, failed, dropped, accepted, options, attempt, shutdown>>
      BY <3>1 DEF workerVars
    <3> QED
      BY <1>t, <1>u, <3>1, <3>2, <3>3, <3>4 DEF CountTypes, Alive
  <2> QED
    BY <2>1, <2>2
<1>5. CASE Retries
  <2>1. /\ task' = "posting" /\ task = "sleeping" /\ attempt' = attempt + 1
        /\ UNCHANGED <<options, closing, queue, wakeup, current, delivered, failed, dropped, accepted, shutdown>>
    BY <1>5 DEF Retries
  <2>2. FlagTypes'
    BY <1>t, <2>1, Zenon DEF FlagTypes
  <2>3. BusyInv'
    BY <1>t, <2>1, Zenon DEF BusyInv
  <2>4. attempt' \in 0..MaxAttempts
    BY <1>t, <2>1, LimitsAssumption DEF CountTypes, BusyInv
  <2> QED
    BY <1>t, <1>u, <2>1, <2>2, <2>3, <2>4 DEF CountTypes, Alive
<1>6. CASE Crashes \/ TakesCancel
  <2>1. /\ \/ task' = "crashed" /\ task = "posting"
           \/ task' = "cancelled"
        /\ UNCHANGED <<options, closing, queue, wakeup, workerVars, dropped, accepted, shutdown>>
    BY <1>6 DEF Crashes, TakesCancel
  <2>2. UNCHANGED <<queue, current, delivered, failed, dropped, accepted, options, attempt, shutdown, closing, wakeup>>
    BY <2>1 DEF workerVars
  <2>3. FlagTypes'
    BY <1>t, <2>2, Zenon DEF FlagTypes
  <2>4. BusyInv'
    <3>1. (shutdown # "not" <=> closing)'
      BY <1>t, <2>2, Zenon DEF BusyInv
    <3>2. /\ task' \in {"none", "ready", "idle"} => current' = NoEvent
          /\ task' \in {"posting", "sleeping", "crashed"} => current' # NoEvent
          /\ task' = "sleeping" => attempt' < MaxAttempts
      BY <1>t, <2>1, <2>2 DEF BusyInv
    <3> QED
      BY <3>1, <3>2, Zenon DEF BusyInv
  <2> QED
    BY <1>t, <1>u, <2>1, <2>2, <2>3, <2>4 DEF CountTypes
<1>7. CASE Shutdown
  <2>1. /\ shutdown = "not" /\ shutdown' = "awaiting"
        /\ UNCHANGED <<options, task, queue, current, attempt, delivered, failed, dropped, accepted>>
    BY <1>7 DEF Shutdown, workerVars
  <2>2. closing' = TRUE /\ wakeup' = TRUE
    BY <1>7 DEF Shutdown
  <2>3. FlagTypes'
    BY <1>t, <2>1, <2>2, Zenon DEF FlagTypes
  <2>4. BusyInv'
    BY <1>t, <2>1, <2>2, Zenon DEF BusyInv
  <2> QED
    BY <1>t, <1>u, <2>1, <2>3, <2>4 DEF CountTypes
<1>8. CASE ShutdownEnds
  <2>1. /\ shutdown = "awaiting" /\ shutdown' = "done" /\ task' = "none"
        /\ queue' = <<>> /\ current' = NoEvent /\ attempt' = 0
        /\ UNCHANGED <<options, closing, wakeup, delivered, failed, dropped, accepted>>
    BY <1>8 DEF ShutdownEnds
  <2>2. FlagTypes'
    BY <1>t, <2>1, Zenon DEF FlagTypes
  <2>3. CountTypes'
    <3>1. queue' \in Seq(1..accepted) /\ Len(queue') <= MaxQueue
      BY <2>1, LimitsAssumption
    <3>2. current' \in 0..accepted /\ attempt' \in 0..MaxAttempts
      BY <1>t, <2>1, LimitsAssumption DEF CountTypes, NoEvent
    <3> QED
      BY <1>t, <2>1, <3>1, <3>2 DEF CountTypes
  <2>4. BusyInv'
    <3>1. (shutdown # "not" <=> closing)'
      BY <1>t, <2>1, Zenon DEF BusyInv
    <3> QED
      BY <2>1, <3>1, Zenon DEF BusyInv
  <2>5. EveryEventCounted'
    BY <2>1 DEF EveryEventCounted
  <2> QED
    BY <1>r, <2>2, <2>3, <2>4, <2>5
<1>9. CASE ShutdownRaises
  <2>1. /\ shutdown = "awaiting" /\ shutdown' = "raised"
        /\ UNCHANGED <<options, task, closing, queue, wakeup, workerVars, dropped, accepted>>
    BY <1>9 DEF ShutdownRaises
  <2>2. UNCHANGED <<options, task, closing, queue, wakeup, current, attempt, delivered, failed, dropped, accepted>>
    BY <2>1 DEF workerVars
  <2>3. FlagTypes'
    BY <1>t, <2>2, Zenon DEF FlagTypes
  <2>4. BusyInv'
    <3>1. shutdown # "not" /\ shutdown' # "not"
      BY <2>1
    <3>2. (shutdown # "not" <=> closing)'
      BY <1>t, <2>2, <3>1, Zenon DEF BusyInv
    <3> QED
      BY <1>t, <2>2, <3>2, Zenon DEF BusyInv
  <2> QED
    BY <1>t, <1>u, <2>1, <2>2, <2>3, <2>4 DEF CountTypes
<1>10. CASE Stopped \/ UNCHANGED vars
  <2>1. UNCHANGED <<options, task, closing, queue, wakeup, current, attempt, delivered, failed, dropped, accepted, shutdown>>
    BY <1>10 DEF Stopped, vars, workerVars
  <2>2. FlagTypes'
    BY <1>t, <2>1, Zenon DEF FlagTypes
  <2>3. BusyInv'
    BY <1>t, <2>1, Zenon DEF BusyInv
  <2> QED
    BY <1>t, <1>u, <2>1, <2>2, <2>3 DEF CountTypes
<1> QED
  BY <1>1, <1>2, <1>3, <1>4, <1>5, <1>6, <1>7, <1>8, <1>9, <1>10 DEF Next, Worker

-----------------------------------------------------------------------------
\* The variables keep their types; the queue never holds more than MaxQueue events
\* and no event is tried more than MaxAttempts times.
THEOREM TypeCorrect == Spec => []TypeOK
<1>1. IInv => TypeOK
  BY DEF IInv
<1> QED
  BY IInvInit, IInvStep, <1>1, PTL DEF Spec

\* However deliveries fail, crash and are cancelled, every event that was accepted
\* is under exactly one counter, in the queue, or on its way, until async_shutdown
\* clears the queue.
THEOREM EventsAreCounted == Spec => []EveryEventCounted
<1>1. IInv => EveryEventCounted
  BY DEF IInv
<1> QED
  BY IInvInit, IInvStep, <1>1, PTL DEF Spec

-----------------------------------------------------------------------------
\* The forwarder implements Forwarding: the line it shows starts empty, and every
\* step is one of the line's or changes nothing of it.
LEMMA LineInit == Init => Lined!Init
<1> SUFFICES ASSUME Init PROVE Lined!Init
  OBVIOUS
<1>1. InLine = <<>>
  BY DEF Init, InLine, NoEvent
<1>2. Counters = [delivered |-> 0, failed |-> 0, dropped |-> 0]
  BY DEF Init, Counters
<1>3. Open \in BOOLEAN
  BY Zenon DEF Open
<1> QED
  BY <1>1, <1>2, <1>3, Zenon DEF Lined!Init

\* What is in line is the queue, after the event on its way.
LEMMA LineTypes ==
    ASSUME CountTypes, NEW S, 1..accepted \subseteq S
    PROVE  /\ queue \in Seq(S) /\ InLine \in Seq(S) /\ Len(queue) \in Nat
           /\ current = NoEvent => InLine = queue
           /\ current # NoEvent =>
                 /\ current \in S
                 /\ InLine = <<current>> \o queue /\ InLine # <<>>
                 /\ Len(InLine) = Len(queue) + 1
                 /\ Head(InLine) = current /\ Tail(InLine) = queue
                 /\ \A e \in S : <<current>> \o Append(queue, e) = Append(InLine, e)
<1>1. queue \in Seq(S)
  <2>1. queue \in Seq(1..accepted)
    BY DEF CountTypes
  <2> QED
    BY <2>1, SeqMonotonic
<1>2. CASE current = NoEvent
  <2>1. InLine = queue
    BY <1>1, <1>2, NothingBefore DEF InLine
  <2> QED
    BY <1>1, <1>2, <2>1
<1>3. CASE current # NoEvent
  <2>1. current \in S
    BY <1>3 DEF CountTypes, NoEvent
  <2>2. InLine = <<current>> \o queue
    BY <1>3 DEF InLine
  <2> QED
    BY <1>1, <1>3, <2>1, <2>2, OnItsWay
<1> QED
  BY <1>2, <1>3

LEMMA LineStep == IInv /\ [Next]_vars => [Lined!Next]_(Lined!vars)
<1> SUFFICES ASSUME IInv, [Next]_vars PROVE [Lined!Next]_(Lined!vars)
  OBVIOUS
<1>t. TypeOK /\ FlagTypes /\ CountTypes /\ BusyInv
  BY TypeParts DEF IInv
<1>a. accepted \in Nat
  BY <1>t DEF CountTypes
<1>s. ASSUME UNCHANGED <<queue, current, delivered, failed, dropped>>, Open' = Open
      PROVE  UNCHANGED Lined!vars
  BY <1>s DEF Lined!vars, InLine, Counters
<1>1. ASSUME NEW category \in Categories, Enqueue(category) PROVE Lined!Next
  <2>1. /\ accepted' = accepted + 1 /\ accepted < MaxEvents /\ Open
        /\ UNCHANGED <<task, closing, current, delivered, failed>>
    BY <1>1 DEF Enqueue, Open, workerVars
  <2>2. accepted' \in 1..MaxEvents /\ accepted' \in Nat \ {0}
    BY <1>a, <2>1, LimitsAssumption
  <2>3. UNCHANGED Open
    BY <2>1, Zenon DEF Open
  <2>4. 1..accepted \subseteq Nat
    OBVIOUS
  <2>5. /\ queue \in Seq(Nat) /\ InLine \in Seq(Nat) /\ Len(queue) \in Nat
        /\ current = NoEvent => InLine = queue
        /\ current # NoEvent =>
              /\ InLine = <<current>> \o queue /\ InLine # <<>>
              /\ Len(InLine) = Len(queue) + 1
              /\ Head(InLine) = current /\ Tail(InLine) = queue
              /\ \A e \in Nat : <<current>> \o Append(queue, e) = Append(InLine, e)
    BY <1>t, <2>4, LineTypes
  <2>6. CASE Len(queue) < MaxQueue /\ queue' = Append(queue, accepted') /\ dropped' = dropped
    <3>1. Len(InLine) <= MaxQueue
      BY <2>5, <2>6, LimitsAssumption
    <3>2. InLine' = Append(InLine, accepted')
      <4>1. CASE current = NoEvent
        <5>1. InLine' = <<>> \o queue'
          BY <2>1, <4>1 DEF InLine
        <5>2. queue' \in Seq(Nat)
          BY <2>2, <2>5, <2>6, AppendTypes
        <5>3. InLine' = queue'
          BY <5>1, <5>2, NothingBefore
        <5> QED
          BY <2>5, <2>6, <4>1, <5>3
      <4>2. CASE current # NoEvent
        <5>1. InLine' = <<current>> \o queue'
          BY <2>1, <4>2 DEF InLine
        <5> QED
          BY <2>2, <2>5, <2>6, <4>2, <5>1
      <4> QED
        BY <4>1, <4>2
    <3>3. UNCHANGED Counters
      BY <2>1, <2>6 DEF Counters
    <3>4. Lined!Accept(accepted')
      BY <2>1, <2>3, <3>1, <3>2, <3>3, Zenon DEF Lined!Accept
    <3> QED
      BY <2>2, <3>4, Zenon DEF Lined!Next
  <2>7. CASE /\ Len(queue) = MaxQueue /\ queue # <<>>
             /\ queue' = Append(Tail(queue), accepted') /\ dropped' = dropped + 1
    <3>1. Tail(queue) \in Seq(Nat)
      BY <2>5, <2>7, TakeHead
    <3>2. queue' \in Seq(Nat)
      BY <2>2, <2>7, <3>1, AppendTypes
    <3>3. InLine # <<>> /\ Len(InLine) >= MaxQueue
      BY <2>5, <2>7, LimitsAssumption
    <3>4. \/ InLine' = Append(Tail(InLine), accepted')
          \/ /\ Len(InLine) > 1
             /\ InLine' = <<Head(InLine)>> \o Append(Tail(Tail(InLine)), accepted')
      <4>1. CASE current = NoEvent
        <5>1. InLine' = <<>> \o queue'
          BY <2>1, <4>1 DEF InLine
        <5>2. InLine' = queue'
          BY <3>2, <5>1, NothingBefore
        <5> QED
          BY <2>5, <2>7, <4>1, <5>2
      <4>2. CASE current # NoEvent
        <5>1. InLine' = <<current>> \o queue'
          BY <2>1, <4>2 DEF InLine
        <5>2. Len(InLine) > 1
          BY <2>5, <2>7, <4>2, LimitsAssumption
        <5> QED
          BY <2>5, <2>7, <4>2, <5>1, <5>2
      <4> QED
        BY <4>1, <4>2
    <3>5. Counters' = [Counters EXCEPT !.dropped = @ + 1]
      BY <2>1, <2>7 DEF Counters
    <3>6. Lined!Displace(accepted')
      BY <2>1, <2>3, <3>3, <3>4, <3>5, Zenon DEF Lined!Displace
    <3> QED
      BY <2>2, <3>6, Zenon DEF Lined!Next
  <2> QED
    BY <1>1, <1>t, <2>6, <2>7, EnqueueAppends
\* Where the worker goes on from the head of its loop the line is what was in the
\* queue.
<1>h. ASSUME LoopHead, UNCHANGED <<closing, dropped>>, task # "none"
      PROVE  InLine' = queue /\ UNCHANGED Open
  <2>1. wakeup \in BOOLEAN
    BY <1>t, Zenon DEF FlagTypes
  <2>2. /\ InLine' = queue
        /\ \/ task' = "idle" /\ current' = NoEvent
           \/ task' = "posting" /\ current' # NoEvent
    BY <1>h, <1>t, <2>1, LoopHeadTakes, Zenon
  <2>3. task' # "none"
    BY <2>2
  <2> QED
    BY <1>h, <2>2, <2>3, Zenon DEF Open
<1>e. ASSUME current # NoEvent PROVE InLine # <<>> /\ Tail(InLine) = queue
  <2>1. 1..accepted \subseteq Nat
    OBVIOUS
  <2> QED
    BY <1>e, <1>t, <2>1, LineTypes
<1>2. CASE Runs
  <2>1. /\ LoopHead /\ UNCHANGED <<closing, dropped, delivered, failed>>
        /\ task # "none" /\ current = NoEvent
    BY <1>2, <1>t DEF Runs, BusyInv
  <2>2. 1..accepted \subseteq Nat
    OBVIOUS
  <2>3. InLine = queue
    BY <1>t, <2>1, <2>2, LineTypes
  <2>4. UNCHANGED <<InLine, Open>>
    BY <1>h, <2>1, <2>3
  <2>5. UNCHANGED Counters
    BY <2>1 DEF Counters
  <2> QED
    BY <2>4, <2>5 DEF Lined!vars
<1>3. CASE Delivered
  <2>1. /\ LoopHead /\ UNCHANGED <<closing, dropped, failed>> /\ delivered' = delivered + 1
        /\ task # "none" /\ current # NoEvent
    BY <1>3, <1>t DEF Delivered, BusyInv
  <2>2. InLine # <<>> /\ InLine' = Tail(InLine) /\ UNCHANGED Open
    BY <1>e, <1>h, <2>1
  <2>3. Counters' = [Counters EXCEPT !["delivered"] = @ + 1]
    BY <2>1 DEF Counters
  <2>4. Lined!Serve("delivered")
    BY <2>2, <2>3, Zenon DEF Lined!Serve
  <2> QED
    BY <2>4 DEF Lined!Next
<1>4. CASE AttemptFails
  <2>1. CASE attempt = MaxAttempts
    <3>1. attempt \in Nat /\ MaxAttempts \in Nat
      BY <1>t, LimitsAssumption DEF CountTypes
    <3>2. /\ LoopHead /\ UNCHANGED <<closing, dropped, delivered>> /\ failed' = failed + 1
          /\ task # "none" /\ current # NoEvent
      BY <1>4, <1>t, <2>1, <3>1 DEF AttemptFails, BusyInv
    <3>3. InLine # <<>> /\ InLine' = Tail(InLine) /\ UNCHANGED Open
      BY <1>e, <1>h, <3>2
    <3>4. Counters' = [Counters EXCEPT !["failed"] = @ + 1]
      BY <3>2 DEF Counters
    <3>5. Lined!Serve("failed")
      BY <3>3, <3>4, Zenon DEF Lined!Serve
    <3> QED
      BY <3>5 DEF Lined!Next
  <2>2. CASE attempt # MaxAttempts
    <3>1. /\ task' # "none" /\ task # "none"
          /\ UNCHANGED <<queue, workerVars, closing, dropped>>
      BY <1>4, <2>2 DEF AttemptFails
    <3>2. Open' = Open
      BY <3>1, Zenon DEF Open
    <3> QED
      BY <1>s, <3>1, <3>2 DEF workerVars
  <2> QED
    BY <2>1, <2>2
<1>5. CASE Retries \/ Crashes
  <2>1. /\ task' # "none" /\ task # "none"
        /\ UNCHANGED <<queue, current, delivered, failed, closing, dropped>>
    BY <1>5 DEF Retries, Crashes, workerVars
  <2>2. Open' = Open
    BY <2>1, Zenon DEF Open
  <2> QED
    BY <1>s, <2>1, <2>2
<1>6. CASE ShutdownRaises \/ Stopped \/ UNCHANGED vars
  <2>1. UNCHANGED <<queue, current, delivered, failed, closing, dropped, task>>
    BY <1>6 DEF ShutdownRaises, Stopped, vars, workerVars
  <2>2. Open' = Open
    BY <2>1, Zenon DEF Open
  <2> QED
    BY <1>s, <2>1, <2>2
<1>7. CASE Shutdown
  <2>1. UNCHANGED <<queue, current, delivered, failed, dropped>> /\ closing' = TRUE
    BY <1>7 DEF Shutdown, workerVars
  <2>2. UNCHANGED <<InLine, Counters>>
    BY <2>1 DEF InLine, Counters
  <2>3. Open' = FALSE
    BY <2>1, Zenon DEF Open
  <2>4. CASE Open
    BY <2>2, <2>3, <2>4, Zenon DEF Lined!Next, Lined!Close
  <2>5. CASE ~Open
    <3>1. Open' = Open
      BY <2>3, <2>5, Zenon DEF Open
    <3> QED
      BY <1>s, <2>1, <3>1
  <2> QED
    BY <2>4, <2>5
<1>8. CASE TakesCancel
  <2>1. closing /\ UNCHANGED <<queue, current, delivered, failed, dropped, closing>>
    BY <1>8 DEF TakesCancel, workerVars
  <2>2. Open' = Open
    BY <2>1, Zenon DEF Open
  <2> QED
    BY <1>s, <2>1, <2>2
<1>9. CASE ShutdownEnds
  <2>1. /\ shutdown = "awaiting" /\ task' = "none" /\ queue' = <<>> /\ current' = NoEvent
        /\ UNCHANGED <<closing, delivered, failed, dropped>>
    BY <1>9 DEF ShutdownEnds
  <2>2. InLine' = <<>>
    BY <2>1 DEF InLine
  <2>3. UNCHANGED Counters
    BY <2>1 DEF Counters
  <2>4. shutdown # "not"
    BY <2>1
  <2>5. closing
    BY <1>t, <2>4, Zenon DEF BusyInv
  <2>6. ~Open /\ UNCHANGED Open
    BY <2>1, <2>5, Zenon DEF Open
  <2>7. Lined!Discard
    BY <2>2, <2>3, <2>6, Zenon DEF Lined!Discard
  <2> QED
    BY <2>7 DEF Lined!Next
<1> QED
  BY <1>1, <1>2, <1>3, <1>4, <1>5, <1>6, <1>7, <1>8, <1>9 DEF Next, Worker

\* Events leave the forwarder in the order in which they were accepted, each once
\* and under one counter, and no more than MaxQueue ever wait: the forwarder
\* implements Forwarding for every queue size and number of attempts.
THEOREM ForwarderKeepsOrder == Spec => ForwardsInOrder
<1>1. IInv /\ [Next]_vars => [Lined!Next]_(Lined!vars)
  BY LineStep
<1> QED
  BY IInvInit, IInvStep, LineInit, <1>1, PTL DEF Spec, ForwardsInOrder, Lined!Spec
=============================================================================
