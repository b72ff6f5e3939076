------------------------ MODULE OifConnection_proofs ------------------------
(***************************************************************************)
(* Theorems about OifConnection, for any set of tasks and commands and any *)
(* bounds.                                                                 *)
(***************************************************************************)
EXTENDS OifConnection, SequenceTheorems, TLAPS

------------------------------------------------------------------------------
(* Data *)

\* Removing one element of a sequence leaves a sequence over the same set
\* (a task leaves the waiter list of the command lock).
LEMMA RemoveAtType ==
    ASSUME NEW S, NEW s \in Seq(S), NEW i \in 1 .. Len(s)
    PROVE  RemoveAt(s, i) \in Seq(S)
<1>1. SubSeq(s, 1, i - 1) \in Seq(S)
  BY SubSeqProperties
<1>2. SubSeq(s, i + 1, Len(s)) \in Seq(S)
  BY SubSeqProperties
<1> QED
  BY <1>1, <1>2, ConcatProperties DEF RemoveAt

\* The queue items and the lines have their types (Reply, Failure).
LEMMA ItemTypes ==
    /\ Failure \in Item
    /\ \A n, k \in Nat : \A w \in Words : Reply(n, w, k) \in Item /\ Reply(n, w, k) # Failure
    /\ \A item \in Item : item.id \in Nat /\ item.at \in Nat
    /\ \A line \in Line : /\ line.id \in Nat
                          /\ line.kind \in {"reply", "garbage", "oversized", "event"}
                          /\ line.kind # "event" => line.word \in Words
    /\ \A r \in Requests : Keyword[r] \in Words
<1>1. Failure \in Item
  BY DEF Item
<1>2. \A n, k \in Nat : \A w \in Words : Reply(n, w, k) \in Item /\ Reply(n, w, k) # Failure
  BY DEF Item, Reply, Failure
<1>3. ASSUME NEW item \in Item PROVE item.id \in Nat /\ item.at \in Nat
  <2>1. CASE item \in [kind : {"reply"}, id : Nat, word : Words, at : Nat]
    BY <2>1
  <2>2. CASE item = Failure
    BY <2>2 DEF Failure
  <2> QED
    BY <2>1, <2>2 DEF Item
<1>4. ASSUME NEW line \in Line
      PROVE  /\ line.id \in Nat
             /\ line.kind \in {"reply", "garbage", "oversized", "event"}
             /\ line.kind # "event" => line.word \in Words
  <2>1. CASE line \in [kind : {"event"}, id : Nat, word : {""}]
    BY <2>1
  <2>2. CASE line \in [kind : {"reply", "garbage", "oversized"}, id : Nat, word : Words]
    BY <2>2
  <2> QED
    BY <2>1, <2>2 DEF Line
<1>5. \A r \in Requests : Keyword[r] \in Words
  BY DEF Words
<1> QED
  BY <1>1, <1>2, <1>3, <1>4, <1>5

\* The outcome of a reply and the record of a finished command have their types.
LEMMA ResultType ==
    ASSUME TypeOK, NEW c \in Callers, NEW item \in Item,
           NEW outcome \in Answered \cup Abandoned \cup {"lost"}
    PROVE  ResultOf(c, outcome, item) \in Result
BY ItemTypes DEF TypeOK, ResultOf, Result, Command, Answered, Abandoned

LEMMA OutcomeType ==
    \A item, r : Outcome(item, r) \in Answered \cup {"lost"}
BY DEF Outcome, Answered

------------------------------------------------------------------------------
(* Types and the reply queues *)

\* FailureMeansDown is not inductive: connect() makes a session usable, so its
\* queue must be known to be empty from the moment it is created until the dial
\* succeeds, and the queues of later connect() calls must not exist yet.
QueueInv ==
    /\ FailureMeansDown
    /\ \A s \in Sessions : s > epoch => replies[s] = <<>>
    /\ connPhase = "dialing" => replies[epoch] = <<>> /\ reader = "none"
    /\ connPhase \in {"closing", "closingToDial"} => reader = "none"
    /\ connPhase = "closingToDial" => epoch < MaxSessions

BaseInv == TypeOK /\ QueueInv

\* Initially every queue is empty and nothing is connected.
LEMMA BaseInit == Init => BaseInv
<1> SUFFICES ASSUME Init PROVE BaseInv
  OBVIOUS
<1>1. TypeOK
  <2>1. 0 \in Sessions
    BY BoundsAssumption DEF Sessions
  <2>2. current \in [Callers -> Command]
    BY <2>1, RequestsAssumption DEF Init, Command, NoCommand
  <2>3. /\ replies \in [Sessions -> Seq(Item)]
        /\ toServer \in Seq([id : Nat, request : Requests])
        /\ fromServer \in Seq(Line)
        /\ delivered \in Seq(Nat)
        /\ waiters \in Seq(Callers)
    BY EmptySeq DEF Init
  <2> QED
    BY <2>1, <2>2, <2>3 DEF Init, TypeOK
<1>2. QueueInv
  BY BoundsAssumption DEF Init, QueueInv, FailureMeansDown, Connected, Sessions
<1> QED
  BY <1>1, <1>2 DEF BaseInv

\* Taking the first item of a queue, or adding an item, keeps the other items.
LEMMA QueueStep ==
    ASSUME NEW q \in Seq(Item)
    PROVE  /\ FailureAt(q) = {} => Drain(q) = <<>>
           /\ q # <<>> => /\ Head(q) \in Item
                          /\ Tail(q) \in Seq(Item)
                          /\ FailureAt(q) = {} => FailureAt(Tail(q)) = {}
           /\ \A item \in Item :
                 /\ Append(q, item) \in Seq(Item)
                 /\ item # Failure /\ FailureAt(q) = {} => FailureAt(Append(q, item)) = {}
<1>1. FailureAt(q) = {} => Drain(q) = <<>>
  BY DEF Drain
<1>2. ASSUME q # <<>>
      PROVE  /\ Head(q) \in Item
             /\ Tail(q) \in Seq(Item)
             /\ FailureAt(q) = {} => FailureAt(Tail(q)) = {}
  <2>1. /\ Head(q) \in Item
        /\ Tail(q) \in Seq(Item)
        /\ Len(Tail(q)) = Len(q) - 1
        /\ \A i \in 1 .. Len(Tail(q)) : Tail(q)[i] = q[i + 1]
    BY <1>2, HeadTailProperties
  <2>2. Len(q) \in Nat
    BY LenProperties
  <2>3. \A i \in 1 .. Len(Tail(q)) : i + 1 \in 1 .. Len(q)
    BY <2>1, <2>2
  <2> QED
    BY <2>1, <2>3 DEF FailureAt
<1>3. ASSUME NEW item \in Item
      PROVE  /\ Append(q, item) \in Seq(Item)
             /\ item # Failure /\ FailureAt(q) = {} => FailureAt(Append(q, item)) = {}
  <2>1. /\ Append(q, item) \in Seq(Item)
        /\ Len(Append(q, item)) = Len(q) + 1
        /\ \A i \in 1 .. Len(q) : Append(q, item)[i] = q[i]
        /\ Append(q, item)[Len(q) + 1] = item
    BY AppendProperties
  <2>2. Len(q) \in Nat
    BY LenProperties
  <2>3. \A i \in 1 .. Len(Append(q, item)) : i \in 1 .. Len(q) \/ i = Len(q) + 1
    BY <2>1, <2>2
  <2> QED
    BY <2>1, <2>3 DEF FailureAt
<1> QED
  BY <1>1, <1>2, <1>3

\* Leaving _execute_lines touches neither the queues nor the reader, and moves
\* connect() only to its end or to its except clause.
LEMMA LeaveKeeps ==
    ASSUME BaseInv, NEW c \in Callers, NEW outcome, Leave(c, outcome)
    PROVE  /\ pc' \in [Callers -> {"idle", "lock", "sending", "awaiting"}]
           /\ current' \in [Callers -> Command]
           /\ connPhase' \in {connPhase, "idle", "close"}
           /\ UNCHANGED <<epoch, transport, reader, disconnected>>
<1>1. NoCommand(Login) \in Command
  BY RequestsAssumption, BoundsAssumption DEF NoCommand, Command, Sessions
<1> QED
  BY <1>1 DEF Leave, BaseInv, TypeOK

\* The same for the end of a written command, which also adds a result.
LEMMA FinishKeeps ==
    ASSUME BaseInv, NEW c \in Callers, NEW item \in Item,
           NEW outcome \in Answered \cup Abandoned \cup {"lost"},
           Finish(c, outcome, item)
    PROVE  /\ pc' \in [Callers -> {"idle", "lock", "sending", "awaiting"}]
           /\ current' \in [Callers -> Command]
           /\ connPhase' \in {connPhase, "idle", "close"}
           /\ UNCHANGED <<epoch, transport, reader, disconnected, waiters, lastId>>
           /\ holder' \in Callers \cup {NoCaller}
           /\ results' \subseteq Result
<1>1. results' \subseteq Result
  BY ResultType DEF Finish, BaseInv, TypeOK
<1> QED
  BY <1>1, LeaveKeeps DEF Finish

\* What a step must keep of the queues for QueueInv to survive while the reader,
\* the writer and the connect() count do not change.
LEMMA QueueInvKept ==
    ASSUME BaseInv, UNCHANGED <<epoch, transport, reader>>,
           connPhase' \in {connPhase, "idle", "close"},
           replies' \in [Sessions -> Seq(Item)],
           \A s \in Sessions :
               /\ replies[s] = <<>> => replies'[s] = <<>>
               /\ FailureAt(replies[s]) = {} => FailureAt(replies'[s]) = {}
    PROVE  QueueInv'
BY DEF BaseInv, QueueInv, TypeOK, FailureMeansDown, Connected, FailureAt

\* Every step of a task in _execute_lines keeps the invariant.
LEMMA BaseExchange ==
    ASSUME BaseInv, NEW c \in Callers, Exchange(c)
    PROVE  BaseInv'
<1> USE CallersAssumption, RequestsAssumption, BoundsAssumption
<1> USE DEF BaseInv, TypeOK
<1>0. epoch \in Sessions /\ Sessions \subseteq Nat /\ 0 \in Sessions
  BY DEF Sessions
<1>1. ASSUME NEW r \in Requests, Call(c, r) PROVE BaseInv'
  <2>1. NoCommand(r) \in Command
    BY <1>0 DEF NoCommand, Command
  <2>2. Append(waiters, c) \in Seq(Callers)
    BY AppendProperties
  <2>3. TypeOK'
    BY <1>1, <2>1, <2>2 DEF Call, AcquireLock, connVars, wireVars
  <2>4. QueueInv'
    BY <1>1 DEF Call, AcquireLock, connVars, wireVars, QueueInv, FailureMeansDown, Connected
  <2> QED
    BY <2>3, <2>4
<1>2. CASE SendRefused(c)
  <2>1. waiters' \in Seq(Callers)
    BY <1>2, HeadTailProperties DEF SendRefused, Granted
  <2>2. Leave(c, "lost")
    BY <1>2 DEF SendRefused
  <2>3. TypeOK'
    BY <1>2, <2>1, <2>2, LeaveKeeps DEF SendRefused, wireVars
  <2>4. QueueInv'
    BY <1>2, <2>2, LeaveKeeps, QueueInvKept DEF SendRefused
  <2> QED
    BY <2>3, <2>4
<1>3. CASE Send(c)
  <2>1. waiters' \in Seq(Callers)
    BY <1>3, HeadTailProperties DEF Send, Granted
  <2>2. Drain(replies[epoch]) = <<>>
    BY <1>3, <1>0, QueueStep DEF Send, QueueInv, FailureMeansDown
  <2>3. replies' = [replies EXCEPT ![epoch] = <<>>]
    BY <1>3, <2>2 DEF Send
  <2>4. replies' \in [Sessions -> Seq(Item)]
    BY <2>3, <1>0, EmptySeq
  <2>5. current' \in [Callers -> Command]
    <3>1. current[c] \in Command
      OBVIOUS
    <3>2. [id |-> lastId + 1, request |-> current[c].request,
           session |-> epoch, queue |-> epoch] \in Command
      BY <3>1, <1>0 DEF Command
    <3> QED
      BY <1>3, <3>2 DEF Send
  <2>6. toServer' \in Seq([id : Nat, request : Requests])
    <3>1. [id |-> lastId + 1, request |-> current[c].request] \in [id : Nat, request : Requests]
      BY DEF Command
    <3>2. Append(toServer, [id |-> lastId + 1, request |-> current[c].request])
            \in Seq([id : Nat, request : Requests])
      BY <3>1, AppendProperties
    <3> QED
      BY <1>3, <3>2 DEF Send
  <2>7. TypeOK'
    BY <1>3, <2>1, <2>4, <2>5, <2>6 DEF Send, connVars
  <2>8. QueueInv'
    BY <1>3, <2>3, <2>4, QueueInvKept DEF Send, connVars, FailureAt
  <2> QED
    BY <2>7, <2>8
<1>4. CASE Sent(c)
  <2>1. current' \in [Callers -> Command]
    BY <1>4, <1>0 DEF Sent, Command
  <2>2. TypeOK'
    BY <1>4, <2>1 DEF Sent, connVars, wireVars
  <2>3. QueueInv'
    BY <1>4, QueueInvKept DEF Sent, connVars
  <2> QED
    BY <2>2, <2>3
<1>5. CASE SendFailed(c)
  <2>1. Finish(c, "lost", Failure) /\ Failure \in Item /\ UNCHANGED <<replies, wireVars, delivered>>
    BY <1>5, ItemTypes DEF SendFailed
  <2>2. "lost" \in Answered \cup Abandoned \cup {"lost"}
    BY DEF Abandoned
  <2>3. TypeOK'
    BY <2>1, <2>2, FinishKeeps DEF wireVars
  <2>4. QueueInv'
    BY <2>1, <2>2, FinishKeeps, QueueInvKept
  <2> QED
    BY <2>3, <2>4
<1>6. CASE Receive(c)
  <2> DEFINE s == current[c].queue
             item == Head(replies[s])
             outcome == Outcome(item, current[c].request)
  <2>1. s \in Sessions /\ replies[s] \in Seq(Item) /\ replies[s] # <<>>
    BY <1>6 DEF Receive, Command
  <2>2. item \in Item /\ Tail(replies[s]) \in Seq(Item)
    BY <2>1, QueueStep
  <2>3. outcome \in Answered \cup Abandoned \cup {"lost"}
    BY OutcomeType
  <2>4. /\ Finish(c, outcome, item)
        /\ replies' = [replies EXCEPT ![s] = Tail(@)]
        /\ UNCHANGED <<wireVars, delivered>>
    BY <1>6 DEF Receive
  <2>5. replies' \in [Sessions -> Seq(Item)]
    BY <2>1, <2>2, <2>4
  <2> HIDE DEF item, outcome
  <2>6. /\ pc' \in [Callers -> {"idle", "lock", "sending", "awaiting"}]
        /\ current' \in [Callers -> Command]
        /\ connPhase' \in {connPhase, "idle", "close"}
        /\ UNCHANGED <<epoch, transport, reader, disconnected, waiters, lastId>>
        /\ holder' \in Callers \cup {NoCaller}
        /\ results' \subseteq Result
    BY <2>2, <2>3, <2>4, FinishKeeps
  <2>7. TypeOK'
    BY <2>4, <2>5, <2>6 DEF wireVars
  <2>8. \A t \in Sessions :
            /\ replies[t] = <<>> => replies'[t] = <<>>
            /\ FailureAt(replies[t]) = {} => FailureAt(replies'[t]) = {}
    BY <2>1, <2>4, QueueStep
  <2>9. QueueInv'
    BY <2>5, <2>6, <2>8, QueueInvKept
  <2> QED
    BY <2>7, <2>9
<1>7. CASE Timeout(c)
  <2>1. Finish(c, "timeout", Failure) /\ Failure \in Item /\ UNCHANGED <<replies, wireVars, delivered>>
    BY <1>7, ItemTypes DEF Timeout
  <2>2. "timeout" \in Answered \cup Abandoned \cup {"lost"}
    BY DEF Abandoned
  <2>3. TypeOK'
    BY <2>1, <2>2, FinishKeeps DEF wireVars
  <2>4. QueueInv'
    BY <2>1, <2>2, FinishKeeps, QueueInvKept
  <2> QED
    BY <2>3, <2>4
<1>8. CASE CancelWaiting(c)
  <2>1. waiters' \in Seq(Callers)
    BY <1>8, RemoveAtType DEF CancelWaiting
  <2>2. Leave(c, "cancelled")
    BY <1>8 DEF CancelWaiting
  <2>3. TypeOK'
    BY <1>8, <2>1, <2>2, LeaveKeeps DEF CancelWaiting, wireVars
  <2>4. QueueInv'
    BY <1>8, <2>2, LeaveKeeps, QueueInvKept DEF CancelWaiting
  <2> QED
    BY <2>3, <2>4
<1>9. CASE CancelSent(c)
  <2>1. Finish(c, "cancelled", Failure) /\ Failure \in Item /\ UNCHANGED <<replies, wireVars, delivered>>
    BY <1>9, ItemTypes DEF CancelSent
  <2>2. "cancelled" \in Answered \cup Abandoned \cup {"lost"}
    BY DEF Abandoned
  <2>3. TypeOK'
    BY <2>1, <2>2, FinishKeeps DEF wireVars
  <2>4. QueueInv'
    BY <2>1, <2>2, FinishKeeps, QueueInvKept
  <2> QED
    BY <2>3, <2>4
<1> QED
  BY <1>1, <1>2, <1>3, <1>4, <1>5, <1>6, <1>7, <1>8, <1>9 DEF Exchange

\* Every step of the server and the network keeps the invariant.
LEMMA BaseNetwork ==
    ASSUME BaseInv, Network
    PROVE  BaseInv'
<1> USE DEF BaseInv, TypeOK
<1>1. CASE Serve
  <2> DEFINE cmd == Head(toServer)
  <2>1. toServer # <<>> /\ UNCHANGED <<connVars, replies, callVars, peerOpen, pushed, delivered>>
    BY <1>1 DEF Serve
  <2>2. cmd \in [id : Nat, request : Requests] /\ Tail(toServer) \in Seq([id : Nat, request : Requests])
    BY <2>1, HeadTailProperties
  <2>3. PICK w \in {Keyword[cmd.request], "ERROR"}, k \in {"reply", "garbage", "oversized"} :
            fromServer' = Append(fromServer, [kind |-> k, id |-> cmd.id, word |-> w])
    BY <1>1 DEF Serve
  <2>4. w \in Words
    BY <2>2, <2>3 DEF Words
  <2>5. [kind |-> k, id |-> cmd.id, word |-> w] \in Line
    BY <2>2, <2>3, <2>4 DEF Line
  <2>6. fromServer' \in Seq(Line) /\ toServer' \in Seq([id : Nat, request : Requests])
    BY <1>1, <2>2, <2>3, <2>5, AppendProperties DEF Serve
  <2>7. TypeOK'
    BY <2>1, <2>6 DEF connVars, callVars
  <2>8. QueueInv'
    BY <2>1, QueueInvKept DEF connVars
  <2> QED
    BY <2>7, <2>8
<1>2. CASE Push
  <2> DEFINE line == [kind |-> "event", id |-> pushed + 1, word |-> ""]
  <2>1. line \in [kind : {"event"}, id : Nat, word : {""}]
    OBVIOUS
  <2>2. line \in Line
    BY <2>1 DEF Line
  <2> HIDE DEF line
  <2>3. fromServer' = Append(fromServer, line)
    BY <1>2 DEF Push, line
  <2>4. fromServer' \in Seq(Line)
    BY <2>2, <2>3, AppendProperties
  <2>5. pushed' \in Nat
    <3>1. pushed' = pushed + 1
      BY <1>2 DEF Push
    <3> QED
      BY <3>1
  <2>7. TypeOK'
    BY <1>2, <2>4, <2>5 DEF Push, connVars, callVars
  <2>6. QueueInv'
    BY <1>2, QueueInvKept DEF Push, connVars
  <2> QED
    BY <2>6, <2>7
<1>3. CASE PeerCloses
  <2>1. TypeOK'
    BY <1>3, EmptySeq DEF PeerCloses, connVars, callVars
  <2>2. QueueInv'
    BY <1>3, QueueInvKept DEF PeerCloses, connVars
  <2> QED
    BY <2>1, <2>2
<1>4. CASE ConnectionLost
  <2>1. TypeOK'
    BY <1>4 DEF ConnectionLost, wireVars, callVars
  <2>2. QueueInv'
    BY <1>4 DEF ConnectionLost, QueueInv, FailureMeansDown, Connected
  <2> QED
    BY <2>1, <2>2
<1> QED
  BY <1>1, <1>2, <1>3, <1>4 DEF Network

\* Every step of the reader keeps the invariant: it queues an exception only as
\* it stops.
LEMMA BaseReader ==
    ASSUME BaseInv, ReadLoop
    PROVE  BaseInv'
<1> USE DEF BaseInv, TypeOK
<1>0. epoch \in Sessions /\ replies[epoch] \in Seq(Item)
  OBVIOUS
<1>1. ASSUME ReaderStops
      PROVE  /\ epoch' = epoch /\ connPhase' = connPhase /\ transport' = transport
             /\ reader' = "done" /\ disconnected' = TRUE
             /\ replies' \in [Sessions -> Seq(Item)]
             /\ reader = "running" => QueueInv'
  <2>1. replies' \in [Sessions -> Seq(Item)]
    BY <1>0, <1>1, QueueStep, ItemTypes DEF ReaderStops
  <2>2. \A s \in Sessions : s # epoch => replies'[s] = replies[s]
    BY <1>1 DEF ReaderStops
  <2>3. \A s \in Sessions : s \in Int /\ (s > epoch => s # epoch)
    BY <1>0, BoundsAssumption DEF Sessions
  <2>4. ASSUME reader = "running" PROVE QueueInv'
    <3>1. connPhase \notin {"dialing", "closing", "closingToDial"}
      BY <2>4 DEF QueueInv
    <3>2. FailureMeansDown'
      BY <1>1 DEF ReaderStops, FailureMeansDown, Connected
    <3>3. \A s \in Sessions : s > epoch => replies'[s] = <<>>
      BY <2>2, <2>3 DEF QueueInv
    <3> QED
      BY <1>1, <3>1, <3>2, <3>3 DEF ReaderStops, QueueInv
  <2> QED
    BY <1>1, <2>1, <2>4 DEF ReaderStops
<1>2. CASE ReadLine
  <2> DEFINE line == Head(fromServer)
  <2>1. /\ reader = "running"
        /\ fromServer # <<>> /\ fromServer' = Tail(fromServer)
        /\ UNCHANGED <<callVars, toServer, peerOpen, pushed>>
    BY <1>2 DEF ReadLine
  <2>2. line \in Line /\ fromServer' \in Seq(Line)
    BY <2>1, HeadTailProperties
  <2>3. CASE /\ line.kind = "reply"
             /\ replies' = [replies EXCEPT ![epoch] =
                               Append(@, Reply(line.id, line.word, lastId))]
             /\ UNCHANGED <<connVars, delivered>>
    <3> DEFINE item == Reply(line.id, line.word, lastId)
    <3>1. item \in Item /\ item # Failure
      BY <2>2, <2>3, ItemTypes
    <3> HIDE DEF item
    <3>2. /\ Append(replies[epoch], item) \in Seq(Item)
          /\ FailureAt(replies[epoch]) = {} => FailureAt(Append(replies[epoch], item)) = {}
      BY <1>0, <3>1, QueueStep
    <3>3. replies' = [replies EXCEPT ![epoch] = Append(@, item)]
      BY <2>3 DEF item
    <3>4. replies' \in [Sessions -> Seq(Item)]
      BY <1>0, <3>2, <3>3
    <3>5. TypeOK'
      BY <2>1, <2>2, <2>3, <3>4 DEF callVars, connVars
    <3>6. QueueInv'
      BY <1>0, <2>1, <2>3, <3>2, <3>3, BoundsAssumption
         DEF connVars, QueueInv, FailureMeansDown, Connected, Sessions
    <3> QED
      BY <3>5, <3>6
  <2>4. CASE line.kind = "event" /\ delivered' = Append(delivered, line.id)
             /\ UNCHANGED <<connVars, replies>>
    <3>1. delivered' \in Seq(Nat)
      BY <2>2, <2>4, ItemTypes, AppendProperties
    <3>2. TypeOK'
      BY <2>1, <2>2, <2>4, <3>1 DEF callVars, connVars
    <3>3. QueueInv'
      BY <2>4, QueueInvKept DEF connVars
    <3> QED
      BY <3>2, <3>3
  <2>5. CASE line.kind = "garbage" /\ UNCHANGED <<connVars, replies, delivered>>
    <3>1. TypeOK'
      BY <2>1, <2>2, <2>5 DEF callVars, connVars
    <3>2. QueueInv'
      BY <2>5, QueueInvKept DEF connVars
    <3> QED
      BY <3>1, <3>2
  <2>6. CASE line.kind = "oversized" /\ ReaderStops /\ UNCHANGED delivered
    <3>1. TypeOK'
      BY <1>1, <2>1, <2>2, <2>6 DEF callVars
    <3> QED
      BY <1>1, <2>1, <2>6, <3>1
  <2> QED
    BY <1>2, <2>3, <2>4, <2>5, <2>6 DEF ReadLine
<1>3. CASE ReadEof
  <2>1. TypeOK'
    BY <1>1, <1>3 DEF ReadEof, callVars, wireVars
  <2> QED
    BY <1>1, <1>3, <2>1 DEF ReadEof
<1> QED
  BY <1>2, <1>3 DEF ReadLoop

\* Every step of connect() and close() keeps the invariant.
LEMMA BaseLifecycle ==
    ASSUME BaseInv, Lifecycle
    PROVE  BaseInv'
<1> USE BoundsAssumption, RequestsAssumption, CallersAssumption
<1> USE DEF BaseInv, TypeOK
<1>0. /\ epoch \in Sessions /\ replies[epoch] \in Seq(Item)
      /\ Append(replies[epoch], Failure) \in Seq(Item)
  BY QueueStep, ItemTypes
<1>1. ASSUME NEW next \in {"closing", "closingToDial"}, CloseBegins(next),
             next = "closingToDial" => epoch < MaxSessions
      PROVE  BaseInv'
  <2>1. TypeOK'
    BY <1>1, EmptySeq DEF CloseBegins, callVars
  <2>2. QueueInv'
    BY <1>1 DEF CloseBegins, QueueInv, FailureMeansDown, Connected
  <2> QED
    BY <2>1, <2>2
<1>2. CASE Connect
  BY <1>1, <1>2 DEF Connect
<1>3. CASE Close
  BY <1>1, <1>3 DEF Close
<1>4. CASE AbortConnect
  BY <1>1, <1>4 DEF AbortConnect
<1>5. CASE CloseEnds
  <2>1. replies' \in [Sessions -> Seq(Item)]
    BY <1>0, <1>5 DEF CloseEnds
  <2>2. TypeOK'
    BY <1>5, <2>1 DEF CloseEnds, callVars, wireVars
  <2>3. \A s \in Sessions : s > epoch => s # epoch
    BY <1>0 DEF Sessions
  <2>4. QueueInv'
    BY <1>5, <2>3 DEF CloseEnds, QueueInv, FailureMeansDown, Connected
  <2> QED
    BY <2>2, <2>4
<1>6. CASE Dial
  <2>1. epoch + 1 \in Sessions
    BY <1>6 DEF Dial, QueueInv, Sessions
  <2>2. replies' \in [Sessions -> Seq(Item)]
    BY <1>0, <1>6 DEF Dial
  <2>3. TypeOK'
    BY <1>6, <2>1, <2>2 DEF Dial, callVars, wireVars
  <2>4. ASSUME NEW s \in Sessions, s > epoch PROVE replies'[s] = <<>>
    <3>1. s # epoch
      BY <1>0, <2>4 DEF Sessions
    <3>2. replies' = [replies EXCEPT ![epoch] = Append(@, Failure)]
      BY <1>6 DEF Dial
    <3> QED
      BY <2>4, <3>1, <3>2 DEF QueueInv
  <2>5. \A s \in Sessions : s > epoch + 1 => s > epoch
    BY <1>0 DEF Sessions
  <2>6. reader' = "none" /\ connPhase' = "dialing" /\ epoch' = epoch + 1 /\ epoch + 1 > epoch
    BY <1>0, <1>6 DEF Dial, QueueInv, Sessions
  <2>7. QueueInv'
    BY <2>1, <2>4, <2>5, <2>6 DEF QueueInv, FailureMeansDown, Connected
  <2> QED
    BY <2>3, <2>7
<1>7. CASE DialFails
  <2>1. TypeOK'
    BY <1>7 DEF DialFails, callVars, wireVars
  <2>2. QueueInv'
    BY <1>7 DEF DialFails, QueueInv, FailureMeansDown, Connected
  <2> QED
    BY <2>1, <2>2
<1>8. CASE DialOk
  <2>1. NoCommand(Login) \in Command
    BY DEF NoCommand, Command, Sessions
  <2>2. Append(waiters, Owner) \in Seq(Callers)
    BY AppendProperties
  <2>3. TypeOK'
    BY <1>8, <2>1, <2>2 DEF DialOk, AcquireLock
  <2>4. FailureAt(replies[epoch]) = {}
    BY <1>8 DEF DialOk, QueueInv, FailureAt
  <2>5. QueueInv'
    BY <1>8, <2>4 DEF DialOk, AcquireLock, QueueInv, FailureMeansDown
  <2> QED
    BY <2>3, <2>5
<1> QED
  BY <1>2, <1>3, <1>4, <1>5, <1>6, <1>7, <1>8 DEF Lifecycle

\* The types, and the emptiness facts about the reply queues, always hold.
THEOREM BaseInvariant == Spec => []BaseInv
<1>1. BaseInv /\ [Next]_vars => BaseInv'
  <2> SUFFICES ASSUME BaseInv, [Next]_vars PROVE BaseInv'
    OBVIOUS
  <2>1. CASE Next
    BY <2>1, BaseExchange, BaseNetwork, BaseReader, BaseLifecycle DEF Next
  <2>2. CASE UNCHANGED vars
    BY <2>2 DEF vars, connVars, callVars, wireVars, BaseInv, TypeOK, QueueInv,
                FailureMeansDown, Connected
  <2> QED
    BY <2>1, <2>2
<1> QED
  BY <1>1, BaseInit, PTL DEF Spec

\* Every variable always has its type (all of OifConnection).
THEOREM TypeCorrect == Spec => []TypeOK
<1>1. BaseInv => TypeOK
  BY DEF BaseInv
<1> QED
  BY <1>1, BaseInvariant, PTL

\* No exception is ever queued on a session that is still usable, so the drain
\* that starts a command always empties the queue (_drain_stale_replies).
THEOREM DrainIsComplete == Spec => []FailureMeansDown
<1>1. BaseInv => FailureMeansDown
  BY DEF BaseInv, QueueInv
<1> QED
  BY <1>1, BaseInvariant, PTL

------------------------------------------------------------------------------
(* AnsweredAfterAsked *)

\* Every reply in q was read after command n was written.
ReadSince(q, n) == \A i \in 1 .. Len(q) : q[i] # Failure => q[i].at >= n

\* AnsweredAfterAsked speaks of finished commands; a command that is still being
\* exchanged must be followed from the drain on: what its queue holds is at least
\* as recent as the command.
AnswerInv ==
    /\ AnsweredAfterAsked
    /\ \A c \in Callers :
          /\ current[c].id <= lastId
          /\ pc[c] = "sending" => ReadSince(replies[epoch], current[c].id)
          /\ pc[c] = "awaiting" => ReadSince(replies[current[c].queue], current[c].id)

\* Queue operations preserve ReadSince.
LEMMA ReadSinceStep ==
    ASSUME NEW q \in Seq(Item), NEW n \in Nat, ReadSince(q, n)
    PROVE  /\ q # <<>> => ReadSince(Tail(q), n)
           /\ q # <<>> /\ Head(q) # Failure => Head(q).at >= n
           /\ ReadSince(Append(q, Failure), n)
           /\ \A item \in Item : item.at >= n => ReadSince(Append(q, item), n)
<1>1. Len(q) \in Nat
  BY LenProperties
<1>2. ASSUME q # <<>>
      PROVE  ReadSince(Tail(q), n) /\ (Head(q) # Failure => Head(q).at >= n)
  <2>1. /\ Len(Tail(q)) = Len(q) - 1
        /\ \A i \in 1 .. Len(Tail(q)) : Tail(q)[i] = q[i + 1]
    BY <1>2, HeadTailProperties
  <2>2. \A i \in 1 .. Len(Tail(q)) : i + 1 \in 1 .. Len(q)
    BY <1>1, <2>1
  <2>3. Head(q) = q[1] /\ 1 \in 1 .. Len(q)
    BY <1>1, <1>2, EmptySeq
  <2> QED
    BY <2>1, <2>2, <2>3 DEF ReadSince
<1>3. ASSUME NEW item \in Item, item = Failure \/ item.at >= n
      PROVE  ReadSince(Append(q, item), n)
  <2>1. /\ Len(Append(q, item)) = Len(q) + 1
        /\ \A i \in 1 .. Len(q) : Append(q, item)[i] = q[i]
        /\ Append(q, item)[Len(q) + 1] = item
    BY AppendProperties
  <2>2. \A i \in 1 .. Len(Append(q, item)) : i \in 1 .. Len(q) \/ i = Len(q) + 1
    BY <1>1, <2>1
  <2> QED
    BY <1>3, <2>1, <2>2 DEF ReadSince
<1> QED
  BY <1>2, <1>3, ItemTypes

\* What a step must do for AnswerInv to survive: every queue keeps its relation
\* to the commands, a task that is still waiting waits as before, and a new result
\* was answered in time.
LEMMA AnswerInvKept ==
    ASSUME BaseInv, BaseInv', AnswerInv, lastId' = lastId,
           \A r \in results' \ results : r.answer # 0 => r.at >= r.id,
           \A c \in Callers :
               \/ /\ current'[c] = current[c] /\ pc'[c] = pc[c]
                  /\ \A n \in Nat :
                        /\ n <= lastId /\ ReadSince(replies[epoch], n)
                              => ReadSince(replies'[epoch'], n)
                        /\ n <= lastId /\ ReadSince(replies[current[c].queue], n)
                              => ReadSince(replies'[current[c].queue], n)
               \/ current'[c].id = 0 /\ pc'[c] \notin {"sending", "awaiting"}
    PROVE  AnswerInv'
<1>1. \A c \in Callers : current[c].id \in Nat /\ lastId \in Nat
  BY DEF BaseInv, TypeOK, Command
<1>2. AnsweredAfterAsked'
  BY DEF AnswerInv, AnsweredAfterAsked
<1>3. ASSUME NEW c \in Callers
      PROVE  /\ current'[c].id <= lastId'
             /\ pc'[c] = "sending" => ReadSince(replies'[epoch'], current'[c].id)
             /\ pc'[c] = "awaiting" => ReadSince(replies'[current'[c].queue], current'[c].id)
  BY <1>1 DEF AnswerInv
<1> QED
  BY <1>2, <1>3 DEF AnswerInv

\* The steps of a task in _execute_lines.
LEMMA AnswerExchange ==
    ASSUME BaseInv, BaseInv', AnswerInv, NEW c \in Callers, Exchange(c)
    PROVE  AnswerInv'
<1>0. /\ epoch \in Sessions /\ lastId \in Nat
      /\ \A d \in Callers : current[d] \in Command /\ current[d].id \in Nat
                             /\ current[d].queue \in Sessions
      /\ replies \in [Sessions -> Seq(Item)]
      /\ current \in [Callers -> Command]
      /\ DOMAIN pc = Callers
  BY DEF BaseInv, TypeOK, Command
<1>1. ASSUME NEW outcome, Leave(c, outcome), replies' = replies, lastId' = lastId,
             results' = results
      PROVE  AnswerInv'
  <2>1. current'[c].id = 0 /\ pc'[c] = "idle" /\ epoch' = epoch
    BY <1>0, <1>1 DEF Leave, NoCommand
  <2>2. \A d \in Callers : d # c => current'[d] = current[d] /\ pc'[d] = pc[d]
    BY <1>0, <1>1 DEF Leave
  <2> QED
    BY <1>1, <2>1, <2>2, AnswerInvKept
<1>2. ASSUME NEW outcome, Finish(c, outcome, Failure), replies' = replies
      PROVE  AnswerInv'
  <2>1. current'[c].id = 0 /\ pc'[c] = "idle" /\ epoch' = epoch /\ lastId' = lastId
    BY <1>0, <1>2 DEF Finish, Leave, NoCommand
  <2>2. \A d \in Callers : d # c => current'[d] = current[d] /\ pc'[d] = pc[d]
    BY <1>0, <1>2 DEF Finish, Leave
  <2>3. \A r \in results' \ results : r.answer = 0
    BY <1>2 DEF Finish, ResultOf, Failure
  <2> QED
    BY <1>2, <2>1, <2>2, <2>3, AnswerInvKept
<1>3. ASSUME NEW r \in Requests, Call(c, r) PROVE AnswerInv'
  <2>1. current'[c].id = 0 /\ pc'[c] = "lock"
    BY <1>0, <1>3 DEF Call, AcquireLock, NoCommand
  <2>2. \A d \in Callers : d # c => current'[d] = current[d] /\ pc'[d] = pc[d]
    BY <1>0, <1>3 DEF Call, AcquireLock
  <2>3. UNCHANGED <<epoch, replies, lastId, results>>
    BY <1>3 DEF Call, connVars
  <2> QED
    BY <2>1, <2>2, <2>3, AnswerInvKept
<1>4. CASE Send(c)
  <2>1. replies' = [replies EXCEPT ![epoch] = <<>>]
    BY <1>0, <1>4, QueueStep DEF Send, BaseInv, QueueInv, FailureMeansDown
  <2>2. /\ epoch' = epoch /\ lastId' = lastId + 1 /\ results' = results
        /\ pc'[c] = "sending" /\ current'[c].id = lastId + 1
    BY <1>0, <1>4 DEF Send, connVars
  <2>3. ASSUME NEW d \in Callers, d # c
        PROVE  current'[d] = current[d] /\ pc'[d] = pc[d]
    BY <1>0, <1>4, <2>3 DEF Send
  <2>4. \A n : ReadSince(<<>>, n)
    BY DEF ReadSince
  <2>5. \A s \in Sessions : \A n : ReadSince(replies[s], n) => ReadSince(replies'[s], n)
    BY <1>0, <2>1, <2>4
  <2>6. \A n : ReadSince(replies'[epoch], n)
    BY <1>0, <2>1, <2>4
  <2>7. \A d \in Callers :
          /\ current'[d].id <= lastId'
          /\ pc'[d] = "sending" => ReadSince(replies'[epoch'], current'[d].id)
          /\ pc'[d] = "awaiting" => ReadSince(replies'[current'[d].queue], current'[d].id)
    BY <1>0, <2>2, <2>3, <2>5, <2>6 DEF AnswerInv
  <2> QED
    BY <2>2, <2>7 DEF AnswerInv, AnsweredAfterAsked
<1>5. CASE Sent(c)
  <2>1. /\ pc[c] = "sending" /\ pc'[c] = "awaiting"
        /\ current'[c].id = current[c].id /\ current'[c].queue = epoch
        /\ UNCHANGED <<epoch, replies, lastId, results>>
    BY <1>0, <1>5 DEF Sent, connVars, Command
  <2>2. \A d \in Callers : d # c => current'[d] = current[d] /\ pc'[d] = pc[d]
    BY <1>0, <1>5 DEF Sent
  <2> QED
    BY <2>1, <2>2 DEF AnswerInv, AnsweredAfterAsked
<1>6. CASE Receive(c)
  <2> DEFINE s == current[c].queue
             item == Head(replies[s])
             outcome == Outcome(item, current[c].request)
  <2>1. /\ s \in Sessions /\ replies[s] \in Seq(Item) /\ replies[s] # <<>>
        /\ pc[c] = "awaiting"
        /\ replies' = [replies EXCEPT ![s] = Tail(@)]
        /\ Finish(c, outcome, item)
    BY <1>0, <1>6 DEF Receive
  <2>2. item \in Item /\ (item # Failure => item.at >= current[c].id)
    BY <1>0, <2>1, QueueStep, ReadSinceStep DEF AnswerInv
  <2> HIDE DEF item, outcome
  <2>3. current'[c].id = 0 /\ pc'[c] = "idle" /\ epoch' = epoch /\ lastId' = lastId
    BY <1>0, <2>1 DEF Finish, Leave, NoCommand
  <2>4. \A d \in Callers : d # c => current'[d] = current[d] /\ pc'[d] = pc[d]
    BY <1>0, <2>1 DEF Finish, Leave
  <2>5. \A r \in results' \ results : r.answer # 0 => r.at >= r.id
    <3>1. results' = results \cup {ResultOf(c, outcome, item)}
      BY <2>1 DEF Finish
    <3>2. /\ ResultOf(c, outcome, item).answer = item.id
          /\ ResultOf(c, outcome, item).at = item.at
          /\ ResultOf(c, outcome, item).id = current[c].id
      BY DEF ResultOf
    <3>3. item = Failure => item.id = 0
      <4>1. Failure.id = 0
        BY DEF Failure
      <4> QED
        BY <4>1
    <3> QED
      BY <2>2, <3>1, <3>2, <3>3
  <2>6. \A t \in Sessions : \A n \in Nat : ReadSince(replies[t], n) => ReadSince(replies'[t], n)
    BY <1>0, <2>1, ReadSinceStep
  <2> QED
    BY <1>0, <2>3, <2>4, <2>5, <2>6, AnswerInvKept
<1>7. CASE SendRefused(c)
  BY <1>1, <1>7 DEF SendRefused
<1>8. CASE CancelWaiting(c)
  BY <1>1, <1>8 DEF CancelWaiting
<1>9. CASE SendFailed(c) \/ Timeout(c) \/ CancelSent(c)
  BY <1>2, <1>9 DEF SendFailed, Timeout, CancelSent
<1> QED
  BY <1>3, <1>4, <1>5, <1>6, <1>7, <1>8, <1>9 DEF Exchange

\* The steps of the reader: what it queues was read now.
LEMMA AnswerReader ==
    ASSUME BaseInv, BaseInv', AnswerInv, ReadLoop
    PROVE  AnswerInv'
<1>0. /\ epoch \in Sessions /\ lastId \in Nat
      /\ \A d \in Callers : current[d].queue \in Sessions
      /\ replies \in [Sessions -> Seq(Item)]
  BY DEF BaseInv, TypeOK, Command
<1>1. ASSUME NEW item \in Item, item = Failure \/ item.at = lastId,
             replies' = [replies EXCEPT ![epoch] = Append(@, item)],
             epoch' = epoch, UNCHANGED <<pc, current, lastId, results>>
      PROVE  AnswerInv'
  <2>1. \A t \in Sessions : \A n \in Nat :
          n <= lastId /\ ReadSince(replies[t], n) => ReadSince(replies'[t], n)
    BY <1>0, <1>1, ReadSinceStep
  <2> QED
    BY <1>0, <1>1, <2>1, AnswerInvKept
<1>2. ASSUME UNCHANGED <<epoch, replies, pc, current, lastId, results>> PROVE AnswerInv'
  BY <1>2, AnswerInvKept
<1>3. ASSUME ReaderStops, UNCHANGED callVars PROVE AnswerInv'
  BY <1>1, <1>3, ItemTypes DEF ReaderStops, callVars
<1>4. CASE ReadLine
  <2> DEFINE line == Head(fromServer)
  <2>1. fromServer # <<>> /\ UNCHANGED callVars
    BY <1>4 DEF ReadLine
  <2>2. line \in Line
    BY <2>1, HeadTailProperties DEF BaseInv, TypeOK
  <2>3. CASE /\ line.kind = "reply"
             /\ replies' = [replies EXCEPT ![epoch] =
                               Append(@, Reply(line.id, line.word, lastId))]
             /\ UNCHANGED connVars
    <3> DEFINE item == Reply(line.id, line.word, lastId)
    <3>1. item \in Item
      BY <1>0, <2>2, <2>3, ItemTypes
    <3>2. item.at = lastId
      BY DEF Reply
    <3> HIDE DEF item
    <3>3. replies' = [replies EXCEPT ![epoch] = Append(@, item)]
      BY <2>3 DEF item
    <3> QED
      BY <1>1, <2>1, <2>3, <3>1, <3>2, <3>3 DEF callVars, connVars
  <2> QED
    BY <1>2, <1>3, <1>4, <2>1, <2>3 DEF ReadLine, callVars, connVars
<1> QED
  BY <1>3, <1>4 DEF ReadLoop, ReadEof

\* The steps of connect() and close(): a new queue is empty, an old one only gains
\* an exception.
LEMMA AnswerLifecycle ==
    ASSUME BaseInv, BaseInv', AnswerInv, Lifecycle
    PROVE  AnswerInv'
<1>0. /\ epoch \in Sessions /\ lastId \in Nat
      /\ \A d \in Callers : current[d].queue \in Sessions
      /\ replies \in [Sessions -> Seq(Item)]
      /\ DOMAIN pc = Callers /\ DOMAIN current = Callers
  BY DEF BaseInv, TypeOK, Command
<1>1. ASSUME UNCHANGED <<epoch, replies, pc, current, lastId, results>> PROVE AnswerInv'
  BY <1>1, AnswerInvKept
<1>2. CASE Connect \/ Close \/ AbortConnect
  BY <1>1, <1>2 DEF Connect, Close, AbortConnect, CloseBegins, callVars
<1>3. ASSUME replies' = [replies EXCEPT ![epoch] = Append(@, Failure)]
      PROVE  \A t \in Sessions : \A n \in Nat :
               ReadSince(replies[t], n) => ReadSince(replies'[t], n)
  BY <1>0, <1>3, ReadSinceStep
<1>4. CASE CloseEnds
  BY <1>0, <1>3, <1>4, AnswerInvKept DEF CloseEnds, callVars
<1>5. CASE Dial
  <2>1. /\ replies' = [replies EXCEPT ![epoch] = Append(@, Failure)]
        /\ epoch' = epoch + 1
        /\ UNCHANGED <<pc, current, lastId, results>>
    BY <1>5 DEF Dial, callVars
  <2>2. epoch + 1 \in Sessions /\ epoch + 1 > epoch /\ epoch + 1 # epoch
    BY <1>0, <1>5, BoundsAssumption DEF Dial, BaseInv, QueueInv, Sessions
  <2>3. replies'[epoch'] = <<>>
    BY <1>0, <2>1, <2>2 DEF BaseInv, QueueInv
  <2>4. \A n : ReadSince(<<>>, n)
    BY DEF ReadSince
  <2> QED
    BY <1>0, <1>3, <2>1, <2>3, <2>4, AnswerInvKept
<1>6. CASE DialFails
  BY <1>1, <1>6 DEF DialFails, callVars
<1>7. CASE DialOk
  <2>1. current'[Owner].id = 0 /\ pc'[Owner] = "lock"
    BY <1>0, <1>7, CallersAssumption DEF DialOk, AcquireLock, NoCommand
  <2>2. \A d \in Callers : d # Owner => current'[d] = current[d] /\ pc'[d] = pc[d]
    BY <1>0, <1>7 DEF DialOk, AcquireLock
  <2>3. UNCHANGED <<epoch, replies, lastId, results>>
    BY <1>7 DEF DialOk
  <2> QED
    BY <2>1, <2>2, <2>3, AnswerInvKept
<1> QED
  BY <1>2, <1>4, <1>5, <1>6, <1>7 DEF Lifecycle

\* A command is answered only by a line that was read after it was written
\* (_execute_lines, _drain_stale_replies).
THEOREM AnswersAreRecent == Spec => []AnsweredAfterAsked
<1>1. Init => AnswerInv
  BY DEF Init, AnswerInv, AnsweredAfterAsked, NoCommand
<1>2. BaseInv /\ BaseInv' /\ AnswerInv /\ [Next]_vars => AnswerInv'
  <2> SUFFICES ASSUME BaseInv, BaseInv', AnswerInv, [Next]_vars PROVE AnswerInv'
    OBVIOUS
  <2>1. CASE \E c \in Callers : Exchange(c)
    BY <2>1, AnswerExchange
  <2>2. CASE Network
    BY <2>2, AnswerInvKept
       DEF Network, Serve, Push, PeerCloses, ConnectionLost, connVars, callVars
  <2>3. CASE UNCHANGED vars
    BY <2>3, AnswerInvKept DEF vars, connVars, callVars
  <2> QED
    BY <2>1, <2>2, <2>3, AnswerReader, AnswerLifecycle DEF Next
<1>3. AnswerInv => AnsweredAfterAsked
  BY DEF AnswerInv
<1> QED
  BY <1>1, <1>2, <1>3, BaseInvariant, PTL DEF Spec

-------------------------------------------------------------------------------
(* StrayOnlyFromGone *)

\* The places of a queue or a socket that hold an answer to a command, the commands
\* they answer, and that no command is answered there twice.
Answers(q) == {i \in DOMAIN q : q[i].kind \notin {"failure", "event"}}
Ids(q) == {q[i].id : i \in Answers(q)}
Once(q) == \A i, j \in Answers(q) : q[i].id = q[j].id => i = j

\* The same for the commands the server has not answered.
AskedIds(q) == {q[i].id : i \in DOMAIN q}
AskedOnce(q) == \A i, j \in DOMAIN q : q[i].id = q[j].id => i = j

\* The commands whose answers are still to come from the current socket.
Coming == Ids(fromServer) \cup AskedIds(toServer)

\* Task c is between the write of its command and its reply.
Busy(c) == pc[c] \in {"sending", "awaiting"}

\* Command n of session s may still be answered: it was given up, or its task is
\* busy with it, and nobody was given its answer.
Owed(n, s) ==
    /\ n \in 1 .. lastId
    /\ \A r \in results : r.answer # n
    /\ Gone(n, s) \/ \E c \in Callers : Busy(c) /\ current[c].id = n /\ current[c].session = s

\* An answer is in one place: with the server, on the socket or in a reply queue,
\* and connect() starts with none.
WireInv ==
    /\ \A s \in Sessions : Once(replies[s])
    /\ Once(fromServer) /\ AskedOnce(toServer)
    /\ Ids(fromServer) \cap AskedIds(toServer) = {}
    /\ Ids(replies[epoch]) \cap Coming = {}
    /\ connPhase = "closingToDial" => Coming = {} /\ ~peerOpen

\* The lock: one command is written at a time, and while it is, no later session
\* can have written one, so that none is answered there.
HolderInv ==
    \A c \in Callers : Busy(c) =>
        /\ holder = c
        /\ current[c].id = lastId /\ lastId > 0
        /\ \A r \in results : r.id # lastId
        /\ current[c].session <= current[c].queue /\ current[c].queue <= epoch
        /\ \A s \in Sessions : s > current[c].session => Ids(replies[s]) = {}
        /\ epoch > current[c].session => Coming = {}

\* Every answer under way is owed to the session it comes from.
OwedInv ==
    \A s \in Sessions :
        \A n \in Ids(replies[s]) \cup (IF s = epoch THEN Coming ELSE {}) : Owed(n, s)

\* Commands end once, answers are taken once, and a stray one as claimed.
ResultsInv ==
    /\ StrayOnlyFromGone
    /\ \A r \in results : r.id \in 1 .. lastId
    /\ \A r, x \in results : r.id = x.id => r = x
    /\ \A r, x \in results : r.answer # 0 /\ x.answer = r.answer => r = x

\* The owner is in _execute_lines only to log in.
OwnerInv == connPhase # "login" => pc[Owner] = "idle"

StrayInv == WireInv /\ OwnerInv /\ HolderInv /\ OwedInv /\ ResultsInv

------------------------------------------------------------------------------
(* Queues and sockets that answer each command once.                       *)

\* Adding an item, or taking the first one.
LEMMA AnswersAppend ==
    ASSUME NEW T, NEW q \in Seq(T), NEW e \in T
    PROVE  /\ e.kind \in {"failure", "event"} =>
                /\ Ids(Append(q, e)) = Ids(q)
                /\ Once(q) => Once(Append(q, e))
           /\ e.kind \notin {"failure", "event"} =>
                /\ Ids(Append(q, e)) = Ids(q) \cup {e.id}
                /\ Once(q) /\ e.id \notin Ids(q) => Once(Append(q, e))
<1> DEFINE p == Append(q, e)
<1>1. /\ Len(q) \in Nat
      /\ DOMAIN p = 1 .. Len(q) + 1 /\ DOMAIN q = 1 .. Len(q)
      /\ \A i \in 1 .. Len(q) : p[i] = q[i]
      /\ p[Len(q) + 1] = e
  BY AppendProperties, LenProperties
<1> HIDE DEF p
<1>2. \A i \in DOMAIN q : i # Len(q) + 1 /\ i \in DOMAIN p
  BY <1>1
<1>3. \A i \in DOMAIN p : i \in DOMAIN q \/ i = Len(q) + 1
  BY <1>1
<1>4. CASE e.kind \in {"failure", "event"}
  <2>1. Answers(p) = Answers(q)
    BY <1>1, <1>2, <1>3, <1>4 DEF Answers
  <2>2. \A i \in Answers(q) : p[i] = q[i]
    BY <1>1 DEF Answers
  <2> QED
    BY <1>4, <2>1, <2>2 DEF Ids, Once, p
<1>5. CASE e.kind \notin {"failure", "event"}
  <2>1. Answers(p) = Answers(q) \cup {Len(q) + 1}
    BY <1>1, <1>2, <1>3, <1>5 DEF Answers
  <2>2. \A i \in Answers(q) : p[i] = q[i] /\ i # Len(q) + 1
    BY <1>1, <1>2 DEF Answers
  <2>3. Ids(p) = Ids(q) \cup {e.id}
    BY <1>1, <2>1, <2>2 DEF Ids
  <2>4. ASSUME Once(q), e.id \notin Ids(q) PROVE Once(p)
    <3>1. \A i \in Answers(q) : q[i].id # e.id
      BY <2>4 DEF Ids
    <3> QED
      BY <1>1, <2>1, <2>2, <2>4, <3>1 DEF Once
  <2> QED
    BY <1>5, <2>3, <2>4 DEF p
<1> QED
  BY <1>4, <1>5

LEMMA AnswersTail ==
    ASSUME NEW T, NEW q \in Seq(T), q # <<>>
    PROVE  /\ Ids(Tail(q)) \subseteq Ids(q)
           /\ Once(q) => Once(Tail(q))
           /\ Head(q).kind \notin {"failure", "event"} =>
                /\ Head(q).id \in Ids(q)
                /\ Once(q) => Head(q).id \notin Ids(Tail(q))
<1> DEFINE p == Tail(q)
<1>1. /\ Len(q) \in Nat /\ Len(q) > 0
      /\ DOMAIN q = 1 .. Len(q) /\ DOMAIN p = 1 .. Len(q) - 1
      /\ \A i \in DOMAIN p : p[i] = q[i + 1]
      /\ Head(q) = q[1]
  BY HeadTailProperties, LenProperties, EmptySeq
<1> HIDE DEF p
<1>2. \A i \in DOMAIN p : i + 1 \in DOMAIN q /\ i + 1 # 1
  BY <1>1
<1>3. \A i, j \in DOMAIN p : i + 1 = j + 1 => i = j
  BY <1>1
<1>4. \A i \in Answers(p) : i \in DOMAIN p /\ i + 1 \in Answers(q) /\ p[i] = q[i + 1]
  BY <1>1, <1>2 DEF Answers
<1>5. Ids(p) \subseteq Ids(q)
  BY <1>4 DEF Ids
<1>6. ASSUME Once(q) PROVE Once(p)
  BY <1>3, <1>4, <1>6 DEF Once
<1>7. ASSUME Head(q).kind \notin {"failure", "event"}
      PROVE  Head(q).id \in Ids(q) /\ (Once(q) => Head(q).id \notin Ids(p))
  <2>1. 1 \in Answers(q)
    BY <1>1, <1>7 DEF Answers
  <2>2. Head(q).id \in Ids(q)
    BY <1>1, <2>1 DEF Ids
  <2>3. ASSUME Once(q), NEW i \in Answers(p) PROVE p[i].id # Head(q).id
    BY <1>1, <1>2, <1>4, <2>1, <2>3 DEF Once
  <2> QED
    BY <2>2, <2>3 DEF Ids
<1> QED
  BY <1>5, <1>6, <1>7 DEF p

LEMMA AskedAppend ==
    ASSUME NEW T, NEW q \in Seq(T), NEW e \in T
    PROVE  /\ AskedIds(Append(q, e)) = AskedIds(q) \cup {e.id}
           /\ AskedOnce(q) /\ e.id \notin AskedIds(q) => AskedOnce(Append(q, e))
<1> DEFINE p == Append(q, e)
<1>1. /\ Len(q) \in Nat
      /\ DOMAIN p = 1 .. Len(q) + 1 /\ DOMAIN q = 1 .. Len(q)
      /\ \A i \in 1 .. Len(q) : p[i] = q[i]
      /\ p[Len(q) + 1] = e
  BY AppendProperties, LenProperties
<1> HIDE DEF p
<1>2. DOMAIN p = DOMAIN q \cup {Len(q) + 1} /\ \A i \in DOMAIN q : i # Len(q) + 1
  BY <1>1
<1>3. AskedIds(p) = AskedIds(q) \cup {e.id}
  BY <1>1, <1>2 DEF AskedIds
<1>4. ASSUME AskedOnce(q), e.id \notin AskedIds(q) PROVE AskedOnce(p)
  <2>1. \A i \in DOMAIN q : q[i].id # e.id
    BY <1>4 DEF AskedIds
  <2> QED
    BY <1>1, <1>2, <1>4, <2>1 DEF AskedOnce
<1> QED
  BY <1>3, <1>4 DEF p

LEMMA AskedTail ==
    ASSUME NEW T, NEW q \in Seq(T), q # <<>>
    PROVE  /\ AskedIds(Tail(q)) \subseteq AskedIds(q)
           /\ Head(q).id \in AskedIds(q)
           /\ AskedOnce(q) => AskedOnce(Tail(q)) /\ Head(q).id \notin AskedIds(Tail(q))
<1> DEFINE p == Tail(q)
<1>1. /\ Len(q) \in Nat /\ Len(q) > 0
      /\ DOMAIN q = 1 .. Len(q) /\ DOMAIN p = 1 .. Len(q) - 1
      /\ \A i \in DOMAIN p : p[i] = q[i + 1]
      /\ Head(q) = q[1]
  BY HeadTailProperties, LenProperties, EmptySeq
<1> HIDE DEF p
<1>2. 1 \in DOMAIN q /\ \A i \in DOMAIN p : i + 1 \in DOMAIN q /\ i + 1 # 1
  BY <1>1
<1>3. \A i, j \in DOMAIN p : i + 1 = j + 1 => i = j
  BY <1>1
<1>4. AskedIds(p) \subseteq AskedIds(q) /\ Head(q).id \in AskedIds(q)
  BY <1>1, <1>2 DEF AskedIds
<1>5. ASSUME AskedOnce(q) PROVE AskedOnce(p) /\ Head(q).id \notin AskedIds(p)
  <2>1. AskedOnce(p)
    BY <1>1, <1>2, <1>3, <1>5 DEF AskedOnce
  <2>2. \A i \in DOMAIN p : p[i].id # Head(q).id
    BY <1>1, <1>2, <1>5 DEF AskedOnce
  <2> QED
    BY <2>1, <2>2 DEF AskedIds
<1> QED
  BY <1>4, <1>5 DEF p

LEMMA NoAnswers ==
    /\ Ids(<<>>) = {} /\ AskedIds(<<>>) = {}
    /\ Once(<<>>) /\ AskedOnce(<<>>)
<1>1. DOMAIN <<>> = {}
  OBVIOUS
<1>2. Answers(<<>>) = {}
  BY <1>1 DEF Answers
<1> QED
  BY <1>1, <1>2 DEF Ids, AskedIds, Once, AskedOnce

------------------------------------------------------------------------------
(* What kinds of steps keep of the invariant.                              *)

\* The tasks that are busy, and what they wait for, are typed.
LEMMA StrayTypes ==
    ASSUME BaseInv
    PROVE  /\ epoch \in Sessions /\ lastId \in Nat /\ Sessions \subseteq Nat
           /\ replies \in [Sessions -> Seq(Item)]
           /\ \A c \in Callers : /\ current[c] \in Command /\ current[c].id \in Nat
                                 /\ current[c].session \in Sessions
                                 /\ current[c].queue \in Sessions
           /\ DOMAIN pc = Callers /\ DOMAIN current = Callers
           /\ fromServer \in Seq(Line) /\ toServer \in Seq([id : Nat, request : Requests])
           /\ results \subseteq Result
BY BoundsAssumption DEF BaseInv, TypeOK, Command, Sessions

\* An answer is owed to one session.
LEMMA OwedOnce ==
    ASSUME StrayInv, NEW n, NEW s, NEW t, Owed(n, s), Owed(n, t)
    PROVE  s = t
<1>1. ASSUME NEW u, ~Gone(n, u), Owed(n, u)
      PROVE  \E c \in Callers : /\ Busy(c) /\ holder = c /\ n = lastId /\ current[c].session = u
                                /\ \A r \in results : r.id # n
  BY <1>1 DEF Owed, StrayInv, HolderInv
<1>2. CASE Gone(n, s) /\ Gone(n, t)
  BY <1>2 DEF Gone, StrayInv, ResultsInv
<1>3. CASE ~Gone(n, s)
  <2>1. ~Gone(n, t)
    BY <1>1, <1>3 DEF Gone
  <2> QED
    BY <1>1, <1>3, <2>1
<1>4. CASE ~Gone(n, t)
  <2>1. ~Gone(n, s)
    BY <1>1, <1>4 DEF Gone
  <2> QED
    BY <1>1, <1>4, <2>1
<1> QED
  BY <1>2, <1>3, <1>4

\* Steps that end no command and start none: answers only move on, and whoever is
\* busy stays so.
LEMMA OwedKept ==
    ASSUME BaseInv, StrayInv, UNCHANGED <<epoch, lastId, results>>,
           \A c \in Callers : pc'[c] \in {"sending", "awaiting"} <=> Busy(c),
           \A c \in Callers : Busy(c) =>
               /\ holder' = holder
               /\ current'[c].id = current[c].id /\ current'[c].session = current[c].session
               /\ current[c].session <= current'[c].queue /\ current'[c].queue <= epoch,
           \A s \in Sessions :
               \A n \in Ids(replies'[s]) : n \in Ids(replies[s]) \/ (s = epoch /\ n \in Coming),
           Coming' \subseteq Coming
    PROVE  HolderInv' /\ OwedInv' /\ ResultsInv'
<1>1. ASSUME NEW n, NEW s, Owed(n, s) PROVE Owed(n, s)'
  <2>1. n \in 1 .. lastId' /\ \A r \in results' : r.answer # n
    BY <1>1 DEF Owed
  <2>2. CASE Gone(n, s)
    BY <2>1, <2>2 DEF Owed, Gone
  <2>3. CASE \E c \in Callers : Busy(c) /\ current[c].id = n /\ current[c].session = s
    <3>1. PICK c \in Callers : Busy(c) /\ current[c].id = n /\ current[c].session = s
      BY <2>3
    <3>2. pc'[c] \in {"sending", "awaiting"} /\ current'[c].id = n /\ current'[c].session = s
      BY <3>1
    <3> QED
      BY <2>1, <3>2 DEF Owed, Busy
  <2> QED
    BY <1>1, <2>2, <2>3 DEF Owed
<1>2. OwedInv'
  <2>1. ASSUME NEW s \in Sessions,
               NEW n \in Ids(replies'[s]) \cup (IF s = epoch' THEN Coming' ELSE {})
        PROVE  Owed(n, s)
    BY <2>1 DEF StrayInv, OwedInv
  <2> QED
    BY <1>1, <2>1 DEF OwedInv
<1>3. HolderInv'
  <2>1. SUFFICES ASSUME NEW c \in Callers, pc'[c] \in {"sending", "awaiting"}
        PROVE  /\ holder' = c
               /\ current'[c].id = lastId' /\ lastId' > 0
               /\ \A r \in results' : r.id # lastId'
               /\ current'[c].session <= current'[c].queue /\ current'[c].queue <= epoch'
               /\ \A s \in Sessions : s > current'[c].session => Ids(replies'[s]) = {}
               /\ epoch' > current'[c].session => Coming' = {}
    BY DEF HolderInv, Busy
  <2>2. Busy(c)
    BY <2>1
  <2>3. /\ holder = c /\ current[c].id = lastId /\ lastId > 0
        /\ \A r \in results : r.id # lastId
        /\ \A s \in Sessions : s > current[c].session => Ids(replies[s]) = {}
        /\ epoch > current[c].session => Coming = {}
    BY <2>2 DEF StrayInv, HolderInv
  <2>4. ASSUME NEW s \in Sessions, s > current'[c].session PROVE Ids(replies'[s]) = {}
    BY <2>2, <2>3, <2>4
  <2> QED
    BY <2>2, <2>3, <2>4
<1>4. ResultsInv'
  BY DEF StrayInv, ResultsInv, StrayOnlyFromGone, Gone
<1> QED
  BY <1>2, <1>3, <1>4

\* The end of a written command.  An answer it takes was owed to its session and is
\* nowhere any more.
LEMMA FinishOwed ==
    ASSUME BaseInv, StrayInv, NEW c \in Callers, Busy(c), NEW outcome, NEW item,
           Finish(c, outcome, item), UNCHANGED <<fromServer, toServer>>,
           \A s \in Sessions : Ids(replies'[s]) \subseteq Ids(replies[s]),
           item.id # 0 => /\ item.id \in Ids(replies[current[c].session])
                          /\ item.id \notin Coming
                          /\ \A s \in Sessions : item.id \notin Ids(replies'[s])
    PROVE  HolderInv' /\ OwedInv' /\ ResultsInv'
<1> DEFINE r0 == ResultOf(c, outcome, item)
<1>1. /\ results' = results \cup {r0}
      /\ UNCHANGED <<epoch, lastId>>
      /\ pc' = [pc EXCEPT ![c] = "idle"]
  BY DEF Finish, Leave
<1>2. r0.id = current[c].id /\ r0.session = current[c].session /\ r0.answer = item.id
  BY DEF ResultOf
<1> HIDE DEF r0
<1>3. /\ holder = c /\ current[c].id = lastId /\ lastId > 0
      /\ \A r \in results : r.id # lastId
  BY DEF StrayInv, HolderInv
<1>4. lastId \in Nat /\ DOMAIN pc = Callers /\ current[c].session \in Sessions
  BY StrayTypes
<1>5. \A d \in Callers : Busy(d) => d = c
  BY <1>3 DEF StrayInv, HolderInv
<1>6. Coming' = Coming
  BY DEF Coming
<1>7. HolderInv'
  <2>1. ASSUME NEW d \in Callers PROVE pc'[d] \notin {"sending", "awaiting"}
    <3>1. CASE d = c
      BY <1>1, <1>4, <3>1
    <3>2. CASE d # c
      BY <1>1, <1>4, <1>5, <3>2 DEF Busy
    <3> QED
      BY <3>1, <3>2
  <2> QED
    BY <2>1 DEF HolderInv, Busy
<1>8. item.id # 0 => Owed(item.id, current[c].session)
  BY <1>4 DEF StrayInv, OwedInv
<1>9. ASSUME item.id # 0, item.id # lastId
      PROVE  item.id < lastId /\ Gone(item.id, current[c].session)
  <2>1. item.id \in 1 .. lastId
    BY <1>8, <1>9 DEF Owed
  <2>2. Gone(item.id, current[c].session)
    BY <1>3, <1>5, <1>8, <1>9 DEF Owed
  <2> QED
    BY <1>4, <1>9, <2>1, <2>2
<1>10. \A n, s : Gone(n, s) => Gone(n, s)'
  BY <1>1 DEF Gone
<1>11. ResultsInv'
  <2>1. \A r \in results : r.id \in 1 .. lastId /\ r.id # lastId
    BY <1>3 DEF StrayInv, ResultsInv
  <2>2. \A r \in results' : r.id \in 1 .. lastId'
    BY <1>1, <1>2, <1>3, <1>4, <2>1
  <2>3. \A r, x \in results' : r.id = x.id => r = x
    <3>1. \A r, x \in results : r.id = x.id => r = x
      BY DEF StrayInv, ResultsInv
    <3> QED
      BY <1>1, <1>2, <1>3, <3>1
  <2>4. \A r, x \in results' : r.answer # 0 /\ x.answer = r.answer => r = x
    <3>1. \A r, x \in results : r.answer # 0 /\ x.answer = r.answer => r = x
      BY DEF StrayInv, ResultsInv
    <3>2. item.id # 0 => \A r \in results : r.answer # item.id
      BY <1>8 DEF Owed
    <3> QED
      BY <1>1, <1>2, <3>1, <3>2
  <2>5. ASSUME NEW r \in results', r.answer # 0, ~Own(r)
        PROVE  r.answer < r.id /\ Gone(r.answer, r.session)'
    <3>1. CASE r \in results
      <4>1. r.answer < r.id /\ Gone(r.answer, r.session)
        BY <2>5, <3>1 DEF StrayInv, ResultsInv, StrayOnlyFromGone
      <4> QED
        BY <1>10, <4>1
    <3>2. CASE r = r0
      <4>1. r.answer < r.id /\ Gone(r.answer, r.session)
        BY <1>2, <1>3, <1>9, <2>5, <3>2 DEF Own
      <4> QED
        BY <1>10, <4>1
    <3> QED
      BY <1>1, <3>1, <3>2
  <2>6. StrayOnlyFromGone'
    BY <2>4, <2>5 DEF StrayOnlyFromGone
  <2> QED
    BY <2>2, <2>3, <2>4, <2>6 DEF ResultsInv
<1>12. ASSUME NEW n, NEW s, Owed(n, s), n # item.id PROVE Owed(n, s)'
  <2>1. n \in 1 .. lastId'
    BY <1>1, <1>12 DEF Owed
  <2>2. \A r \in results' : r.answer # n
    BY <1>1, <1>2, <1>12 DEF Owed
  <2>3. Gone(n, s)'
    <3>1. CASE Gone(n, s)
      BY <1>10, <3>1
    <3>2. CASE \E d \in Callers : Busy(d) /\ current[d].id = n /\ current[d].session = s
      <4>1. n = current[c].id /\ s = current[c].session
        BY <1>5, <3>2
      <4>2. r0 \in results' /\ r0.id = n /\ r0.session = s /\ ~Own(r0)
        BY <1>1, <1>2, <1>12, <4>1 DEF Own
      <4> QED
        BY <4>2 DEF Gone
    <3> QED
      BY <1>12, <3>1, <3>2 DEF Owed
  <2> QED
    BY <2>1, <2>2, <2>3 DEF Owed
<1>13. ASSUME NEW s \in Sessions,
              NEW n \in Ids(replies'[s]) \cup (IF s = epoch' THEN Coming' ELSE {})
       PROVE  Owed(n, s)'
  <2>1. n \in Ids(replies[s]) \/ (s = epoch /\ n \in Coming)
    BY <1>1, <1>6, <1>13
  <2>2. Owed(n, s)
    BY <2>1 DEF StrayInv, OwedInv
  <2>3. n # 0
    BY <1>4, <2>2 DEF Owed
  <2>4. n # item.id
    BY <1>6, <1>13, <2>3, <1>1
  <2> QED
    BY <1>12, <2>2, <2>4
<1>14. OwedInv'
  BY <1>13 DEF OwedInv
<1> QED
  BY <1>7, <1>11, <1>14

------------------------------------------------------------------------------
(* The steps.                                                              *)

\* A new command: the queue was drained, the number is new, and nobody else is busy.
LEMMA StraySend ==
    ASSUME BaseInv, StrayInv, NEW c \in Callers, Send(c)
    PROVE  StrayInv'
<1>0. /\ epoch \in Sessions /\ lastId \in Nat /\ Sessions \subseteq Nat
      /\ replies \in [Sessions -> Seq(Item)]
      /\ DOMAIN pc = Callers /\ DOMAIN current = Callers
      /\ toServer \in Seq([id : Nat, request : Requests])
      /\ current[c] \in Command
  BY StrayTypes
<1>1. replies' = [replies EXCEPT ![epoch] = <<>>]
  BY <1>0, QueueStep DEF Send, BaseInv, QueueInv, FailureMeansDown
<1>2. /\ lastId' = lastId + 1 /\ results' = results /\ holder' = c /\ epoch' = epoch
      /\ connPhase' = connPhase /\ peerOpen' = peerOpen /\ fromServer' = fromServer
      /\ current'[c].id = lastId + 1 /\ current'[c].session = epoch
      /\ current'[c].queue = epoch
      /\ pc' = [pc EXCEPT ![c] = "sending"]
      /\ pc[c] = "lock" /\ reader = "running"
  BY <1>0 DEF Send, Granted, Connected, connVars
<1>3. \A d \in Callers : ~Busy(d)
  BY CallersAssumption DEF Send, Granted, StrayInv, HolderInv
<1>4. ASSUME NEW d \in Callers, pc'[d] \in {"sending", "awaiting"} PROVE d = c
  BY <1>0, <1>2, <1>3, <1>4 DEF Busy
<1>5. \A s \in Sessions : Ids(replies'[s]) \subseteq Ids(replies[s]) /\ Once(replies'[s])
  BY <1>0, <1>1, NoAnswers DEF StrayInv, WireInv
<1>6. Ids(replies'[epoch]) = {}
  BY <1>0, <1>1, NoAnswers
<1>7. \A s \in Sessions : s > epoch => Ids(replies'[s]) = {}
  BY <1>0, <1>1, NoAnswers DEF BaseInv, QueueInv
<1>8. \A n \in Coming : n \in 1 .. lastId
  BY <1>0 DEF StrayInv, OwedInv, Owed
<1>9. /\ AskedIds(toServer') \subseteq AskedIds(toServer) \cup {lastId + 1}
      /\ AskedOnce(toServer')
  <2>1. CASE toServer' = toServer
    BY <2>1 DEF StrayInv, WireInv
  <2>2. CASE toServer' # toServer
    <3> DEFINE e == [id |-> lastId + 1, request |-> current[c].request]
    <3>1. e \in [id : Nat, request : Requests] /\ e.id = lastId + 1
      BY <1>0 DEF Command
    <3>2. toServer' = Append(toServer, e)
      BY <2>2 DEF Send
    <3>3. lastId + 1 \notin AskedIds(toServer)
      BY <1>0, <1>8 DEF Coming
    <3>4. AskedOnce(toServer)
      BY DEF StrayInv, WireInv
    <3> HIDE DEF e
    <3>5. /\ AskedIds(Append(toServer, e)) = AskedIds(toServer) \cup {e.id}
          /\ e.id \notin AskedIds(toServer) => AskedOnce(Append(toServer, e))
      <4> DEFINE T == [id : Nat, request : Requests]
      <4>1. toServer \in Seq(T) /\ e \in T
        BY <1>0, <3>1
      <4> HIDE DEF T
      <4> QED
        BY <3>4, <4>1, AskedAppend
    <3> QED
      BY <3>1, <3>2, <3>3, <3>5
  <2> QED
    BY <2>1, <2>2
<1>10. Coming' \subseteq Coming \cup {lastId + 1}
  BY <1>2, <1>9 DEF Coming
<1>11. WireInv'
  <2>1. lastId + 1 \notin Ids(fromServer)
    BY <1>0, <1>8 DEF Coming
  <2>2. Once(fromServer') /\ Ids(fromServer') \cap AskedIds(toServer') = {}
    BY <1>2, <1>9, <2>1 DEF StrayInv, WireInv
  <2>3. connPhase' # "closingToDial"
    BY <1>2 DEF BaseInv, QueueInv
  <2>4. Ids(replies'[epoch']) \cap Coming' = {}
    BY <1>2, <1>6
  <2> QED
    BY <1>5, <1>9, <2>2, <2>3, <2>4 DEF WireInv
<1>12. OwnerInv'
  BY <1>0, <1>2, CallersAssumption DEF StrayInv, OwnerInv
<1>13. HolderInv'
  <2>1. \A r \in results' : r.id # lastId'
    BY <1>0, <1>2 DEF StrayInv, ResultsInv
  <2>2. lastId + 1 > 0 /\ epoch <= epoch /\ ~(epoch > epoch)
    BY <1>0
  <2>3. SUFFICES ASSUME NEW d \in Callers, pc'[d] \in {"sending", "awaiting"}
        PROVE  /\ holder' = d
               /\ current'[d].id = lastId' /\ lastId' > 0
               /\ \A r \in results' : r.id # lastId'
               /\ current'[d].session <= current'[d].queue /\ current'[d].queue <= epoch'
               /\ \A s \in Sessions : s > current'[d].session => Ids(replies'[s]) = {}
               /\ epoch' > current'[d].session => Coming' = {}
    BY DEF HolderInv, Busy
  <2>4. d = c
    BY <1>4, <2>3
  <2> QED
    BY <1>2, <1>7, <2>1, <2>2, <2>4
<1>14. ASSUME NEW n, NEW s, Owed(n, s) PROVE Owed(n, s)'
  BY <1>0, <1>2, <1>3, <1>14 DEF Owed, Gone
<1>15. ASSUME NEW n, NEW s, n = lastId + 1, s = epoch PROVE Owed(n, s)'
  <2>1. \A r \in results : r.answer # lastId + 1
    <3>1. ASSUME NEW r \in results, r.answer = lastId + 1 PROVE FALSE
      <4>1. r.id \in 1 .. lastId
        BY DEF StrayInv, ResultsInv
      <4>2. r.answer # 0 /\ ~Own(r)
        BY <1>0, <3>1, <4>1 DEF Own
      <4>3. r.answer < r.id
        BY <4>2 DEF StrayInv, ResultsInv, StrayOnlyFromGone
      <4> QED
        BY <1>0, <3>1, <4>1, <4>3
    <3> QED
      BY <3>1
  <2>2. pc'[c] \in {"sending", "awaiting"}
    BY <1>0, <1>2
  <2>3. lastId + 1 \in 1 .. lastId'
    BY <1>0, <1>2
  <2> QED
    BY <1>2, <1>15, <2>1, <2>2, <2>3 DEF Owed, Busy
<1>16. OwedInv'
  <2>1. ASSUME NEW s \in Sessions,
               NEW n \in Ids(replies'[s]) \cup (IF s = epoch' THEN Coming' ELSE {})
        PROVE  Owed(n, s)'
    <3>1. CASE n = lastId + 1 /\ s = epoch
      BY <1>15, <3>1
    <3>2. CASE ~(n = lastId + 1 /\ s = epoch)
      <4>1. n \in Ids(replies[s]) \cup (IF s = epoch THEN Coming ELSE {})
        BY <1>2, <1>5, <1>10, <2>1, <3>2
      <4>2. Owed(n, s)
        BY <4>1 DEF StrayInv, OwedInv
      <4> QED
        BY <1>14, <4>2
    <3> QED
      BY <3>1, <3>2
  <2> QED
    BY <2>1 DEF OwedInv
<1>17. ResultsInv'
  <2>1. \A r \in results' : r.id \in 1 .. lastId'
    BY <1>0, <1>2 DEF StrayInv, ResultsInv
  <2> QED
    BY <1>2, <2>1 DEF StrayInv, ResultsInv, StrayOnlyFromGone, Gone
<1> QED
  BY <1>11, <1>12, <1>13, <1>16, <1>17 DEF StrayInv

\* Steps after which nobody is busy but those who were, with nothing on its way but
\* what was: the queues and the connection are as they were.
LEMMA StrayLeave ==
    ASSUME BaseInv, StrayInv, NEW c \in Callers, ~Busy(c), NEW outcome, Leave(c, outcome),
           UNCHANGED <<replies, holder, lastId, results, fromServer, toServer, peerOpen>>
    PROVE  StrayInv'
<1>0. DOMAIN pc = Callers /\ DOMAIN current = Callers /\ Sessions \subseteq Nat
  BY StrayTypes
<1>1. /\ pc' = [pc EXCEPT ![c] = "idle"]
      /\ current' = [current EXCEPT ![c] = NoCommand(Login)]
      /\ epoch' = epoch
      /\ connPhase' \in {connPhase, "idle", "close"}
      /\ c # Owner => connPhase' = connPhase
  BY DEF Leave
<1>2. Coming' = Coming
  BY DEF Coming
<1>3. \A d \in Callers : pc'[d] \in {"sending", "awaiting"} <=> Busy(d)
  BY <1>0, <1>1 DEF Busy
<1>4. \A d \in Callers : Busy(d) => current'[d] = current[d]
  BY <1>0, <1>1
<1>5. \A d \in Callers : Busy(d) => current[d].session <= current[d].queue /\ current[d].queue <= epoch
  BY DEF StrayInv, HolderInv
<1>6. HolderInv' /\ OwedInv' /\ ResultsInv'
  BY <1>1, <1>2, <1>3, <1>4, <1>5, OwedKept
<1>7. WireInv'
  BY <1>1, <1>2 DEF StrayInv, WireInv
<1>8. OwnerInv'
  BY <1>0, <1>1, CallersAssumption DEF StrayInv, OwnerInv
<1> QED
  BY <1>6, <1>7, <1>8 DEF StrayInv

\* A command that ends without an answer.
LEMMA StrayFinish ==
    ASSUME BaseInv, StrayInv, NEW c \in Callers, Busy(c), NEW outcome,
           Finish(c, outcome, Failure), UNCHANGED <<replies, wireVars>>
    PROVE  StrayInv'
<1>0. DOMAIN pc = Callers
  BY StrayTypes
<1>1. /\ pc' = [pc EXCEPT ![c] = "idle"] /\ epoch' = epoch
      /\ connPhase' \in {connPhase, "idle", "close"}
      /\ c # Owner => connPhase' = connPhase
  BY DEF Finish, Leave
<1>2. UNCHANGED <<fromServer, toServer, peerOpen>>
  BY DEF wireVars
<1>3. Failure.id = 0
  BY DEF Failure
<1>4. HolderInv' /\ OwedInv' /\ ResultsInv'
  BY <1>2, <1>3, FinishOwed
<1>5. WireInv'
  BY <1>1, <1>2 DEF StrayInv, WireInv, Coming
<1>6. OwnerInv'
  BY <1>0, <1>1, CallersAssumption DEF StrayInv, OwnerInv
<1> QED
  BY <1>4, <1>5, <1>6 DEF StrayInv

\* A command that takes an item of the queue it waits on.
LEMMA StrayReceive ==
    ASSUME BaseInv, StrayInv, NEW c \in Callers, Receive(c)
    PROVE  StrayInv'
<1> DEFINE s == current[c].queue
           item == Head(replies[s])
           outcome == Outcome(item, current[c].request)
<1>0. /\ epoch \in Sessions /\ Sessions \subseteq Nat /\ s \in Sessions
      /\ current[c].session \in Sessions
      /\ replies \in [Sessions -> Seq(Item)] /\ DOMAIN pc = Callers
  BY StrayTypes
<1>1. /\ pc[c] = "awaiting" /\ replies[s] # <<>>
      /\ replies' = [replies EXCEPT ![s] = Tail(@)]
      /\ Finish(c, outcome, item)
      /\ UNCHANGED <<fromServer, toServer, peerOpen>>
  BY DEF Receive, wireVars
<1> HIDE DEF outcome
<1>2. /\ pc' = [pc EXCEPT ![c] = "idle"] /\ epoch' = epoch
      /\ connPhase' \in {connPhase, "idle", "close"}
      /\ c # Owner => connPhase' = connPhase
  BY <1>1 DEF Finish, Leave
<1>3. Busy(c)
  BY <1>1 DEF Busy
<1>4. \A t \in Sessions : Ids(replies'[t]) \subseteq Ids(replies[t]) /\ Once(replies'[t])
  <2>1. ASSUME NEW t \in Sessions PROVE Ids(replies'[t]) \subseteq Ids(replies[t]) /\ Once(replies'[t])
    <3>1. CASE t = s
      BY <1>0, <1>1, <3>1, AnswersTail DEF StrayInv, WireInv
    <3>2. CASE t # s
      BY <1>0, <1>1, <3>2 DEF StrayInv, WireInv
    <3> QED
      BY <3>1, <3>2
  <2> QED
    BY <2>1
<1>5. ASSUME item.id # 0
      PROVE  /\ item.id \in Ids(replies[current[c].session])
             /\ item.id \notin Coming
             /\ \A t \in Sessions : item.id \notin Ids(replies'[t])
  <2>1. item \in Item /\ item.kind \notin {"failure", "event"}
    <3>1. item \in Item
      BY <1>0, <1>1, QueueStep
    <3>2. item # Failure
      <4>1. Failure.id = 0
        BY DEF Failure
      <4> QED
        BY <1>5, <4>1
    <3>3. item \in [kind : {"reply"}, id : Nat, word : Words, at : Nat]
      BY <3>1, <3>2 DEF Item
    <3> QED
      BY <3>1, <3>3
  <2>2. item.id \in Ids(replies[s]) /\ item.id \notin Ids(Tail(replies[s]))
    BY <1>0, <1>1, <2>1, AnswersTail DEF StrayInv, WireInv
  <2>3. /\ current[c].session <= s /\ s <= epoch
        /\ \A t \in Sessions : t > current[c].session => Ids(replies[t]) = {}
        /\ epoch > current[c].session => Coming = {}
    BY <1>3 DEF StrayInv, HolderInv
  <2>4. s = current[c].session
    <3>1. Ids(replies[s]) # {}
      BY <2>2
    <3>2. ~(s > current[c].session)
      BY <1>0, <2>3, <3>1
    <3>3. s \in Nat /\ current[c].session \in Nat
      BY <1>0
    <3> HIDE DEF s
    <3> QED
      BY <2>3, <3>2, <3>3
  <2>5. item.id \notin Coming
    <3>1. CASE s = epoch
      BY <2>2, <3>1 DEF StrayInv, WireInv
    <3>2. CASE s # epoch
      BY <1>0, <2>3, <2>4, <3>2
    <3> QED
      BY <3>1, <3>2
  <2>6. ASSUME NEW t \in Sessions, item.id \in Ids(replies[t]) PROVE t = s
    <3>1. Owed(item.id, t) /\ Owed(item.id, s)
      BY <1>0, <2>2, <2>6 DEF StrayInv, OwedInv
    <3> QED
      BY <3>1, OwedOnce
  <2>7. \A t \in Sessions : item.id \notin Ids(replies'[t])
    <3>1. replies'[s] = Tail(replies[s])
      BY <1>0, <1>1
    <3> QED
      BY <1>4, <2>2, <2>6, <3>1
  <2> QED
    BY <2>2, <2>4, <2>5, <2>7
<1> HIDE DEF item
<1>6. HolderInv' /\ OwedInv' /\ ResultsInv'
  BY <1>1, <1>3, <1>4, <1>5, FinishOwed
<1>7. WireInv'
  <2>1. Coming' = Coming
    BY <1>1 DEF Coming
  <2>2. Ids(replies'[epoch]) \cap Coming = {}
    BY <1>0, <1>4 DEF StrayInv, WireInv
  <2> QED
    BY <1>1, <1>2, <1>4, <2>1, <2>2 DEF StrayInv, WireInv
<1>8. OwnerInv'
  BY <1>0, <1>2, CallersAssumption DEF StrayInv, OwnerInv
<1> QED
  BY <1>6, <1>7, <1>8 DEF StrayInv

\* The steps of a task in _execute_lines.
LEMMA StrayExchange ==
    ASSUME BaseInv, StrayInv, NEW c \in Callers, Exchange(c)
    PROVE  StrayInv'
<1>0. DOMAIN pc = Callers /\ DOMAIN current = Callers /\ Sessions \subseteq Nat
      /\ epoch \in Sessions /\ current[c] \in Command
  BY StrayTypes
<1>1. ASSUME NEW d \in Callers, Busy(d)
      PROVE  current[d].session <= current[d].queue /\ current[d].queue <= epoch
  BY <1>1 DEF StrayInv, HolderInv
<1>2. ASSUME NEW r \in Requests, Call(c, r) PROVE StrayInv'
  <2>1. /\ UNCHANGED <<epoch, connPhase, replies, holder, lastId, results, fromServer, toServer,
                       peerOpen>>
        /\ pc[c] = "idle" /\ c # Owner
        /\ pc' = [pc EXCEPT ![c] = "lock"]
        /\ current' = [current EXCEPT ![c] = NoCommand(r)]
    BY <1>2 DEF Call, AcquireLock, connVars, wireVars
  <2>2. \A d \in Callers : pc'[d] \in {"sending", "awaiting"} <=> Busy(d)
    BY <1>0, <2>1 DEF Busy
  <2>3. \A d \in Callers : Busy(d) => current'[d] = current[d]
    BY <1>0, <2>1 DEF Busy
  <2>4. Coming' = Coming
    BY <2>1 DEF Coming
  <2>5. HolderInv' /\ OwedInv' /\ ResultsInv'
    BY <1>1, <2>1, <2>2, <2>3, <2>4, OwedKept
  <2>6. WireInv' /\ OwnerInv'
    BY <1>0, <2>1, <2>4, CallersAssumption DEF StrayInv, WireInv, OwnerInv
  <2> QED
    BY <2>5, <2>6 DEF StrayInv
<1>3. CASE SendRefused(c)
  BY <1>3, StrayLeave DEF SendRefused, Granted, Busy, wireVars
<1>4. CASE Sent(c)
  <2>1. /\ UNCHANGED <<epoch, connPhase, replies, holder, lastId, results, fromServer, toServer,
                       peerOpen>>
        /\ pc[c] = "sending"
        /\ pc' = [pc EXCEPT ![c] = "awaiting"]
        /\ current' = [current EXCEPT ![c].queue = epoch]
    BY <1>4 DEF Sent, connVars, wireVars
  <2>2. \A d \in Callers : pc'[d] \in {"sending", "awaiting"} <=> Busy(d)
    BY <1>0, <2>1 DEF Busy
  <2>3. ASSUME NEW d \in Callers, Busy(d)
        PROVE  /\ current'[d].id = current[d].id /\ current'[d].session = current[d].session
               /\ current[d].session <= current'[d].queue /\ current'[d].queue <= epoch
    <3>1. CASE d = c
      <4>1. /\ current'[c].id = current[c].id /\ current'[c].session = current[c].session
            /\ current'[c].queue = epoch
        BY <1>0, <2>1 DEF Command
      <4>2. current[c].session <= epoch /\ epoch <= epoch
        <5>1. current[c].session \in Nat /\ current[c].queue \in Nat /\ epoch \in Nat
          BY StrayTypes
        <5> QED
          BY <1>1, <2>3, <3>1, <5>1
      <4> QED
        BY <3>1, <4>1, <4>2
    <3>2. CASE d # c
      <4>1. current'[d] = current[d]
        BY <1>0, <2>1, <3>2
      <4> QED
        BY <1>1, <2>3, <4>1
    <3> QED
      BY <3>1, <3>2
  <2>4. Coming' = Coming
    BY <2>1 DEF Coming
  <2>5. HolderInv' /\ OwedInv' /\ ResultsInv'
    BY <2>1, <2>2, <2>3, <2>4, OwedKept
  <2>6. WireInv' /\ OwnerInv'
    BY <1>0, <2>1, <2>4, CallersAssumption DEF StrayInv, WireInv, OwnerInv
  <2> QED
    BY <2>5, <2>6 DEF StrayInv
<1>5. CASE SendFailed(c) \/ Timeout(c) \/ CancelSent(c)
  BY <1>5, StrayFinish DEF SendFailed, Timeout, CancelSent, Busy
<1>6. CASE CancelWaiting(c)
  BY <1>6, StrayLeave DEF CancelWaiting, Busy, wireVars
<1> QED
  BY <1>2, <1>3, <1>4, <1>5, <1>6, StraySend, StrayReceive DEF Exchange

\* Steps of nobody in _execute_lines, which move answers on.
LEMMA WireMoves ==
    ASSUME BaseInv, StrayInv, UNCHANGED <<epoch, lastId, results, pc, current, holder>>,
           \A s \in Sessions :
               \A n \in Ids(replies'[s]) : n \in Ids(replies[s]) \/ (s = epoch /\ n \in Coming),
           Coming' \subseteq Coming
    PROVE  HolderInv' /\ OwedInv' /\ ResultsInv'
<1>1. \A c \in Callers : pc'[c] \in {"sending", "awaiting"} <=> Busy(c)
  BY DEF Busy
<1>2. \A c \in Callers : Busy(c) =>
        current[c].session <= current[c].queue /\ current[c].queue <= epoch
  BY DEF StrayInv, HolderInv
<1> QED
  BY <1>1, <1>2, OwedKept

\* The server answers on the socket; the network loses what it carries.
LEMMA StrayNetwork ==
    ASSUME BaseInv, StrayInv, Network
    PROVE  StrayInv'
<1>0. /\ fromServer \in Seq(Line) /\ toServer \in Seq([id : Nat, request : Requests])
      /\ epoch \in Sessions /\ replies \in [Sessions -> Seq(Item)]
  BY StrayTypes
<1>1. UNCHANGED <<epoch, connPhase, replies, lastId, results, pc, current, holder>>
  BY DEF Network, Serve, Push, PeerCloses, ConnectionLost, connVars, callVars
<1>2. SUFFICES ASSUME /\ Once(fromServer') /\ AskedOnce(toServer')
                      /\ Ids(fromServer') \cap AskedIds(toServer') = {}
                      /\ Coming' \subseteq Coming
                      /\ connPhase = "closingToDial" => ~peerOpen'
               PROVE  StrayInv'
  <2>1. CASE Serve
    <3> DEFINE n == Head(toServer).id
    <3>1. PICK w \in {Keyword[Head(toServer).request], "ERROR"},
               k \in {"reply", "garbage", "oversized"} :
            fromServer' = Append(fromServer, [kind |-> k, id |-> n, word |-> w])
      BY <2>1 DEF Serve
    <3>2. toServer # <<>> /\ toServer' = Tail(toServer) /\ peerOpen' = peerOpen
      BY <2>1 DEF Serve
    <3>3. Head(toServer) \in [id : Nat, request : Requests]
      BY <1>0, <3>2, HeadTailProperties
    <3> DEFINE e == [kind |-> k, id |-> n, word |-> w]
    <3>4. e \in Line /\ e.id = n /\ e.kind \notin {"failure", "event"}
      BY <3>3 DEF Line, Words
    <3>5. /\ n \in AskedIds(toServer) /\ n \notin AskedIds(toServer')
          /\ AskedIds(toServer') \subseteq AskedIds(toServer) /\ AskedOnce(toServer')
      BY <1>0, <3>2, AskedTail DEF StrayInv, WireInv
    <3>6. fromServer' = Append(fromServer, e)
      BY <3>1
    <3> HIDE DEF n, e
    <3>7. n \notin Ids(fromServer) /\ Once(fromServer)
      BY <3>5 DEF StrayInv, WireInv
    <3>8. Ids(fromServer') = Ids(fromServer) \cup {n} /\ Once(fromServer')
      BY <1>0, <3>4, <3>6, <3>7, AnswersAppend
    <3>9. Ids(fromServer') \cap AskedIds(toServer') = {} /\ Coming' \subseteq Coming
      BY <3>5, <3>8 DEF StrayInv, WireInv, Coming
    <3> QED
      BY <1>2, <3>2, <3>5, <3>8, <3>9 DEF StrayInv, WireInv
  <2>2. CASE Push
    <3> DEFINE e == [kind |-> "event", id |-> pushed + 1, word |-> ""]
    <3>1. e \in Line /\ e.kind = "event"
      <4>1. pushed + 1 \in Nat
        BY DEF BaseInv, TypeOK
      <4>2. e \in [kind : {"event"}, id : Nat, word : {""}]
        BY <4>1
      <4> QED
        BY <4>2 DEF Line
    <3>2. fromServer' = Append(fromServer, e) /\ toServer' = toServer /\ peerOpen' = peerOpen
      BY <2>2 DEF Push
    <3> HIDE DEF e
    <3>3. Ids(fromServer') = Ids(fromServer) /\ Once(fromServer')
      BY <1>0, <3>1, <3>2, AnswersAppend DEF StrayInv, WireInv
    <3> QED
      BY <1>2, <3>2, <3>3 DEF StrayInv, WireInv, Coming
  <2>3. CASE PeerCloses
    BY <1>2, <2>3, NoAnswers DEF PeerCloses, StrayInv, WireInv, Coming
  <2>4. CASE ConnectionLost
    BY <1>2, <2>4 DEF ConnectionLost, wireVars, StrayInv, WireInv, Coming
  <2> QED
    BY <2>1, <2>2, <2>3, <2>4 DEF Network
<1>3. HolderInv' /\ OwedInv' /\ ResultsInv'
  BY <1>1, <1>2, WireMoves
<1>4. WireInv'
  <2>1. Ids(replies'[epoch']) \cap Coming' = {}
    BY <1>1, <1>2 DEF StrayInv, WireInv
  <2>2. connPhase' = "closingToDial" => Coming' = {} /\ ~peerOpen'
    BY <1>1, <1>2 DEF StrayInv, WireInv
  <2> QED
    BY <1>1, <1>2, <2>1, <2>2 DEF StrayInv, WireInv
<1>5. OwnerInv'
  BY <1>1 DEF StrayInv, OwnerInv
<1> QED
  BY <1>3, <1>4, <1>5 DEF StrayInv

\* One more exception in the queue of a session answers nothing.
LEMMA FailureAppended ==
    ASSUME BaseInv, StrayInv, replies' = [replies EXCEPT ![epoch] = Append(@, Failure)]
    PROVE  \A s \in Sessions : Ids(replies'[s]) = Ids(replies[s]) /\ Once(replies'[s])
<1>0. epoch \in Sessions /\ replies \in [Sessions -> Seq(Item)]
  BY StrayTypes
<1>1. Failure \in Item /\ Failure.kind = "failure"
  BY ItemTypes DEF Failure
<1>2. \A s \in Sessions : Once(replies[s]) /\ replies[s] \in Seq(Item)
  BY <1>0 DEF StrayInv, WireInv
<1>3. \A s \in Sessions : /\ Ids(Append(replies[s], Failure)) = Ids(replies[s])
                          /\ Once(Append(replies[s], Failure))
  BY <1>1, <1>2, AnswersAppend
<1> QED
  BY <1>0, <1>2, <1>3

\* The reader moves the next line into the queue, or drops it, or stops.
LEMMA StrayReader ==
    ASSUME BaseInv, StrayInv, ReadLoop
    PROVE  StrayInv'
<1>0. /\ fromServer \in Seq(Line) /\ lastId \in Nat
      /\ epoch \in Sessions /\ replies \in [Sessions -> Seq(Item)]
  BY StrayTypes
<1>1. UNCHANGED <<epoch, connPhase, lastId, results, pc, current, holder, toServer, peerOpen>>
  BY DEF ReadLoop, ReadLine, ReadEof, ReaderStops, connVars, callVars, wireVars
<1>2. ASSUME /\ \A s \in Sessions : Once(replies'[s])
             /\ \A s \in Sessions :
                    \A n \in Ids(replies'[s]) : n \in Ids(replies[s]) \/ (s = epoch /\ n \in Coming)
             /\ Once(fromServer') /\ Ids(fromServer') \subseteq Ids(fromServer)
             /\ Ids(replies'[epoch]) \cap Coming' = {}
      PROVE  StrayInv'
  <2>1. Coming' \subseteq Coming
    BY <1>1, <1>2 DEF Coming
  <2>2. HolderInv' /\ OwedInv' /\ ResultsInv'
    BY <1>1, <1>2, <2>1, WireMoves
  <2>3. WireInv'
    BY <1>1, <1>2, <2>1 DEF StrayInv, WireInv
  <2>4. OwnerInv'
    BY <1>1 DEF StrayInv, OwnerInv
  <2> QED
    BY <2>2, <2>3, <2>4 DEF StrayInv
<1>3. ASSUME ReaderStops, fromServer' = fromServer \/ (fromServer # <<>> /\ fromServer' = Tail(fromServer))
      PROVE  StrayInv'
  <2>1. \A s \in Sessions : Ids(replies'[s]) = Ids(replies[s]) /\ Once(replies'[s])
    BY <1>3, FailureAppended DEF ReaderStops
  <2>2. Once(fromServer') /\ Ids(fromServer') \subseteq Ids(fromServer)
    BY <1>0, <1>3, AnswersTail DEF StrayInv, WireInv
  <2>3. Ids(replies'[epoch]) \cap Coming' = {}
    BY <1>0, <1>1, <2>1, <2>2 DEF StrayInv, WireInv, Coming
  <2> QED
    BY <1>2, <2>1, <2>2, <2>3
<1>4. CASE ReadLine
  <2> DEFINE line == Head(fromServer)
  <2>1. fromServer # <<>> /\ fromServer' = Tail(fromServer)
    BY <1>4 DEF ReadLine
  <2>2. line \in Line
    BY <1>0, <2>1, HeadTailProperties
  <2>3. Once(fromServer') /\ Ids(fromServer') \subseteq Ids(fromServer)
    BY <1>0, <2>1, AnswersTail DEF StrayInv, WireInv
  <2>4. CASE replies' = replies
    <3>1. Ids(replies'[epoch]) \cap Coming' = {}
      BY <1>1, <2>3, <2>4 DEF StrayInv, WireInv, Coming
    <3> QED
      BY <1>2, <2>3, <2>4, <3>1 DEF StrayInv, WireInv
  <2>5. CASE /\ line.kind = "reply"
             /\ replies' = [replies EXCEPT ![epoch] =
                               Append(@, Reply(line.id, line.word, lastId))]
    <3> DEFINE item == Reply(line.id, line.word, lastId)
               n == line.id
    <3>1. item \in Item
      BY <1>0, <2>2, <2>5, ItemTypes
    <3>2. item.id = n /\ item.kind \notin {"failure", "event"}
      BY DEF Reply
    <3>3. n \in Ids(fromServer) /\ n \notin Ids(fromServer')
      BY <1>0, <2>1, <2>5, AnswersTail DEF StrayInv, WireInv
    <3> HIDE DEF item, n
    <3>4. replies' = [replies EXCEPT ![epoch] = Append(@, item)]
      BY <2>5 DEF item
    <3>5. n \in Coming /\ n \notin Ids(replies[epoch]) /\ n \notin AskedIds(toServer)
      BY <3>3 DEF StrayInv, WireInv, Coming
    <3>6. Once(replies[epoch]) /\ replies[epoch] \in Seq(Item)
      BY <1>0 DEF StrayInv, WireInv
    <3>7. replies'[epoch] = Append(replies[epoch], item)
      BY <1>0, <3>4
    <3>8. Ids(replies'[epoch]) = Ids(replies[epoch]) \cup {n} /\ Once(replies'[epoch])
      BY <3>1, <3>2, <3>5, <3>6, <3>7, AnswersAppend
    <3>9. \A s \in Sessions : s # epoch => replies'[s] = replies[s]
      BY <1>0, <3>4
    <3>10. \A s \in Sessions : Once(replies'[s])
      BY <3>8, <3>9 DEF StrayInv, WireInv
    <3>11. \A s \in Sessions :
             \A m \in Ids(replies'[s]) : m \in Ids(replies[s]) \/ (s = epoch /\ m \in Coming)
      BY <3>5, <3>8, <3>9
    <3>12. Ids(replies'[epoch]) \cap Coming' = {}
      BY <1>1, <2>3, <3>3, <3>5, <3>8 DEF StrayInv, WireInv, Coming
    <3> QED
      BY <1>2, <2>3, <3>10, <3>11, <3>12
  <2> QED
    BY <1>3, <1>4, <2>1, <2>4, <2>5 DEF ReadLine
<1>5. CASE ReadEof
  BY <1>3, <1>5 DEF ReadEof, wireVars
<1> QED
  BY <1>4, <1>5 DEF ReadLoop

\* connect() and close(): the old socket goes with what it carries, and the next
\* session starts with nothing on its way.
LEMMA StrayLifecycle ==
    ASSUME BaseInv, StrayInv, Lifecycle
    PROVE  StrayInv'
<1>0. /\ epoch \in Sessions /\ replies \in [Sessions -> Seq(Item)] /\ Sessions \subseteq Nat
      /\ DOMAIN pc = Callers /\ DOMAIN current = Callers
      /\ \A c \in Callers : current[c].session \in Sessions /\ current[c].queue \in Sessions
  BY StrayTypes
<1>1. CASE Connect \/ Close \/ AbortConnect
  <2>1. /\ fromServer' = <<>> /\ toServer' = <<>> /\ peerOpen' = FALSE
        /\ UNCHANGED <<epoch, replies, holder, pc, current, lastId, results>>
    BY <1>1 DEF Connect, Close, AbortConnect, CloseBegins, callVars
  <2>2. Coming' = {}
    BY <2>1, NoAnswers DEF Coming
  <2>3. HolderInv' /\ OwedInv' /\ ResultsInv'
    BY <2>1, <2>2, WireMoves
  <2>4. WireInv'
    BY <2>1, <2>2, NoAnswers DEF StrayInv, WireInv
  <2>5. OwnerInv'
    BY <1>1, <2>1 DEF Connect, Close, AbortConnect, StrayInv, OwnerInv
  <2> QED
    BY <2>3, <2>4, <2>5 DEF StrayInv
<1>2. CASE CloseEnds
  <2>1. /\ replies' = [replies EXCEPT ![epoch] = Append(@, Failure)]
        /\ connPhase = "closing" /\ connPhase' = "idle"
        /\ UNCHANGED <<epoch, holder, pc, current, lastId, results, fromServer, toServer>>
    BY <1>2 DEF CloseEnds, callVars, wireVars
  <2>2. \A s \in Sessions : Ids(replies'[s]) = Ids(replies[s]) /\ Once(replies'[s])
    BY <2>1, FailureAppended
  <2>3. Coming' = Coming
    BY <2>1 DEF Coming
  <2>4. HolderInv' /\ OwedInv' /\ ResultsInv'
    BY <2>1, <2>2, <2>3, WireMoves
  <2>5. WireInv' /\ OwnerInv'
    BY <1>0, <2>1, <2>2, <2>3 DEF StrayInv, WireInv, OwnerInv
  <2> QED
    BY <2>4, <2>5 DEF StrayInv
<1>3. CASE Dial
  <2>1. /\ replies' = [replies EXCEPT ![epoch] = Append(@, Failure)]
        /\ connPhase = "closingToDial" /\ connPhase' = "dialing"
        /\ epoch' = epoch + 1
        /\ UNCHANGED <<holder, pc, current, lastId, results, fromServer, toServer>>
    BY <1>3 DEF Dial, callVars, wireVars
  <2>2. epoch + 1 \in Sessions /\ epoch + 1 > epoch /\ epoch + 1 # epoch
    BY <1>0, <2>1, BoundsAssumption DEF BaseInv, QueueInv, Sessions
  <2>3. \A s \in Sessions : Ids(replies'[s]) = Ids(replies[s]) /\ Once(replies'[s])
    BY <2>1, FailureAppended
  <2>4. Coming = {} /\ Coming' = {}
    BY <2>1 DEF StrayInv, WireInv, Coming
  <2>5. HolderInv'
    <3>1. ASSUME NEW c \in Callers, Busy(c) PROVE current[c].queue <= epoch + 1
      <4>1. current[c].queue <= epoch
        BY <3>1 DEF StrayInv, HolderInv
      <4>2. current[c].queue \in Nat /\ epoch \in Nat
        BY <1>0
      <4> QED
        BY <4>1, <4>2
    <3> QED
      BY <2>1, <2>3, <2>4, <3>1 DEF StrayInv, HolderInv, Busy
  <2>6. OwedInv'
    <3>1. ASSUME NEW s \in Sessions,
                 NEW n \in Ids(replies'[s]) \cup (IF s = epoch' THEN Coming' ELSE {})
          PROVE  Owed(n, s)
      BY <2>3, <2>4, <3>1 DEF StrayInv, OwedInv
    <3> QED
      BY <2>1, <3>1 DEF OwedInv, Owed, Gone, Busy
  <2>7. ResultsInv'
    BY <2>1 DEF StrayInv, ResultsInv, StrayOnlyFromGone, Gone
  <2>8. WireInv' /\ OwnerInv'
    BY <2>1, <2>3, <2>4 DEF StrayInv, WireInv, OwnerInv
  <2> QED
    BY <2>5, <2>6, <2>7, <2>8 DEF StrayInv
<1>4. CASE DialFails
  <2>1. /\ connPhase = "dialing" /\ connPhase' = "idle"
        /\ UNCHANGED <<epoch, replies, holder, pc, current, lastId, results, fromServer, toServer>>
    BY <1>4 DEF DialFails, callVars, wireVars
  <2>2. Coming' = Coming
    BY <2>1 DEF Coming
  <2>3. HolderInv' /\ OwedInv' /\ ResultsInv'
    BY <2>1, <2>2, WireMoves
  <2>4. WireInv' /\ OwnerInv'
    BY <2>1, <2>2 DEF StrayInv, WireInv, OwnerInv
  <2> QED
    BY <2>3, <2>4 DEF StrayInv
<1>5. CASE DialOk
  <2>1. /\ connPhase = "dialing" /\ connPhase' = "login"
        /\ UNCHANGED <<epoch, replies, holder, lastId, results, fromServer, toServer>>
        /\ pc' = [pc EXCEPT ![Owner] = "lock"]
        /\ current' = [current EXCEPT ![Owner] = NoCommand(Login)]
    BY <1>5 DEF DialOk, AcquireLock
  <2>2. pc[Owner] = "idle"
    BY <2>1 DEF StrayInv, OwnerInv
  <2>3. \A d \in Callers : pc'[d] \in {"sending", "awaiting"} <=> Busy(d)
    BY <1>0, <2>1, <2>2 DEF Busy
  <2>4. \A d \in Callers : Busy(d) => current'[d] = current[d]
    BY <1>0, <2>1, <2>2 DEF Busy
  <2>5. \A d \in Callers : Busy(d) =>
          current[d].session <= current[d].queue /\ current[d].queue <= epoch
    BY DEF StrayInv, HolderInv
  <2>6. Coming' = Coming
    BY <2>1 DEF Coming
  <2>7. HolderInv' /\ OwedInv' /\ ResultsInv'
    BY <2>1, <2>3, <2>4, <2>5, <2>6, OwedKept
  <2>8. WireInv' /\ OwnerInv'
    BY <2>1, <2>6 DEF StrayInv, WireInv, OwnerInv
  <2> QED
    BY <2>7, <2>8 DEF StrayInv
<1> QED
  BY <1>1, <1>2, <1>3, <1>4, <1>5 DEF Lifecycle

\* A command gets its own reply, or the late one of an earlier command of the same
\* session that was given up, and no reply twice, for any number of callers,
\* commands and connections (_command_lock, connect, close).
THEOREM StrayRepliesAreLate == Spec => []StrayOnlyFromGone
<1>1. Init => StrayInv
  <2> SUFFICES ASSUME Init PROVE StrayInv
    OBVIOUS
  <2>1. 0 \in Sessions
    BY BoundsAssumption DEF Sessions
  <2>2. Coming = {}
    BY NoAnswers DEF Init, Coming
  <2>3. WireInv /\ OwnerInv
    BY <2>1, <2>2, NoAnswers, CallersAssumption DEF Init, WireInv, OwnerInv
  <2>4. HolderInv
    BY DEF Init, HolderInv, Busy
  <2>5. OwedInv
    BY <2>2, NoAnswers DEF Init, OwedInv
  <2>6. ResultsInv
    BY DEF Init, ResultsInv, StrayOnlyFromGone
  <2> QED
    BY <2>3, <2>4, <2>5, <2>6 DEF StrayInv
<1>2. BaseInv /\ StrayInv /\ [Next]_vars => StrayInv'
  <2> SUFFICES ASSUME BaseInv, StrayInv, [Next]_vars PROVE StrayInv'
    OBVIOUS
  <2>1. CASE UNCHANGED vars
    <3>1. UNCHANGED <<epoch, connPhase, replies, holder, pc, current, lastId, results,
                      fromServer, toServer, peerOpen>>
      BY <2>1 DEF vars, connVars, callVars, wireVars
    <3>2. Coming' = Coming
      BY <3>1 DEF Coming
    <3>3. HolderInv' /\ OwedInv' /\ ResultsInv'
      BY <3>1, <3>2, WireMoves
    <3>4. WireInv' /\ OwnerInv'
      BY <3>1, <3>2 DEF StrayInv, WireInv, OwnerInv
    <3> QED
      BY <3>3, <3>4 DEF StrayInv
  <2> QED
    BY <2>1, StrayExchange, StrayNetwork, StrayReader, StrayLifecycle DEF Next
<1>3. StrayInv => StrayOnlyFromGone
  BY DEF StrayInv, ResultsInv
<1> QED
  BY <1>1, <1>2, <1>3, BaseInvariant, PTL DEF Spec
=============================================================================
