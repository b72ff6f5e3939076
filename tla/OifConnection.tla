---------------------------- MODULE OifConnection ----------------------------
(***************************************************************************)
(* One api/client.py OifConnection object: the command exchange behind the *)
(* command lock, the reader task that sorts inbound lines into replies and *)
(* events, the per-connect reply queue, and connect() / close().           *)
(*                                                                         *)
(* OIF replies carry no request number.  In the model every reply names    *)
(* the command it answers; the code never sees that number, only the       *)
(* properties use it.                                                      *)
(*                                                                         *)
(* asyncio runs one task at a time and switches only at an await, so every *)
(* action below is the code between two awaits.                            *)
(***************************************************************************)
EXTENDS Integers, Sequences, SequencesExt

CONSTANTS
    Callers,       \* the tasks that issue commands, Owner among them
    Owner,         \* the task that calls connect() and close()
    NoCaller,      \* not a task
    Requests,      \* the commands, LOGIN among them
    Login,         \* the LOGIN command of connect()
    Keyword,       \* the reply keyword each command expects
    MaxCommands,   \* bound: commands written in a behaviour
    MaxSessions,   \* bound: connect() calls in a behaviour
    MaxEvents      \* bound: events the server pushes in a behaviour

ASSUME CallersAssumption == Owner \in Callers /\ NoCaller \notin Callers
ASSUME RequestsAssumption ==
    /\ Login \in Requests
    /\ Keyword \in [Requests -> STRING]
    /\ Keyword[Login] = "OK"
ASSUME BoundsAssumption ==
    MaxCommands \in Nat /\ MaxSessions \in Nat /\ MaxEvents \in Nat

VARIABLES
    epoch,         \* which connect() call: numbers the reply queues and sockets
    connPhase,     \* where connect() / close() of the owner is
    transport,     \* self._transport is set and its writer is open
    reader,        \* the reader task
    disconnected,  \* the asyncio.Event behind wait_disconnected()
    replies,       \* the reply queue of each connect() call
    holder,        \* _command_lock: the task inside _execute_lines
    waiters,       \* _command_lock: the tasks queued for it, in order
    pc,            \* where each task is in _execute_lines
    current,       \* the command each task is executing
    lastId,        \* commands written so far
    toServer,      \* commands on the current socket
    fromServer,    \* lines on the current socket
    peerOpen,      \* the server has not closed the current socket
    pushed,        \* events pushed so far
    delivered,     \* events handed to the event callback, in order
    results        \* how every command that was written ended

connVars == <<epoch, connPhase, transport, reader, disconnected>>
wireVars == <<toServer, fromServer, peerOpen, pushed>>
callVars == <<holder, waiters, pc, current, lastId, results>>
vars == <<connVars, replies, callVars, wireVars, delivered>>

------------------------------------------------------------------------------
(* Data *)

Sessions == 0 .. MaxSessions

\* An item of the reply queue: a reply line or the reader's exception.
\* `at` is the number of commands written when the reader queued the line.
Reply(n, w, k) == [kind |-> "reply", id |-> n, word |-> w, at |-> k]
Failure == [kind |-> "failure", id |-> 0, word |-> "", at |-> 0]

Words == {Keyword[r] : r \in Requests} \cup {"ERROR"}
Item == [kind : {"reply"}, id : Nat, word : Words, at : Nat] \cup {Failure}

\* A line on the socket: a reply, a pushed event, a line the parser rejects
\* (`garbage`) or one longer than the reader's limit (`oversized`).
Line == [kind : {"reply", "garbage", "oversized"}, id : Nat, word : Words]
            \cup [kind : {"event"}, id : Nat, word : {""}]

\* The command a task executes: its number once written, the connect() call
\* whose socket it was written to and the one whose queue it waits on.
Command == [id : Nat, request : Requests, session : Sessions, queue : Sessions]
NoCommand(r) == [id |-> 0, request |-> r, session |-> 0, queue |-> 0]

\* Ways an exchange ends.  An abandoned one leaves its command on the wire.
Answered == {"ok", "error", "protocol"}
Abandoned == {"timeout", "cancelled"}

\* The end of a written command: the reply line it consumed, if any, and when
\* that line was read.
Result == [id : Nat, session : Sessions, answer : Nat, at : Nat,
           end : {"answered", "lost"} \cup Abandoned]

Connected == transport /\ reader = "running"

Init ==
    /\ epoch = 0
    /\ connPhase = "idle"
    /\ transport = FALSE
    /\ reader = "none"
    /\ disconnected = TRUE
    /\ replies = [s \in Sessions |-> <<>>]
    /\ holder = NoCaller
    /\ waiters = <<>>
    /\ pc = [c \in Callers |-> "idle"]
    /\ current = [c \in Callers |-> NoCommand(Login)]
    /\ lastId = 0
    /\ toServer = <<>>
    /\ fromServer = <<>>
    /\ peerOpen = FALSE
    /\ pushed = 0
    /\ delivered = <<>>
    /\ results = {}

------------------------------------------------------------------------------
(* _execute_lines *)

\* async with self._command_lock: join the FIFO of the asyncio lock.
AcquireLock(c, r) ==
    /\ pc' = [pc EXCEPT ![c] = "lock"]
    /\ waiters' = Append(waiters, c)
    /\ current' = [current EXCEPT ![c] = NoCommand(r)]
    /\ UNCHANGED holder

Call(c, r) ==
    /\ c # Owner
    /\ r # Login
    /\ pc[c] = "idle"
    /\ lastId + Len(waiters) < MaxCommands
    /\ AcquireLock(c, r)
    /\ UNCHANGED <<connVars, replies, lastId, results, wireVars, delivered>>

\* The lock passes to the task that has waited longest.
Granted(c) ==
    /\ pc[c] = "lock"
    /\ holder = NoCaller
    /\ waiters # <<>> /\ Head(waiters) = c

\* Leaving _execute_lines.  When the command was LOGIN the owner goes on: a
\* SigurError closes the session again (the except clause of connect), a
\* CancelledError does not.
Leave(c, outcome) ==
    /\ pc' = [pc EXCEPT ![c] = "idle"]
    /\ current' = [current EXCEPT ![c] = NoCommand(Login)]
    /\ connPhase' = IF c # Owner THEN connPhase
                    ELSE IF outcome \in {"ok", "cancelled"} THEN "idle" ELSE "close"
    /\ UNCHANGED <<epoch, transport, reader, disconnected>>

ResultOf(c, outcome, item) ==
    [id |-> current[c].id, session |-> current[c].session,
     answer |-> item.id, at |-> item.at,
     end |-> IF outcome \in Answered THEN "answered" ELSE outcome]

\* Faulty variant: a timeout forgets to release the lock.
FinishKeepingLock(c, outcome, answer) ==
    /\ Leave(c, outcome)
    /\ holder' = IF outcome = "timeout" THEN holder ELSE NoCaller
    /\ results' = results \cup {ResultOf(c, outcome, answer)}
    /\ UNCHANGED <<waiters, lastId>>

\* The exchange of a written command is over: the lock is released.
Finish(c, outcome, answer) ==
    /\ Leave(c, outcome)
    /\ holder' = NoCaller
    /\ results' = results \cup {ResultOf(c, outcome, answer)}
    /\ UNCHANGED <<waiters, lastId>>

\* Faulty variant: the next command does not drain the queue.
DrainNothing(q) == q

\* _drain_stale_replies: drop replies up to the first exception, which is put
\* back at the end of the queue.
FailureAt(q) == {i \in 1 .. Len(q) : q[i] = Failure}
Drain(q) ==
    IF FailureAt(q) = {}
    THEN <<>>
    ELSE LET first == CHOOSE i \in FailureAt(q) : \A j \in FailureAt(q) : i <= j
         IN  Append(SubSeq(q, first + 1, Len(q)), Failure)

SendRefused(c) ==
    /\ Granted(c)
    /\ ~Connected
    /\ waiters' = Tail(waiters)
    /\ Leave(c, "lost")
    /\ UNCHANGED <<holder, lastId, results, replies, wireVars, delivered>>

\* Drain, write the line, await writer.drain().  A line written to a socket the
\* peer has closed goes nowhere.
Send(c) ==
    /\ Granted(c)
    /\ Connected
    /\ holder' = c
    /\ waiters' = Tail(waiters)
    /\ pc' = [pc EXCEPT ![c] = "sending"]
    /\ replies' = [replies EXCEPT ![epoch] = Drain(@)]
    /\ lastId' = lastId + 1
    /\ current' = [current EXCEPT
                    ![c] = [id |-> lastId + 1, request |-> @.request,
                            session |-> epoch, queue |-> epoch]]
    /\ toServer' = IF peerOpen
                   THEN Append(toServer, [id |-> lastId + 1,
                                          request |-> current[c].request])
                   ELSE toServer
    /\ UNCHANGED <<connVars, results, fromServer, peerOpen, pushed, delivered>>

\* writer.drain() returned; self._replies is read here, so the queue is the one
\* of the connect() call that is current now.
Sent(c) ==
    /\ pc[c] = "sending"
    /\ pc' = [pc EXCEPT ![c] = "awaiting"]
    /\ current' = [current EXCEPT ![c].queue = epoch]
    /\ UNCHANGED <<connVars, replies, holder, waiters, lastId, results, wireVars,
                   delivered>>

\* writer.drain() raised OSError: only once the writer is closing.
SendFailed(c) ==
    /\ pc[c] = "sending"
    /\ ~transport \/ current[c].session # epoch
    /\ Finish(c, "lost", Failure)
    /\ UNCHANGED <<replies, wireVars, delivered>>

\* _next_reply, then the keyword test of parse_error / SigurApi._expect.
Outcome(item, r) ==
    IF item = Failure THEN "lost"
    ELSE IF item.word = "ERROR" THEN "error"
    ELSE IF item.word = Keyword[r] THEN "ok" ELSE "protocol"

Receive(c) ==
    LET s == current[c].queue
        item == Head(replies[s])
    IN  /\ pc[c] = "awaiting"
        /\ replies[s] # <<>>
        /\ replies' = [replies EXCEPT ![s] = Tail(@)]
        /\ Finish(c, Outcome(item, current[c].request), item)
        /\ UNCHANGED <<wireVars, delivered>>

\* asyncio.timeout(budget) covers the wait for the reply, not the send.
Timeout(c) ==
    /\ pc[c] = "awaiting"
    /\ Finish(c, "timeout", Failure)
    /\ UNCHANGED <<replies, wireVars, delivered>>

\* The task is cancelled while it waits for the lock ...
CancelWaiting(c) ==
    /\ pc[c] = "lock"
    /\ \E i \in 1 .. Len(waiters) : waiters[i] = c /\ waiters' = RemoveAt(waiters, i)
    /\ Leave(c, "cancelled")
    /\ UNCHANGED <<holder, lastId, results, replies, wireVars, delivered>>

\* ... or once its command is written.
CancelSent(c) ==
    /\ pc[c] \in {"sending", "awaiting"}
    /\ Finish(c, "cancelled", Failure)
    /\ UNCHANGED <<replies, wireVars, delivered>>

------------------------------------------------------------------------------
(* The server and the network *)

\* The server answers the commands of a socket in order: with the expected
\* keyword, with ERROR, or with a line the client cannot parse or will not read.
Serve ==
    /\ peerOpen /\ toServer # <<>>
    /\ \E w \in {Keyword[Head(toServer).request], "ERROR"},
          k \in {"reply", "garbage", "oversized"} :
            fromServer' = Append(fromServer,
                                 [kind |-> k, id |-> Head(toServer).id, word |-> w])
    /\ toServer' = Tail(toServer)
    /\ UNCHANGED <<connVars, replies, callVars, peerOpen, pushed, delivered>>

Push ==
    /\ peerOpen /\ pushed < MaxEvents
    /\ pushed' = pushed + 1
    /\ fromServer' = Append(fromServer, [kind |-> "event", id |-> pushed + 1, word |-> ""])
    /\ UNCHANGED <<connVars, replies, callVars, toServer, peerOpen, delivered>>

\* The peer closes the socket; what it already sent can still be read.
PeerCloses ==
    /\ peerOpen
    /\ peerOpen' = FALSE
    /\ toServer' = <<>>
    /\ UNCHANGED <<connVars, replies, callVars, fromServer, pushed, delivered>>

\* asyncio marks the writer as closing, before or after the reader meets the end
\* of file.
ConnectionLost ==
    /\ transport /\ ~peerOpen
    /\ transport' = FALSE
    /\ UNCHANGED <<epoch, connPhase, reader, disconnected, replies, callVars,
                   wireVars, delivered>>

------------------------------------------------------------------------------
(* _read_loop and _dispatch *)

ReaderStopsUnsignalled ==
    /\ reader' = "done"
    /\ replies' = [replies EXCEPT ![epoch] = Append(@, Failure)]
    /\ UNCHANGED <<epoch, connPhase, transport, disconnected>>

\* The reader stops: its exception goes to the reply queue and the
\* disconnected event is set in the same step.
ReaderStops ==
    /\ reader' = "done"
    /\ disconnected' = TRUE
    /\ replies' = [replies EXCEPT ![epoch] = Append(@, Failure)]
    /\ UNCHANGED <<epoch, connPhase, transport>>

\* One line: a reply joins the queue, an event goes to the callback, a line that
\* does not parse is counted and dropped, an over-long one stops the reader.
ReadLine ==
    LET line == Head(fromServer)
    IN  /\ reader = "running" /\ fromServer # <<>>
        /\ fromServer' = Tail(fromServer)
        /\ \/ /\ line.kind = "reply"
              /\ replies' = [replies EXCEPT ![epoch] =
                                Append(@, Reply(line.id, line.word, lastId))]
              /\ UNCHANGED <<connVars, delivered>>
           \/ /\ line.kind = "event"
              /\ delivered' = Append(delivered, line.id)
              /\ UNCHANGED <<connVars, replies>>
           \/ /\ line.kind = "garbage"
              /\ UNCHANGED <<connVars, replies, delivered>>
           \/ /\ line.kind = "oversized"
              /\ ReaderStops
              /\ UNCHANGED delivered
        /\ UNCHANGED <<callVars, toServer, peerOpen, pushed>>

\* End of file, or a connection error that hides the lines still buffered.
ReadEof ==
    /\ reader = "running"
    /\ ~peerOpen
    /\ fromServer = <<>> \/ ~transport
    /\ ReaderStops
    /\ UNCHANGED <<callVars, wireVars, delivered>>

------------------------------------------------------------------------------
(* connect() and close() *)

\* Faulty variant: the old socket is left open and the new reader inherits it.
CloseKeepingSocket(next) ==
    /\ connPhase' = next
    /\ transport' = FALSE
    /\ reader' = "none"
    /\ disconnected' = TRUE
    /\ UNCHANGED <<epoch, replies, callVars, wireVars, delivered>>

\* close() up to its last await: stop the reader, drop the socket.
CloseBegins(next) ==
    /\ connPhase' = next
    /\ transport' = FALSE
    /\ reader' = "none"
    /\ disconnected' = TRUE
    /\ toServer' = <<>> /\ fromServer' = <<>> /\ peerOpen' = FALSE
    /\ UNCHANGED <<epoch, replies, callVars, pushed, delivered>>

\* connect() starts by closing; close() may also be called on its own, and the
\* except clause of connect() calls it after a failed LOGIN.  (Closing what is
\* closed already only queues another exception; it is not modelled.)
Connect ==
    connPhase = "idle" /\ pc[Owner] = "idle" /\ epoch < MaxSessions
        /\ CloseBegins("closingToDial")
Close ==
    connPhase = "idle" /\ pc[Owner] = "idle" /\ reader # "none"
        /\ CloseBegins("closing")
AbortConnect == connPhase = "close" /\ CloseBegins("closing")

\* The last line of close() wakes whoever waits for a reply.
CloseEnds ==
    /\ connPhase = "closing"
    /\ connPhase' = "idle"
    /\ replies' = [replies EXCEPT ![epoch] = Append(@, Failure)]
    /\ UNCHANGED <<epoch, transport, reader, disconnected, callVars, wireVars,
                   delivered>>

\* Faulty variant: connect() keeps using the reply queue it had.
DialKeepingQueue ==
    /\ connPhase = "closingToDial"
    /\ connPhase' = "dialing"
    /\ replies' = [replies EXCEPT ![epoch + 1] = Append(replies[epoch], Failure)]
    /\ epoch' = epoch + 1
    /\ disconnected' = FALSE
    /\ UNCHANGED <<transport, reader, callVars, wireVars, delivered>>

\* connect() goes on after close(): a new reply queue, then the dial.
Dial ==
    /\ connPhase = "closingToDial"
    /\ connPhase' = "dialing"
    /\ replies' = [replies EXCEPT ![epoch] = Append(@, Failure)]
    /\ epoch' = epoch + 1
    /\ disconnected' = FALSE
    /\ UNCHANGED <<transport, reader, callVars, wireVars, delivered>>

\* The dial is refused, times out or is cancelled: the exception leaves
\* connect() before its try block, and the event stays cleared.
DialFails ==
    /\ connPhase = "dialing"
    /\ connPhase' = "idle"
    /\ UNCHANGED <<epoch, transport, reader, disconnected, replies, callVars,
                   wireVars, delivered>>

\* The dial succeeds: start the reader and ask for the lock to send LOGIN.
DialOk ==
    /\ connPhase = "dialing"
    /\ connPhase' = "login"
    /\ transport' = TRUE
    /\ reader' = "running"
    /\ peerOpen' = TRUE
    /\ AcquireLock(Owner, Login)
    /\ UNCHANGED <<epoch, disconnected, replies, lastId, results, toServer,
                   fromServer, pushed, delivered>>

------------------------------------------------------------------------------

Exchange(c) ==
    \/ \E r \in Requests : Call(c, r)
    \/ SendRefused(c) \/ Send(c) \/ Sent(c) \/ SendFailed(c)
    \/ Receive(c) \/ Timeout(c) \/ CancelWaiting(c) \/ CancelSent(c)

Network == Serve \/ Push \/ PeerCloses \/ ConnectionLost

ReadLoop == ReadLine \/ ReadEof

Lifecycle ==
    Connect \/ Close \/ AbortConnect \/ CloseEnds \/ Dial \/ DialFails \/ DialOk

Next == (\E c \in Callers : Exchange(c)) \/ Network \/ ReadLoop \/ Lifecycle

Spec == Init /\ [][Next]_vars

\* Timers fire and the event loop runs every ready task.  Nothing is assumed of the
\* server, of cancellations, of callers, or of writer.drain(), which no timer bounds.
Fairness ==
    /\ \A c \in Callers : /\ WF_vars(SendRefused(c) \/ Send(c))
                          /\ WF_vars(Receive(c) \/ Timeout(c))
    /\ WF_vars(ReadLoop)
    /\ WF_vars(AbortConnect \/ CloseEnds \/ Dial \/ DialFails \/ DialOk)

FairSpec == Spec /\ Fairness

------------------------------------------------------------------------------
(* Properties *)

\* The types of the variables.
TypeOK ==
    /\ epoch \in Sessions
    /\ connPhase \in {"idle", "close", "closing", "closingToDial", "dialing", "login"}
    /\ transport \in BOOLEAN
    /\ reader \in {"none", "running", "done"}
    /\ disconnected \in BOOLEAN
    /\ replies \in [Sessions -> Seq(Item)]
    /\ holder \in Callers \cup {NoCaller}
    /\ waiters \in Seq(Callers)
    /\ pc \in [Callers -> {"idle", "lock", "sending", "awaiting"}]
    /\ current \in [Callers -> Command]
    /\ lastId \in Nat
    /\ toServer \in Seq([id : Nat, request : Requests])
    /\ fromServer \in Seq(Line)
    /\ peerOpen \in BOOLEAN
    /\ pushed \in Nat
    /\ delivered \in Seq(Nat)
    /\ results \subseteq Result

\* An exception in the reply queue means the session is over, so the drain that
\* starts a command never meets one and always empties the queue
\* (_drain_stale_replies, connect's new queue).
FailureMeansDown == Connected => FailureAt(replies[epoch]) = {}

\* What the drain does guarantee: a command is answered only by a line that was
\* read from the socket after the command was written (_execute_lines).
AnsweredAfterAsked ==
    \A r \in results : r.answer # 0 => r.at >= r.id

Own(r) == r.answer = r.id
Gone(n, s) == \E r \in results : r.id = n /\ r.session = s /\ ~Own(r)

\* A command gets its own reply, or the late reply of an earlier command of the
\* same session that was over without having got it: never the reply of a
\* command that still waits, never a reply of an earlier session, and never a
\* reply that was used before (_command_lock, close, connect).
StrayOnlyFromGone ==
    \A r \in results :
        r.answer # 0 /\ ~Own(r) =>
            /\ r.answer < r.id
            /\ Gone(r.answer, r.session)
            /\ \A x \in results : x.answer = r.answer => x = r

\* A closed socket is always noticed by wait_disconnected(), on which the event
\* supervisor sleeps (_read_loop).
LossIsNoticed == (Connected /\ ~peerOpen) ~> disconnected

\* Unless a writer.drain() goes on for ever, because the server stopped reading,
\* every command that asks for the lock returns or raises (_execute_lines).
DrainEnds(c) == []<>(pc[c] # "sending")
CallsReturn ==
    (\A c \in Callers : DrainEnds(c)) => \A c \in Callers : pc[c] = "lock" ~> pc[c] = "idle"
=============================================================================
