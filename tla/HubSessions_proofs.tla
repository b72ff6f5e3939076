-------------------------- MODULE HubSessions_proofs --------------------------
(***************************************************************************)
(* Theorems about HubSessions, for any number of tasks that use the        *)
(* command session and any number of names for sessions.                   *)
(***************************************************************************)
EXTENDS HubSessions, ConnectionIssues, SequenceTheorems, TLAPS

\* A task has a session of its own only while it opens one; that session is open,
\* and nobody else's.  Only the event session is subscribed.
OpeningInv ==
    \A t \in Tasks :
        /\ opening[t] # NoSession => /\ pc[t] \in {"login", "closeReader", "subscribe", "swap"}
                                     /\ opening[t] \in sockets \ {command, event, captured}
        /\ \A u \in Tasks : opening[t] = opening[u] /\ opening[t] # NoSession => t = u
        /\ pc[t] = "subscribe" => Needs(t) = "event" /\ opening[t] # NoSession

Reopening(t) ==
    pc[t] \in {"dial", "login", "closeReader", "closeSocket", "swap"} /\ Needs(t) = "command"

\* Who reopens the command session holds the lock, and the lock is held only
\* while that session is dead.
LockInv ==
    /\ \A t \in Tasks : Reopening(t) => lockHolder = t
    /\ lockHolder # NoTask => command \notin up

\* A session about to be replaced has been closed.
SwapInv ==
    \A t \in Tasks : pc[t] = "swap" => IF Needs(t) = "command" THEN command \notin sockets
                                       ELSE event \notin sockets

\* The two sessions differ, and only async_shutdown leaves a cancellation of the hub's
\* tasks pending.
SessionsInv ==
    /\ command = event => command = NoSession
    /\ \A t \in Tasks : cancelled[t] => t \in HubTasks /\ phase # "running"

IInv == TypeOK /\ OpeningInv /\ LockInv /\ SwapInv /\ SessionsInv /\ NoOrphanWhileRunning

-----------------------------------------------------------------------------
(* The operators several actions share.                                    *)

\* Removing one element of a sequence leaves a sequence over the same set.
LEMMA RemoveAtType ==
    ASSUME NEW S, NEW s \in Seq(S), NEW i \in 1 .. Len(s)
    PROVE  RemoveAt(s, i) \in Seq(S)
<1>1. SubSeq(s, 1, i - 1) \in Seq(S)
  BY SubSeqProperties
<1>2. SubSeq(s, i + 1, Len(s)) \in Seq(S)
  BY SubSeqProperties
<1> QED
  BY <1>1, <1>2, ConcatProperties DEF RemoveAt

Awaits == {"idle", "lock", "dial", "login", "closeReader", "closeSocket",
           "subscribe", "swap", "use", "watch", "sleep", "ended"}

LEMMA EnsureTypes ==
    ASSUME TypeOK, NEW t \in Tasks, EnsureCommand(t)
    PROVE  /\ pc' \in [Tasks -> Awaits] /\ target' \in {"command", "event"}
           /\ lockQueue' \in Seq(Tasks) /\ lockHolder' = lockHolder
<1>1. pc' \in [Tasks -> Awaits]
  BY DEF TypeOK, EnsureCommand, Goto, Awaits
<1>2. target' \in {"command", "event"}
  BY DEF TypeOK, EnsureCommand
<1>3. lockQueue' \in Seq(Tasks) /\ lockHolder' = lockHolder
  <2>1. lockQueue \in Seq(Tasks) /\ Append(lockQueue, t) \in Seq(Tasks)
    BY AppendProperties DEF TypeOK
  <2> QED
    BY <2>1 DEF EnsureCommand, lockVars
<1> QED
  BY <1>1, <1>2, <1>3

LEMMA FailTypes ==
    ASSUME TypeOK, NEW t \in Tasks, NEW how \in {"auth", "error"}, Fail(t, how)
    PROVE  /\ pc' \in [Tasks -> Awaits]
           /\ failure' \in [Tasks -> {"none", "auth", "error"}]
           /\ opening' \in [Tasks -> Sessions \cup {NoSession}]
           /\ lockHolder' \in Tasks \cup {NoTask} /\ lockQueue' = lockQueue
           /\ attempt' \in 0 .. OverflowAttempt
           /\ raised' \subseteq HubTasks
<1>1. pc' \in [Tasks -> Awaits]
  BY DEF TypeOK, Fail, Goto, Awaits
<1>2. /\ failure' \in [Tasks -> {"none", "auth", "error"}]
      /\ opening' \in [Tasks -> Sessions \cup {NoSession}]
  BY DEF TypeOK, Fail
<1>3. lockHolder' \in Tasks \cup {NoTask} /\ lockQueue' = lockQueue
  BY DEF TypeOK, Fail
<1>4. attempt' \in 0 .. OverflowAttempt
  BY OptionsAssumption DEF TypeOK, Fail, DelayOverflows
<1>5. raised' \subseteq HubTasks
  BY DEF TypeOK, Fail, HubTasks
<1> QED
  BY <1>1, <1>2, <1>3, <1>4, <1>5

LEMMA LeaveQueueType ==
    ASSUME TypeOK, NEW t \in Tasks, LeaveQueue(t)
    PROVE  lockQueue' \in Seq(Tasks)
  BY RemoveAtType DEF TypeOK, LeaveQueue

-----------------------------------------------------------------------------
(* The invariant.                                                          *)

LEMMA IInvInit == Init => IInv
<1> SUFFICES ASSUME Init PROVE IInv
  OBVIOUS
<1> USE TasksAssumption, SessionsAssumption DEF Init, Tasks, HubTasks
<1>1. TypeOK
  BY OptionsAssumption, EmptySeq DEF TypeOK
<1>2. OpeningInv
  BY DEF OpeningInv
<1>3. LockInv
  BY DEF LockInv, Reopening, Needs
<1>4. SwapInv
  BY DEF SwapInv
<1>5. SessionsInv /\ NoOrphanWhileRunning
  BY DEF SessionsInv, NoOrphanWhileRunning
<1> QED
  BY <1>1, <1>2, <1>3, <1>4, <1>5 DEF IInv

\* The types, which need that a task opens a name of its own and that only a task
\* of the hub can lose a pending cancellation.
LEMMA TypeStep ==
    TypeOK /\ OpeningInv /\ SessionsInv /\ Next => TypeOK'
<1> SUFFICES ASSUME TypeOK, OpeningInv, SessionsInv, Next PROVE TypeOK'
  OBVIOUS
<1> USE TasksAssumption, SessionsAssumption, OptionsAssumption
    DEF TypeOK, OpeningInv, SessionsInv,
        At, Goto, Needs, Tasks, HubTasks, sessionVars, lockVars, taskVars, shutdownVars
<1>0. Supervisor \in Tasks
  OBVIOUS
<1>1. ASSUME NEW t \in Tasks, Begin(t) PROVE TypeOK'
  BY <1>1, EnsureTypes DEF Begin, Awaits
<1>2. ASSUME NEW t \in Tasks, ConnectCommand(t) PROVE TypeOK'
  BY <1>2 DEF ConnectCommand, LockGranted
<1>3. ASSUME NEW t \in Tasks, DialOk(t) PROVE TypeOK'
  BY <1>3 DEF DialOk, FreeNames
<1>4. ASSUME NEW t \in Tasks, DialFails(t) PROVE TypeOK'
  BY <1>4 DEF DialFails, Fail, DelayOverflows
<1>5. ASSUME NEW t \in Tasks, LoginOk(t) PROVE TypeOK'
  BY <1>5 DEF LoginOk, Close
<1>6. ASSUME NEW t \in Tasks, LoginFails(t) PROVE TypeOK'
  BY <1>6 DEF LoginFails, CloseOpening, Close
<1>7. ASSUME NEW t \in Tasks, ReaderClosed(t) PROVE TypeOK'
  BY <1>7 DEF ReaderClosed, CloseOpening, Close
<1>8. ASSUME NEW t \in Tasks, SocketClosed(t) PROVE TypeOK'
  BY <1>8 DEF SocketClosed, Fail, DelayOverflows
<1>9. ASSUME NEW t \in Tasks, CommandInstalled(t) PROVE TypeOK'
  BY <1>9 DEF CommandInstalled
<1>10. ASSUME NEW t \in Tasks, UseEnds(t) PROVE TypeOK'
  BY <1>10 DEF UseEnds
<1>11. ASSUME NEW t \in Tasks, TakeCancellation(t) PROVE TypeOK'
  BY <1>11, LeaveQueueType DEF TakeCancellation, Cancel, AbandonOpening, EndTask
<1>12. ASSUME SubscribeOk PROVE TypeOK'
  BY <1>0, <1>12 DEF SubscribeOk, Close
<1>13. ASSUME SubscribeFails PROVE TypeOK'
  <2>1. PICK how \in {"auth", "error"} : Fail(Supervisor, how)
    BY <1>13 DEF SubscribeFails
  <2>2. /\ pc' \in [Tasks -> Awaits]
        /\ failure' \in [Tasks -> {"none", "auth", "error"}]
        /\ opening' \in [Tasks -> Sessions \cup {NoSession}]
        /\ lockHolder' \in Tasks \cup {NoTask} /\ lockQueue' = lockQueue
        /\ attempt' \in 0 .. OverflowAttempt
        /\ raised' \subseteq HubTasks
    BY <1>0, <2>1, FailTypes
  <2>3. abandoned' \subseteq Sessions
    BY <1>0, <1>13 DEF SubscribeFails
  <2> QED
    BY <1>13, <2>2, <2>3 DEF SubscribeFails, Awaits
<1>14. ASSUME EventInstalled PROVE TypeOK'
  <2>1. /\ pc' \in [Tasks -> Awaits] /\ target' \in {"command", "event"}
        /\ lockQueue' \in Seq(Tasks) /\ lockHolder' = lockHolder
    BY <1>0, <1>14, EnsureTypes DEF EventInstalled, Awaits
  <2> QED
    BY <1>0, <1>14, <2>1 DEF EventInstalled, Awaits
<1>15. ASSUME NoticeLoss PROVE TypeOK'
  BY <1>0, <1>15 DEF NoticeLoss, Iterate
<1>16. ASSUME WakeUp PROVE TypeOK'
  BY <1>0, <1>16 DEF WakeUp, Iterate
<1>17. ASSUME Shutdown PROVE TypeOK'
  BY <1>0, <1>17 DEF Shutdown
<1>18. ASSUME TasksEnded PROVE TypeOK'
  BY <1>0, <1>18 DEF TasksEnded
<1>19. ASSUME EventClosed PROVE TypeOK'
  BY <1>0, <1>19 DEF EventClosed, Close
<1>20. ASSUME CommandClosed PROVE TypeOK'
  BY <1>0, <1>20 DEF CommandClosed
<1>21. ASSUME NEW s \in Sessions, PeerCloses(s) PROVE TypeOK'
  BY <1>0, <1>21 DEF PeerCloses
<1>22. ASSUME OrphanCollected PROVE TypeOK'
  BY <1>0, <1>22 DEF OrphanCollected, Orphans
<1>23. ASSUME NEW t \in Tasks, CancelOther(t) PROVE TypeOK'
  BY <1>23, LeaveQueueType DEF CancelOther, Cancel, AbandonOpening, EndTask
<1>24. ASSUME ShutdownFails PROVE TypeOK'
  BY <1>0, <1>24 DEF ShutdownFails
<1>25. ASSUME WebhookStopped PROVE TypeOK'
  BY <1>0, <1>25 DEF WebhookStopped, Close
<1> QED
  BY <1>1, <1>2, <1>3, <1>4, <1>5, <1>6, <1>7, <1>8, <1>9, <1>10, <1>11, <1>12,
     <1>13, <1>14, <1>15, <1>16, <1>17, <1>18, <1>19, <1>20, <1>21, <1>22, <1>23,
     <1>24, <1>25
  DEF Next, Opens, Supervise, StopsOn

\* Each name that is dialled is free, and given up when it is installed.
LEMMA OpeningStep ==
    TypeOK /\ OpeningInv /\ Next => OpeningInv'
<1> SUFFICES ASSUME TypeOK, OpeningInv, Next PROVE OpeningInv'
  OBVIOUS
<1> USE SessionsAssumption, TasksAssumption DEF TypeOK, OpeningInv,
        At, Goto, Needs, Tasks, HubTasks, sessionVars, lockVars, taskVars, shutdownVars
<1>0. Supervisor \in Tasks
  OBVIOUS
<1>1. ASSUME NEW t \in Tasks, Begin(t) PROVE OpeningInv'
  BY <1>1 DEF Begin, EnsureCommand
<1>2. ASSUME NEW t \in Tasks, ConnectCommand(t) PROVE OpeningInv'
  BY <1>2 DEF ConnectCommand, LockGranted
<1>3. ASSUME NEW t \in Tasks, DialOk(t) PROVE OpeningInv'
  BY <1>3 DEF DialOk, FreeNames
<1>4. ASSUME NEW t \in Tasks, DialFails(t) PROVE OpeningInv'
  BY <1>4 DEF DialFails, Fail, DelayOverflows
<1>5. ASSUME NEW t \in Tasks, LoginOk(t) PROVE OpeningInv'
  BY <1>5 DEF LoginOk, Close
<1>6. ASSUME NEW t \in Tasks, LoginFails(t) PROVE OpeningInv'
  BY <1>6 DEF LoginFails, CloseOpening, Close
<1>7. ASSUME NEW t \in Tasks, ReaderClosed(t) PROVE OpeningInv'
  BY <1>7 DEF ReaderClosed, CloseOpening, Close
<1>8. ASSUME NEW t \in Tasks, SocketClosed(t) PROVE OpeningInv'
  BY <1>8 DEF SocketClosed, Fail, DelayOverflows
<1>9. ASSUME NEW t \in Tasks, CommandInstalled(t) PROVE OpeningInv'
  BY <1>9 DEF CommandInstalled
<1>10. ASSUME NEW t \in Tasks, UseEnds(t) PROVE OpeningInv'
  BY <1>10 DEF UseEnds
<1>11. ASSUME NEW t \in Tasks, TakeCancellation(t) PROVE OpeningInv'
  BY <1>11 DEF TakeCancellation, Cancel, AbandonOpening, EndTask, LeaveQueue
<1>12. ASSUME SubscribeOk PROVE OpeningInv'
  BY <1>0, <1>12 DEF SubscribeOk, Close
<1>13. ASSUME SubscribeFails PROVE OpeningInv'
  BY <1>0, <1>13 DEF SubscribeFails, Fail, DelayOverflows
<1>14. ASSUME EventInstalled PROVE OpeningInv'
  BY <1>0, <1>14 DEF EventInstalled, EnsureCommand
<1>15. ASSUME NoticeLoss PROVE OpeningInv'
  BY <1>0, <1>15 DEF NoticeLoss, Iterate
<1>16. ASSUME WakeUp PROVE OpeningInv'
  BY <1>0, <1>16 DEF WakeUp, Iterate
<1>17. ASSUME Shutdown PROVE OpeningInv'
  BY <1>0, <1>17 DEF Shutdown
<1>18. ASSUME TasksEnded PROVE OpeningInv'
  BY <1>0, <1>18 DEF TasksEnded
<1>19. ASSUME EventClosed PROVE OpeningInv'
  BY <1>0, <1>19 DEF EventClosed, Close
<1>20. ASSUME CommandClosed PROVE OpeningInv'
  BY <1>0, <1>20 DEF CommandClosed
<1>21. ASSUME NEW s \in Sessions, PeerCloses(s) PROVE OpeningInv'
  BY <1>0, <1>21 DEF PeerCloses
<1>22. ASSUME OrphanCollected PROVE OpeningInv'
  BY <1>0, <1>22 DEF OrphanCollected, Orphans
<1>23. ASSUME NEW t \in Tasks, CancelOther(t) PROVE OpeningInv'
  BY <1>23 DEF CancelOther, Cancel, AbandonOpening, EndTask, LeaveQueue
<1>24. ASSUME ShutdownFails PROVE OpeningInv'
  BY <1>0, <1>24 DEF ShutdownFails
<1>25. ASSUME WebhookStopped PROVE OpeningInv'
  BY <1>0, <1>25 DEF WebhookStopped, Close
<1> QED
  BY <1>1, <1>2, <1>3, <1>4, <1>5, <1>6, <1>7, <1>8, <1>9, <1>10, <1>11, <1>12,
     <1>13, <1>14, <1>15, <1>16, <1>17, <1>18, <1>19, <1>20, <1>21, <1>22, <1>23,
     <1>24, <1>25
  DEF Next, Opens, Supervise, StopsOn

\* A command session gets its successor only from the holder of the lock, who
\* gives the lock up in the same step.
LEMMA LockStep ==
    TypeOK /\ OpeningInv /\ LockInv /\ Next => LockInv'
<1> SUFFICES ASSUME TypeOK, OpeningInv, LockInv, Next PROVE LockInv'
  OBVIOUS
<1> USE TasksAssumption, SessionsAssumption DEF TypeOK, OpeningInv, LockInv, Reopening,
        At, Goto, Needs, Tasks, HubTasks, sessionVars, lockVars, taskVars, shutdownVars
<1>0. Supervisor \in Tasks
  OBVIOUS
<1>1. ASSUME NEW t \in Tasks, Begin(t) PROVE LockInv'
  BY <1>1 DEF Begin, EnsureCommand
<1>2. ASSUME NEW t \in Tasks, ConnectCommand(t) PROVE LockInv'
  BY <1>2 DEF ConnectCommand, LockGranted
<1>3. ASSUME NEW t \in Tasks, DialOk(t) PROVE LockInv'
  BY <1>3 DEF DialOk, FreeNames
<1>4. ASSUME NEW t \in Tasks, DialFails(t) PROVE LockInv'
  BY <1>4 DEF DialFails, Fail, DelayOverflows
<1>5. ASSUME NEW t \in Tasks, LoginOk(t) PROVE LockInv'
  BY <1>5 DEF LoginOk, Close
<1>6. ASSUME NEW t \in Tasks, LoginFails(t) PROVE LockInv'
  BY <1>6 DEF LoginFails, CloseOpening, Close
<1>7. ASSUME NEW t \in Tasks, ReaderClosed(t) PROVE LockInv'
  BY <1>7 DEF ReaderClosed, CloseOpening, Close
<1>8. ASSUME NEW t \in Tasks, SocketClosed(t) PROVE LockInv'
  BY <1>8 DEF SocketClosed, Fail, DelayOverflows
<1>9. ASSUME NEW t \in Tasks, CommandInstalled(t) PROVE LockInv'
  BY <1>9 DEF CommandInstalled
<1>10. ASSUME NEW t \in Tasks, UseEnds(t) PROVE LockInv'
  BY <1>10 DEF UseEnds
<1>11. ASSUME NEW t \in Tasks, TakeCancellation(t) PROVE LockInv'
  BY <1>11 DEF TakeCancellation, Cancel, AbandonOpening, EndTask, LeaveQueue
<1>12. ASSUME SubscribeOk PROVE LockInv'
  BY <1>0, <1>12 DEF SubscribeOk, Close
<1>13. ASSUME SubscribeFails PROVE LockInv'
  BY <1>0, <1>13 DEF SubscribeFails, Fail, DelayOverflows
<1>14. ASSUME EventInstalled PROVE LockInv'
  BY <1>0, <1>14 DEF EventInstalled, EnsureCommand
<1>15. ASSUME NoticeLoss PROVE LockInv'
  BY <1>0, <1>15 DEF NoticeLoss, Iterate
<1>16. ASSUME WakeUp PROVE LockInv'
  BY <1>0, <1>16 DEF WakeUp, Iterate
<1>17. ASSUME Shutdown PROVE LockInv'
  BY <1>0, <1>17 DEF Shutdown
<1>18. ASSUME TasksEnded PROVE LockInv'
  BY <1>0, <1>18 DEF TasksEnded
<1>19. ASSUME EventClosed PROVE LockInv'
  BY <1>0, <1>19 DEF EventClosed, Close
<1>20. ASSUME CommandClosed PROVE LockInv'
  BY <1>0, <1>20 DEF CommandClosed
<1>21. ASSUME NEW s \in Sessions, PeerCloses(s) PROVE LockInv'
  BY <1>0, <1>21 DEF PeerCloses
<1>22. ASSUME OrphanCollected PROVE LockInv'
  BY <1>0, <1>22 DEF OrphanCollected, Orphans
<1>23. ASSUME NEW t \in Tasks, CancelOther(t) PROVE LockInv'
  BY <1>23 DEF CancelOther, Cancel, AbandonOpening, EndTask, LeaveQueue
<1>24. ASSUME ShutdownFails PROVE LockInv'
  BY <1>0, <1>24 DEF ShutdownFails
<1>25. ASSUME WebhookStopped PROVE LockInv'
  BY <1>0, <1>25 DEF WebhookStopped, Close
<1> QED
  BY <1>1, <1>2, <1>3, <1>4, <1>5, <1>6, <1>7, <1>8, <1>9, <1>10, <1>11, <1>12,
     <1>13, <1>14, <1>15, <1>16, <1>17, <1>18, <1>19, <1>20, <1>21, <1>22, <1>23,
     <1>24, <1>25
  DEF Next, Opens, Supervise, StopsOn

\* Nobody installs or reopens a session in the place of the one being replaced.
LEMMA SwapStep ==
    TypeOK /\ OpeningInv /\ LockInv /\ SwapInv /\ Next => SwapInv'
<1> SUFFICES ASSUME TypeOK, OpeningInv, LockInv, SwapInv, Next PROVE SwapInv'
  OBVIOUS
<1> USE TasksAssumption, SessionsAssumption
    DEF TypeOK, OpeningInv, LockInv, Reopening, SwapInv,
        At, Goto, Needs, Tasks, HubTasks, sessionVars, lockVars, taskVars, shutdownVars
<1>0. Supervisor \in Tasks
  OBVIOUS
<1>1. ASSUME NEW t \in Tasks, Begin(t) PROVE SwapInv'
  BY <1>1 DEF Begin, EnsureCommand
<1>2. ASSUME NEW t \in Tasks, ConnectCommand(t) PROVE SwapInv'
  BY <1>2 DEF ConnectCommand, LockGranted
<1>3. ASSUME NEW t \in Tasks, DialOk(t) PROVE SwapInv'
  BY <1>3 DEF DialOk, FreeNames
<1>4. ASSUME NEW t \in Tasks, DialFails(t) PROVE SwapInv'
  BY <1>4 DEF DialFails, Fail, DelayOverflows
<1>5. ASSUME NEW t \in Tasks, LoginOk(t) PROVE SwapInv'
  BY <1>5 DEF LoginOk, Close
<1>6. ASSUME NEW t \in Tasks, LoginFails(t) PROVE SwapInv'
  BY <1>6 DEF LoginFails, CloseOpening, Close
<1>7. ASSUME NEW t \in Tasks, ReaderClosed(t) PROVE SwapInv'
  BY <1>7 DEF ReaderClosed, CloseOpening, Close
<1>8. ASSUME NEW t \in Tasks, SocketClosed(t) PROVE SwapInv'
  BY <1>8 DEF SocketClosed, Fail, DelayOverflows
<1>9. ASSUME NEW t \in Tasks, CommandInstalled(t) PROVE SwapInv'
  BY <1>9 DEF CommandInstalled
<1>10. ASSUME NEW t \in Tasks, UseEnds(t) PROVE SwapInv'
  BY <1>10 DEF UseEnds
<1>11. ASSUME NEW t \in Tasks, TakeCancellation(t) PROVE SwapInv'
  BY <1>11 DEF TakeCancellation, Cancel, AbandonOpening, EndTask, LeaveQueue
<1>12. ASSUME SubscribeOk PROVE SwapInv'
  BY <1>0, <1>12 DEF SubscribeOk, Close
<1>13. ASSUME SubscribeFails PROVE SwapInv'
  BY <1>0, <1>13 DEF SubscribeFails, Fail, DelayOverflows
<1>14. ASSUME EventInstalled PROVE SwapInv'
  BY <1>0, <1>14 DEF EventInstalled, EnsureCommand
<1>15. ASSUME NoticeLoss PROVE SwapInv'
  BY <1>0, <1>15 DEF NoticeLoss, Iterate
<1>16. ASSUME WakeUp PROVE SwapInv'
  BY <1>0, <1>16 DEF WakeUp, Iterate
<1>17. ASSUME Shutdown PROVE SwapInv'
  BY <1>0, <1>17 DEF Shutdown
<1>18. ASSUME TasksEnded PROVE SwapInv'
  BY <1>0, <1>18 DEF TasksEnded
<1>19. ASSUME EventClosed PROVE SwapInv'
  BY <1>0, <1>19 DEF EventClosed, Close
<1>20. ASSUME CommandClosed PROVE SwapInv'
  BY <1>0, <1>20 DEF CommandClosed
<1>21. ASSUME NEW s \in Sessions, PeerCloses(s) PROVE SwapInv'
  BY <1>0, <1>21 DEF PeerCloses
<1>22. ASSUME OrphanCollected PROVE SwapInv'
  BY <1>0, <1>22 DEF OrphanCollected, Orphans
<1>23. ASSUME NEW t \in Tasks, CancelOther(t) PROVE SwapInv'
  BY <1>23 DEF CancelOther, Cancel, AbandonOpening, EndTask, LeaveQueue
<1>24. ASSUME ShutdownFails PROVE SwapInv'
  BY <1>0, <1>24 DEF ShutdownFails
<1>25. ASSUME WebhookStopped PROVE SwapInv'
  BY <1>0, <1>25 DEF WebhookStopped, Close
<1> QED
  BY <1>1, <1>2, <1>3, <1>4, <1>5, <1>6, <1>7, <1>8, <1>9, <1>10, <1>11, <1>12,
     <1>13, <1>14, <1>15, <1>16, <1>17, <1>18, <1>19, <1>20, <1>21, <1>22, <1>23,
     <1>24, <1>25
  DEF Next, Opens, Supervise, StopsOn

\* What is installed is a session no other part of the hub refers to.
LEMMA SessionsStep ==
    TypeOK /\ OpeningInv /\ SessionsInv /\ Next => SessionsInv'
<1> SUFFICES ASSUME TypeOK, OpeningInv, SessionsInv, Next PROVE SessionsInv'
  OBVIOUS
<1> USE SessionsAssumption DEF TypeOK, OpeningInv, SessionsInv,
        At, Goto, Needs, Tasks, HubTasks, sessionVars, lockVars, taskVars, shutdownVars
<1>0. Supervisor \in Tasks
  OBVIOUS
<1>1. ASSUME NEW t \in Tasks, Begin(t) PROVE SessionsInv'
  BY <1>1 DEF Begin, EnsureCommand
<1>2. ASSUME NEW t \in Tasks, ConnectCommand(t) PROVE SessionsInv'
  BY <1>2 DEF ConnectCommand, LockGranted
<1>3. ASSUME NEW t \in Tasks, DialOk(t) PROVE SessionsInv'
  BY <1>3 DEF DialOk, FreeNames
<1>4. ASSUME NEW t \in Tasks, DialFails(t) PROVE SessionsInv'
  BY <1>4 DEF DialFails, Fail, DelayOverflows
<1>5. ASSUME NEW t \in Tasks, LoginOk(t) PROVE SessionsInv'
  BY <1>5 DEF LoginOk, Close
<1>6. ASSUME NEW t \in Tasks, LoginFails(t) PROVE SessionsInv'
  BY <1>6 DEF LoginFails, CloseOpening, Close
<1>7. ASSUME NEW t \in Tasks, ReaderClosed(t) PROVE SessionsInv'
  BY <1>7 DEF ReaderClosed, CloseOpening, Close
<1>8. ASSUME NEW t \in Tasks, SocketClosed(t) PROVE SessionsInv'
  BY <1>8 DEF SocketClosed, Fail, DelayOverflows
<1>9. ASSUME NEW t \in Tasks, CommandInstalled(t) PROVE SessionsInv'
  BY <1>9 DEF CommandInstalled
<1>10. ASSUME NEW t \in Tasks, UseEnds(t) PROVE SessionsInv'
  BY <1>10 DEF UseEnds
<1>11. ASSUME NEW t \in Tasks, TakeCancellation(t) PROVE SessionsInv'
  BY <1>11 DEF TakeCancellation, Cancel, AbandonOpening, EndTask, LeaveQueue
<1>12. ASSUME SubscribeOk PROVE SessionsInv'
  BY <1>0, <1>12 DEF SubscribeOk, Close
<1>13. ASSUME SubscribeFails PROVE SessionsInv'
  BY <1>0, <1>13 DEF SubscribeFails, Fail, DelayOverflows
<1>14. ASSUME EventInstalled PROVE SessionsInv'
  BY <1>0, <1>14 DEF EventInstalled, EnsureCommand
<1>15. ASSUME NoticeLoss PROVE SessionsInv'
  BY <1>0, <1>15 DEF NoticeLoss, Iterate
<1>16. ASSUME WakeUp PROVE SessionsInv'
  BY <1>0, <1>16 DEF WakeUp, Iterate
<1>17. ASSUME Shutdown PROVE SessionsInv'
  BY <1>0, <1>17 DEF Shutdown
<1>18. ASSUME TasksEnded PROVE SessionsInv'
  BY <1>0, <1>18 DEF TasksEnded
<1>19. ASSUME EventClosed PROVE SessionsInv'
  BY <1>0, <1>19 DEF EventClosed, Close
<1>20. ASSUME CommandClosed PROVE SessionsInv'
  BY <1>0, <1>20 DEF CommandClosed
<1>21. ASSUME NEW s \in Sessions, PeerCloses(s) PROVE SessionsInv'
  BY <1>0, <1>21 DEF PeerCloses
<1>22. ASSUME OrphanCollected PROVE SessionsInv'
  BY <1>0, <1>22 DEF OrphanCollected, Orphans
<1>23. ASSUME NEW t \in Tasks, CancelOther(t) PROVE SessionsInv'
  BY <1>23 DEF CancelOther, Cancel, AbandonOpening, EndTask, LeaveQueue
<1>24. ASSUME ShutdownFails PROVE SessionsInv'
  BY <1>0, <1>24 DEF ShutdownFails
<1>25. ASSUME WebhookStopped PROVE SessionsInv'
  BY <1>0, <1>25 DEF WebhookStopped, Close
<1> QED
  BY <1>1, <1>2, <1>3, <1>4, <1>5, <1>6, <1>7, <1>8, <1>9, <1>10, <1>11, <1>12,
     <1>13, <1>14, <1>15, <1>16, <1>17, <1>18, <1>19, <1>20, <1>21, <1>22, <1>23,
     <1>24, <1>25
  DEF Next, Opens, Supervise, StopsOn

\* A socket loses its last owner only when it is closed, when SUBSCRIBE fails, or
\* when its task is cancelled; the last two abandon it.
LEMMA OrphanStep ==
    TypeOK /\ OpeningInv /\ SwapInv /\ SessionsInv /\ NoOrphanWhileRunning
    /\ Next => NoOrphanWhileRunning'
<1> SUFFICES ASSUME TypeOK, OpeningInv, SwapInv, SessionsInv, NoOrphanWhileRunning, Next
      PROVE  NoOrphanWhileRunning'
  OBVIOUS
<1> USE TasksAssumption, SessionsAssumption
    DEF TypeOK, OpeningInv, SwapInv, SessionsInv, NoOrphanWhileRunning,
        At, Goto, Needs, Tasks, HubTasks, sessionVars, lockVars, taskVars, shutdownVars
<1>0. Supervisor \in Tasks
  OBVIOUS
<1>1. ASSUME NEW t \in Tasks, Begin(t) PROVE NoOrphanWhileRunning'
  BY <1>1 DEF Begin, EnsureCommand
<1>2. ASSUME NEW t \in Tasks, ConnectCommand(t) PROVE NoOrphanWhileRunning'
  BY <1>2 DEF ConnectCommand, LockGranted
<1>3. ASSUME NEW t \in Tasks, DialOk(t) PROVE NoOrphanWhileRunning'
  BY <1>3 DEF DialOk, FreeNames
<1>4. ASSUME NEW t \in Tasks, DialFails(t) PROVE NoOrphanWhileRunning'
  BY <1>4 DEF DialFails, Fail, DelayOverflows
<1>5. ASSUME NEW t \in Tasks, LoginOk(t) PROVE NoOrphanWhileRunning'
  BY <1>5 DEF LoginOk, Close
<1>6. ASSUME NEW t \in Tasks, LoginFails(t) PROVE NoOrphanWhileRunning'
  BY <1>6 DEF LoginFails, CloseOpening, Close
<1>7. ASSUME NEW t \in Tasks, ReaderClosed(t) PROVE NoOrphanWhileRunning'
  BY <1>7 DEF ReaderClosed, CloseOpening, Close
<1>8. ASSUME NEW t \in Tasks, SocketClosed(t) PROVE NoOrphanWhileRunning'
  BY <1>8 DEF SocketClosed, Fail, DelayOverflows
<1>9. ASSUME NEW t \in Tasks, CommandInstalled(t) PROVE NoOrphanWhileRunning'
  BY <1>9 DEF CommandInstalled
<1>10. ASSUME NEW t \in Tasks, UseEnds(t) PROVE NoOrphanWhileRunning'
  BY <1>10 DEF UseEnds
<1>11. ASSUME NEW t \in Tasks, TakeCancellation(t) PROVE NoOrphanWhileRunning'
  BY <1>11 DEF TakeCancellation, Cancel, AbandonOpening, EndTask, LeaveQueue
<1>12. ASSUME SubscribeOk PROVE NoOrphanWhileRunning'
  BY <1>0, <1>12 DEF SubscribeOk, Close
<1>13. ASSUME SubscribeFails PROVE NoOrphanWhileRunning'
  BY <1>0, <1>13 DEF SubscribeFails, Fail, DelayOverflows
<1>14. ASSUME EventInstalled PROVE NoOrphanWhileRunning'
  BY <1>0, <1>14 DEF EventInstalled, EnsureCommand
<1>15. ASSUME NoticeLoss PROVE NoOrphanWhileRunning'
  BY <1>0, <1>15 DEF NoticeLoss, Iterate
<1>16. ASSUME WakeUp PROVE NoOrphanWhileRunning'
  BY <1>0, <1>16 DEF WakeUp, Iterate
<1>17. ASSUME Shutdown PROVE NoOrphanWhileRunning'
  BY <1>0, <1>17 DEF Shutdown
<1>18. ASSUME TasksEnded PROVE NoOrphanWhileRunning'
  BY <1>0, <1>18 DEF TasksEnded
<1>19. ASSUME EventClosed PROVE NoOrphanWhileRunning'
  BY <1>0, <1>19 DEF EventClosed, Close
<1>20. ASSUME CommandClosed PROVE NoOrphanWhileRunning'
  BY <1>0, <1>20 DEF CommandClosed
<1>21. ASSUME NEW s \in Sessions, PeerCloses(s) PROVE NoOrphanWhileRunning'
  BY <1>0, <1>21 DEF PeerCloses
<1>22. ASSUME OrphanCollected PROVE NoOrphanWhileRunning'
  BY <1>0, <1>22 DEF OrphanCollected, Orphans
<1>23. ASSUME NEW t \in Tasks, CancelOther(t) PROVE NoOrphanWhileRunning'
  BY <1>23 DEF CancelOther, Cancel, AbandonOpening, EndTask, LeaveQueue
<1>24. ASSUME ShutdownFails PROVE NoOrphanWhileRunning'
  BY <1>0, <1>24 DEF ShutdownFails
<1>25. ASSUME WebhookStopped PROVE NoOrphanWhileRunning'
  BY <1>0, <1>25 DEF WebhookStopped, Close
<1> QED
  BY <1>1, <1>2, <1>3, <1>4, <1>5, <1>6, <1>7, <1>8, <1>9, <1>10, <1>11, <1>12,
     <1>13, <1>14, <1>15, <1>16, <1>17, <1>18, <1>19, <1>20, <1>21, <1>22, <1>23,
     <1>24, <1>25
  DEF Next, Opens, Supervise, StopsOn

LEMMA IInvStep == IInv /\ [Next]_vars => IInv'
<1> SUFFICES ASSUME IInv, [Next]_vars PROVE IInv'
  OBVIOUS
<1>1. CASE Next
  BY <1>1, TypeStep, OpeningStep, LockStep, SwapStep, SessionsStep, OrphanStep DEF IInv
<1>2. CASE UNCHANGED vars
  <2> USE <1>2 DEF IInv, vars, sessionVars, lockVars, taskVars, shutdownVars
  <2>1. TypeOK'
    BY DEF TypeOK
  <2>2. OpeningInv' /\ LockInv' /\ SwapInv'
    BY DEF OpeningInv, LockInv, Reopening, SwapInv, Needs
  <2>3. SessionsInv' /\ NoOrphanWhileRunning'
    BY DEF SessionsInv, NoOrphanWhileRunning
  <2> QED
    BY <2>1, <2>2, <2>3
<1> QED
  BY <1>1, <1>2

LEMMA IInvAlways == Spec => []IInv
  BY IInvInit, IInvStep, PTL DEF Spec

-----------------------------------------------------------------------------
(* The theorems.                                                           *)

\* Every variable of the hub keeps its type: what is connected is an open socket,
\* and only the hub's own tasks lose a cancellation or end with an exception.
THEOREM TypeCorrect == Spec => []TypeOK
  BY IInvAlways, PTL DEF IInv

\* Whatever fails and whenever Home Assistant cancels its own tasks, no socket is
\* left without an owner while the entry is loaded, but one whose SUBSCRIBE failed
\* or whose task was cancelled before installing it.
THEOREM NoSocketForgotten == Spec => []NoOrphanWhileRunning
  BY IInvAlways, PTL DEF IInv

\* However many tasks find the command session dead, none of them closes one that
\* is connected: the lock is held only while it is dead.
THEOREM LiveSessionKept == Spec => LiveCommandKept
<1> USE TasksAssumption, SessionsAssumption
    DEF IInv, TypeOK, OpeningInv, LockInv, Reopening, SessionsInv,
        At, Goto, Needs, Tasks, HubTasks, sessionVars, lockVars, taskVars, shutdownVars
<1> DEFINE Kept ==
      phase = "running" /\ phase' = "running" /\ command \in up => command \in sockets'
<1>1. ASSUME IInv, NEW t \in Tasks, Begin(t) PROVE Kept
  BY <1>1 DEF Begin, EnsureCommand
<1>2. ASSUME IInv, NEW t \in Tasks, ConnectCommand(t) PROVE Kept
  BY <1>2 DEF ConnectCommand, LockGranted
<1>3. ASSUME IInv, NEW t \in Tasks, DialOk(t) PROVE Kept
  BY <1>3 DEF DialOk, FreeNames
<1>4. ASSUME IInv, NEW t \in Tasks, DialFails(t) PROVE Kept
  BY <1>4 DEF DialFails, Fail, DelayOverflows
<1>5. ASSUME IInv, NEW t \in Tasks, LoginOk(t) PROVE Kept
  BY <1>5 DEF LoginOk, Close
<1>6. ASSUME IInv, NEW t \in Tasks, LoginFails(t) PROVE Kept
  BY <1>6 DEF LoginFails, CloseOpening, Close
<1>7. ASSUME IInv, NEW t \in Tasks, ReaderClosed(t) PROVE Kept
  BY <1>7 DEF ReaderClosed, CloseOpening, Close
<1>8. ASSUME IInv, NEW t \in Tasks, SocketClosed(t) PROVE Kept
  BY <1>8 DEF SocketClosed, Fail, DelayOverflows
<1>9. ASSUME IInv, NEW t \in Tasks, CommandInstalled(t) PROVE Kept
  BY <1>9 DEF CommandInstalled
<1>10. ASSUME IInv, NEW t \in Tasks, UseEnds(t) PROVE Kept
  BY <1>10 DEF UseEnds
<1>11. ASSUME IInv, NEW t \in Tasks, TakeCancellation(t) PROVE Kept
  BY <1>11 DEF TakeCancellation, Cancel, AbandonOpening, EndTask, LeaveQueue
<1>12. ASSUME IInv, SubscribeOk PROVE Kept
  BY <1>12 DEF SubscribeOk, Close
<1>13. ASSUME IInv, SubscribeFails PROVE Kept
  BY <1>13 DEF SubscribeFails, Fail, DelayOverflows
<1>14. ASSUME IInv, EventInstalled PROVE Kept
  BY <1>14 DEF EventInstalled, EnsureCommand
<1>15. ASSUME IInv, NoticeLoss PROVE Kept
  BY <1>15 DEF NoticeLoss, Iterate
<1>16. ASSUME IInv, WakeUp PROVE Kept
  BY <1>16 DEF WakeUp, Iterate
<1>17. ASSUME IInv, Shutdown PROVE Kept
  BY <1>17 DEF Shutdown
<1>18. ASSUME IInv, TasksEnded PROVE Kept
  BY <1>18 DEF TasksEnded
<1>19. ASSUME IInv, EventClosed PROVE Kept
  BY <1>19 DEF EventClosed, Close
<1>20. ASSUME IInv, CommandClosed PROVE Kept
  BY <1>20 DEF CommandClosed
<1>21. ASSUME IInv, NEW s \in Sessions, PeerCloses(s) PROVE Kept
  BY <1>21 DEF PeerCloses
<1>22. ASSUME IInv, OrphanCollected PROVE Kept
  BY <1>22 DEF OrphanCollected, Orphans
<1>23. ASSUME IInv, NEW t \in Tasks, CancelOther(t) PROVE Kept
  BY <1>23 DEF CancelOther, Cancel, AbandonOpening, EndTask, LeaveQueue
<1>24. ASSUME IInv, ShutdownFails PROVE Kept
  BY <1>24 DEF ShutdownFails
<1>25. ASSUME IInv, WebhookStopped PROVE Kept
  BY <1>25 DEF WebhookStopped, Close
<1>26. IInv /\ [Next]_vars => [Kept]_vars
  BY <1>1, <1>2, <1>3, <1>4, <1>5, <1>6, <1>7, <1>8, <1>9, <1>10, <1>11, <1>12,
     <1>13, <1>14, <1>15, <1>16, <1>17, <1>18, <1>19, <1>20, <1>21, <1>22, <1>23,
     <1>24, <1>25
  DEF Next, Opens, Supervise, StopsOn
<1> QED
  BY IInvAlways, <1>26, PTL DEF Spec, LiveCommandKept

------------------------------------------------------------------------------
(* The unavailability marker and the issues of the hub (ConnectionIssues), for   *)
(* every length of an outage.                                                   *)

\* The outage is not older than the last success, and what has no marker was there
\* before the hub.
MarkerInv ==
    /\ since # Never => since <= success
    /\ since = Never => issues \subseteq left

IssuesInv == IssuesTypeOK /\ MarkerInv

\* An age grows by a step and stops at IssueAfter.
LEMMA GrowAge ==
    ASSUME NEW age \in Never .. IssueAfter
    PROVE  /\ Grow(age) \in Never .. IssueAfter
           /\ age = Never <=> Grow(age) = Never
           /\ age # Never => Grow(age) >= age /\ Grow(age) \in 0 .. IssueAfter
           /\ \A other \in 0 .. IssueAfter : age <= other => Grow(age) <= Grow(other)
  BY IssueAfterAssumption DEF Grow, Never

\* What MarkUnavailable does to the marker.
LEMMA MarkStarts ==
    ASSUME NEW mark \in Never .. IssueAfter
    PROVE  /\ StartOfOutage(mark) \in 0 .. IssueAfter
           /\ StartOfOutage(mark) # Never
           /\ mark # Never => StartOfOutage(mark) = mark
           /\ mark = Never => StartOfOutage(mark) = 0
           /\ IssueFor(StartOfOutage(mark)) \subseteq {"action", "unavailable"}
           /\ "unavailable" \in IssueFor(StartOfOutage(mark)) => mark = IssueAfter
  BY IssueAfterAssumption DEF StartOfOutage, IssueFor, Never

LEMMA IssuesInvInit == IssuesInit => IssuesInv
  BY IssueAfterAssumption DEF IssuesInit, IssuesInv, IssuesTypeOK, MarkerInv, Never

\* Every action keeps the invariant, and raises the issue of an outage only after a
\* long one.
LEMMA IssuesInvStep ==
    IssuesInv /\ [IssuesNext]_issuesVars
    => IssuesInv' /\ ("unavailable" \in issues' /\ "unavailable" \notin issues => success = IssueAfter)
<1> SUFFICES ASSUME IssuesInv, [IssuesNext]_issuesVars
             PROVE  /\ IssuesInv'
                    /\ "unavailable" \in issues' /\ "unavailable" \notin issues
                       => success = IssueAfter
  OBVIOUS
<1> USE IssueAfterAssumption DEF IssuesInv, IssuesTypeOK, MarkerInv
<1>1. CASE Tick
  <2>1. since \in Never .. IssueAfter /\ success \in Never .. IssueAfter /\ success # Never
    BY DEF Never
  <2> QED
    BY <1>1, <2>1, GrowAge DEF Tick
<1>2. CASE ServerChanges \/ EventsLost \/ Unload
  BY <1>2 DEF ServerChanges, EventsLost, Unload
<1>3. CASE OpenFails
  <2>1. CASE MarkUnavailable /\ UNCHANGED <<supervisor, server, hub, success, left>>
    <3>1. /\ since' = StartOfOutage(since)
          /\ issues' = issues \cup IssueFor(StartOfOutage(since))
      BY <2>1 DEF MarkUnavailable
    <3>2. IssuesTypeOK'
      <4>1. since' \in 0 .. IssueAfter
        BY <3>1, MarkStarts
      <4>2. since' \in Never .. IssueAfter
        BY <4>1 DEF Never
      <4>3. issues' \subseteq {"action", "unavailable"}
        BY <3>1, MarkStarts
      <4> QED
        BY <2>1, <4>2, <4>3
    <3>3. MarkerInv'
      BY <2>1, <3>1, MarkStarts DEF Never
    <3>4. "unavailable" \in issues' /\ "unavailable" \notin issues => success = IssueAfter
      BY <3>1, MarkStarts DEF Never
    <3> QED
      BY <3>2, <3>3, <3>4
  <2>2. CASE supervisor' = "ended" /\ UNCHANGED <<since, issues, server, hub, success, left>>
    BY <2>2
  <2> QED
    BY <1>3, <2>1, <2>2 DEF OpenFails
<1>4. CASE Opened \/ PollSucceeds
  <2>1. /\ success' = 0 /\ UNCHANGED <<server, hub, left>>
        /\ supervisor' \in {"opening", "subscribed", "ended"}
    BY <1>4 DEF Opened, PollSucceeds
  <2>2. CASE since = Never /\ UNCHANGED <<since, issues>>
    <3>1. 0 \in 0 .. IssueAfter
      OBVIOUS
    <3> QED
      BY <2>1, <2>2, <3>1
  <2>3. CASE since' = Never /\ issues' = {}
    <3>1. Never \in Never .. IssueAfter /\ 0 \in 0 .. IssueAfter
      BY DEF Never
    <3> QED
      BY <2>1, <2>3, <3>1
  <2> QED
    BY <1>4, <2>2, <2>3 DEF Opened, PollSucceeds, ClearUnavailable
<1>5. CASE SetUp
  BY <1>5 DEF SetUp, Never
<1>6. CASE UNCHANGED issuesVars
  BY <1>6 DEF issuesVars
<1> QED
  BY <1>1, <1>2, <1>3, <1>4, <1>5, <1>6 DEF IssuesNext

\* The variables have their types.
THEOREM IssuesTypeCorrect == IssuesSpec => []IssuesTypeOK
<1>1. IssuesInv => IssuesTypeOK
  BY DEF IssuesInv
<1> QED
  BY <1>1, IssuesInvInit, IssuesInvStep, PTL DEF IssuesSpec

\* An issue raised by a hub keeps the marker that lets its next success remove it.
THEOREM RaisedIssuesAreCleared == IssuesSpec => []IssuesCanBeCleared
<1>1. IssuesInv => IssuesCanBeCleared
  BY DEF IssuesInv, MarkerInv, IssuesCanBeCleared
<1> QED
  BY <1>1, IssuesInvInit, IssuesInvStep, PTL DEF IssuesSpec

\* However many failures, successes and reloads came before, the issue of a long
\* outage is only raised after a long outage.
THEOREM OutageReportsAreEarned == IssuesSpec => OutageIsLong
<1>1. IssuesInv /\ [IssuesNext]_issuesVars
      => [("unavailable" \in issues' /\ "unavailable" \notin issues) => success = IssueAfter]_issuesVars
  BY IssuesInvStep
<1> QED
  BY <1>1, IssuesInvInit, IssuesInvStep, PTL DEF IssuesSpec, OutageIsLong
=============================================================================
