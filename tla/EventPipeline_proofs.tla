------------------------ MODULE EventPipeline_proofs ------------------------
(***************************************************************************)
(* Theorems about EventPipeline, for any queue size, window, options and   *)
(* bounds.                                                                 *)
(***************************************************************************)
EXTENDS EventPipeline, SequenceTheorems, FiniteSetTheorems, TLAPS

------------------------------------------------------------------------------
(* Data *)

\* A sequence over a set is a sequence over any larger one (events stay events
\* as the log grows).
LEMMA SeqMonotone ==
    ASSUME NEW S, NEW T, S \subseteq T, NEW s \in Seq(S)
    PROVE  s \in Seq(T)
<1>1. Len(s) \in Nat /\ \A i \in 1 .. Len(s) : s[i] \in T
  BY ElementOfSeq, LenProperties
<1> QED
  BY <1>1, LenProperties, SeqDef

\* The events of a reply are a finite set of positions of the log (Parsed).
LEMMA HistoryType ==
    ASSUME log \in Seq([at : Nat, kind : Kinds]),
           NEW history \in [1 .. Cardinality(Parsed) -> Parsed]
    PROVE  history \in Seq(EventIds)
<1>1. Parsed \subseteq EventIds
  BY DEF Parsed, Returned
<1>2. IsFiniteSet(1 .. Len(log)) /\ EventIds = 1 .. Len(log)
  <2>1. Len(log) \in Nat
    BY LenProperties
  <2> QED
    BY <2>1, FS_Interval DEF EventIds
<1>3. Cardinality(Parsed) \in Nat
  BY <1>1, <1>2, FS_Subset, FS_CardinalityType
<1> HIDE DEF Parsed
<1>4. history \in [1 .. Cardinality(Parsed) -> EventIds]
  BY <1>1
<1> QED
  BY <1>3, <1>4, SeqDef

\* The elements of a sequence are those of its two parts.
LEMMA ToSetConcat ==
    ASSUME NEW S, NEW s \in Seq(S), NEW t \in Seq(S)
    PROVE  /\ s \o t \in Seq(S)
           /\ ToSet(s \o t) = ToSet(s) \cup ToSet(t)
<1> DEFINE st == s \o t
<1>1. /\ Len(s) \in Nat /\ Len(t) \in Nat /\ DOMAIN s = 1 .. Len(s) /\ DOMAIN t = 1 .. Len(t)
      /\ st \in Seq(S) /\ Len(st) = Len(s) + Len(t) /\ DOMAIN st = 1 .. Len(s) + Len(t)
      /\ \A i \in 1 .. Len(s) : st[i] = s[i]
      /\ \A i \in 1 .. Len(t) : st[Len(s) + i] = t[i]
  BY ConcatProperties, LenProperties
<1> HIDE DEF st
<1>2. ASSUME NEW x \in ToSet(st) PROVE x \in ToSet(s) \cup ToSet(t)
  <2>1. PICK i \in 1 .. Len(s) + Len(t) : x = st[i]
    BY <1>1, <1>2 DEF ToSet
  <2>2. CASE i <= Len(s)
    <3>1. i \in DOMAIN s /\ x = s[i]
      BY <1>1, <2>1, <2>2
    <3> QED
      BY <3>1 DEF ToSet
  <2>3. CASE i > Len(s)
    <3>1. i - Len(s) \in 1 .. Len(t) /\ Len(s) + (i - Len(s)) = i
      BY <1>1, <2>1, <2>3
    <3>2. i - Len(s) \in DOMAIN t /\ x = t[i - Len(s)]
      BY <1>1, <2>1, <3>1
    <3> QED
      BY <3>2 DEF ToSet
  <2> QED
    BY <1>1, <2>1, <2>2, <2>3
<1>3. ASSUME NEW x \in ToSet(s) PROVE x \in ToSet(st)
  <2>1. PICK i \in 1 .. Len(s) : x = s[i]
    BY <1>1, <1>3 DEF ToSet
  <2>2. i \in DOMAIN st /\ x = st[i]
    BY <1>1, <2>1
  <2> QED
    BY <2>2 DEF ToSet
<1>4. ASSUME NEW x \in ToSet(t) PROVE x \in ToSet(st)
  <2>1. PICK i \in 1 .. Len(t) : x = t[i]
    BY <1>1, <1>4 DEF ToSet
  <2>2. Len(s) + i \in DOMAIN st /\ x = st[Len(s) + i]
    BY <1>1, <2>1
  <2> QED
    BY <2>2 DEF ToSet
<1> QED
  BY <1>1, <1>2, <1>3, <1>4 DEF st

\* Cutting a sequence in two loses none of its elements (Enqueue).
LEMMA ToSetSplit ==
    ASSUME NEW S, NEW s \in Seq(S), NEW k \in 0 .. Len(s)
    PROVE  /\ SubSeq(s, 1, k) \in Seq(S) /\ Len(SubSeq(s, 1, k)) = k
           /\ SubSeq(s, k + 1, Len(s)) \in Seq(S)
           /\ ToSet(s) = ToSet(SubSeq(s, 1, k)) \cup ToSet(SubSeq(s, k + 1, Len(s)))
<1> DEFINE a == SubSeq(s, 1, k)
           b == SubSeq(s, k + 1, Len(s))
<1>1. /\ Len(s) \in Nat /\ a \in Seq(S) /\ b \in Seq(S)
      /\ Len(a) = k /\ Len(b) = Len(s) - k
      /\ \A i \in 1 .. k : a[i] = s[i]
      /\ \A i \in 1 .. Len(s) - k : b[i] = s[k + i]
  BY SubSeqProperties, LenProperties
<1>2. s = a \o b
  <2> HIDE DEF a, b
  <2>1. /\ Len(a \o b) = Len(s) /\ a \o b \in Seq(S)
        /\ \A i \in 1 .. Len(s) : (a \o b)[i] = s[i]
    <3>1. Len(a \o b) = Len(s) /\ a \o b \in Seq(S)
      BY <1>1, ConcatProperties
    <3>2. ASSUME NEW i \in 1 .. Len(s) PROVE (a \o b)[i] = s[i]
      <4>1. CASE i <= k
        BY <1>1, <4>1, ConcatProperties
      <4>2. CASE i > k
        <5>1. i - k \in 1 .. Len(s) - k /\ k + (i - k) = i
          BY <1>1, <4>2
        <5>2. (a \o b)[i] = b[i - k]
          BY <1>1, <5>1, <4>2, ConcatProperties
        <5> QED
          BY <1>1, <5>1, <5>2
      <4> QED
        BY <1>1, <4>1, <4>2
    <3> QED
      BY <3>1, <3>2
  <2> QED
    BY <2>1, SeqEqual
<1>3. ToSet(a \o b) = ToSet(a) \cup ToSet(b)
  BY <1>1, ToSetConcat
<1> QED
  BY <1>1, <1>2, <1>3

\* Whatever is enqueued, the queue keeps its type and its bound, and each event
\* is either in it or dropped (_on_raw_event).
LEMMA EnqueueType ==
    ASSUME TypeOK, NEW events \in Seq(EventIds), Enqueue(events)
    PROVE  /\ queue' \in Seq(EventIds) /\ Len(queue') <= QueueSize
           /\ dropped' \subseteq EventIds
           /\ ToSet(queue') \cup dropped' = ToSet(queue) \cup dropped \cup ToSet(events)
<1> DEFINE taken == IF Len(events) <= Room THEN Len(events) ELSE Room
           now == SubSeq(events, 1, taken)
           over == SubSeq(events, taken + 1, Len(events))
<1>1. queue \in Seq(EventIds) /\ Len(queue) \in Nat /\ Len(queue) <= QueueSize
      /\ QueueSize \in Nat /\ Len(events) \in Nat /\ Room \in Nat
  BY SizesAssumption DEF TypeOK, Room
<1>2. taken \in 0 .. Len(events) /\ Len(queue) + taken <= QueueSize
  BY <1>1 DEF Room
<1>3. queue' = queue \o now /\ dropped' = dropped \cup ToSet(over)
  BY DEF Enqueue
<1> HIDE DEF taken
<1>4. /\ now \in Seq(EventIds) /\ Len(now) = taken /\ over \in Seq(EventIds)
      /\ ToSet(events) = ToSet(now) \cup ToSet(over)
  BY <1>2, ToSetSplit
<1> HIDE DEF now, over
<1> DEFINE all == queue \o now
<1>5. /\ all \in Seq(EventIds) /\ Len(all) = Len(queue) + taken
      /\ ToSet(all) = ToSet(queue) \cup ToSet(now)
  <2>1. all \in Seq(EventIds) /\ ToSet(all) = ToSet(queue) \cup ToSet(now)
    BY <1>1, <1>4, ToSetConcat
  <2>2. Len(all) = Len(queue) + taken
    BY <1>1, <1>4, ConcatProperties
  <2> QED
    BY <2>1, <2>2
<1>6. ToSet(over) \subseteq EventIds
  BY <1>4 DEF ToSet
<1> QED
  BY <1>1, <1>2, <1>3, <1>4, <1>5, <1>6 DEF TypeOK

------------------------------------------------------------------------------
(* Types *)

\* No step changes an event that has occurred (Occur only adds one).
LEMMA LogGrows ==
    ASSUME log \in Seq([at : Nat, kind : Kinds]), [Next]_vars
    PROVE  /\ EventIds \subseteq EventIds'
           /\ \A e \in EventIds : log'[e] = log[e]
           /\ log' # log => /\ \E k \in Kinds : log' = Append(log, [at |-> clock, kind |-> k])
                            /\ EventIds' = EventIds \cup {Len(log) + 1}
                            /\ clock' = clock
<1>1. Len(log) \in Nat
  BY LenProperties
<1>2. CASE log' = log
  BY <1>2 DEF EventIds
<1>3. CASE Occur
  <2>1. PICK k \in Kinds : log' = Append(log, [at |-> clock, kind |-> k])
    BY <1>3 DEF Occur
  <2>2. Len(log') = Len(log) + 1 /\ \A i \in 1 .. Len(log) : log'[i] = log[i]
    BY <1>1, <2>1, AppendProperties
  <2> QED
    BY <1>1, <1>3, <2>1, <2>2 DEF EventIds, Occur
<1>4. log' = log \/ Occur
  BY DEF Next, Server, Worker, Supervisor, Restarts, Tick, Drop, ReadEvent, TakeEvent,
         Process, ProcessRaises, Subscribe, Swapped, HistoryAnswers, HistoryFails,
         HistoryRaises, NoticeDrop, Shutdown, Crash, Stop, Start, vars, serverVars
<1> QED
  BY <1>2, <1>3, <1>4

\* The backfill window is a pair of times (WindowStart).
LEMMA StartBackfillType ==
    ASSUME TypeOK, StartBackfill(WindowStart)
    PROVE  /\ lastEventAt' \in Nat
           /\ phase' \in {"watching", "asking"}
           /\ window' \in Window
<1>1. WindowStart \in Int
  BY SizesAssumption DEF WindowStart, LaterOf, TypeOK
<1> HIDE DEF WindowStart
<1> QED
  BY <1>1 DEF StartBackfill, TypeOK, Window

\* Values that several actions assign.
LEMMA NoWindowType == NoWindow \in Window
BY DEF NoWindow, Window

\* The empty sequence, likewise.
LEMMA EmptyTypes ==
    /\ <<>> \in Seq(EventIds) /\ <<>> \in Seq(Nat \X Kinds) /\ <<>> \in Seq(EventIds \X Nat)
    /\ Len(<<>>) = 0
BY EmptySeq

\* Every action keeps the types.
LEMMA TypeStep == TypeOK /\ [Next]_vars => TypeOK'
<1> SUFFICES ASSUME TypeOK, [Next]_vars PROVE TypeOK'
  OBVIOUS
<1> USE SizesAssumption
<1>0. ASSUME log' = log PROVE EventIds' = EventIds
  BY <1>0 DEF EventIds
<1>1. CASE Tick
  BY <1>1 DEF TypeOK, EventIds, Tick, linkVars, workerVars, supervisorVars
<1>2. CASE Occur
  <2>1. /\ EventIds \subseteq EventIds' /\ Len(log) + 1 \in EventIds'
        /\ EventIds \X Nat \subseteq EventIds' \X Nat
    <3>1. PICK k \in Kinds : log' = Append(log, [at |-> clock, kind |-> k])
      BY <1>2 DEF Occur
    <3>2. Len(log) \in Nat /\ Len(log') = Len(log) + 1
      BY <3>1, LenProperties, AppendProperties DEF TypeOK
    <3> QED
      BY <3>2 DEF EventIds
  <2>2. log' \in Seq([at : Nat, kind : Kinds])
    <3>1. PICK k \in Kinds : log' = Append(log, [at |-> clock, kind |-> k])
      BY <1>2 DEF Occur
    <3> QED
      BY <3>1, AppendProperties DEF TypeOK
  <2>3. /\ wire \in Seq(EventIds') /\ queue \in Seq(EventIds')
        /\ published \in Seq(EventIds' \X Nat)
    BY <2>1, SeqMonotone DEF TypeOK
  <2>4. wire' \in Seq(EventIds') /\ lost' \subseteq EventIds'
    <3>1. CASE live
      <4>1. wire' = Append(wire, Len(log) + 1) /\ UNCHANGED lost
        BY <1>2, <3>1 DEF Occur
      <4> QED
        BY <2>1, <2>3, <4>1, AppendProperties DEF TypeOK
    <3>2. CASE ~live
      BY <1>2, <2>1, <2>3, <3>2 DEF Occur, TypeOK
    <3> QED
      BY <3>1, <3>2
  <2> HIDE DEF EventIds
  <2> QED
    BY <1>2, <2>1, <2>2, <2>3, <2>4 DEF Occur, TypeOK, workerVars, supervisorVars
<1>3. CASE Drop
  <2>1. ToSet(wire) \subseteq EventIds
    BY DEF TypeOK, ToSet
  <2> QED
    <3>1. EventIds' = EventIds
      BY <1>0, <1>3 DEF Drop, serverVars
    <3>2. window' \in Window
      BY <1>3, NoWindowType DEF Drop, TypeOK
    <3>3. live' \in BOOLEAN
      BY <1>3, Zenon DEF Drop
    <3> QED
      BY <1>3, <2>1, <3>1, <3>2, <3>3, EmptyTypes DEF TypeOK, Drop, serverVars, workerVars
<1>4. CASE ReadEvent
  <2>1. <<Head(wire)>> \in Seq(EventIds) /\ Tail(wire) \in Seq(EventIds)
    BY <1>4, HeadTailProperties DEF ReadEvent, TypeOK
  <2>2. /\ queue' \in Seq(EventIds) /\ Len(queue') <= QueueSize
        /\ dropped' \subseteq EventIds
    BY <1>4, <2>1, EnqueueType DEF ReadEvent
  <2> QED
    BY <1>4, <2>1, <2>2
    DEF TypeOK, EventIds, ReadEvent, serverVars, workerVars, supervisorVars
<1>5. CASE TakeEvent
  <2>1. /\ Head(queue) \in EventIds /\ Tail(queue) \in Seq(EventIds)
        /\ Len(Tail(queue)) = Len(queue) - 1 /\ Len(queue) \in Nat
    BY <1>5, HeadTailProperties, LenProperties DEF TakeEvent, TypeOK
  <2> QED
    BY <1>0, <1>5, <2>1 DEF TypeOK, TakeEvent, serverVars, linkVars, supervisorVars
<1>6. CASE Process
  <2>1. working \in EventIds /\ Fingerprint(working) \in Nat \X Kinds /\ At(working) \in Nat
    <3>1. working \in 1 .. Len(log)
      BY <1>6 DEF Process, TypeOK, EventIds
    <3>2. log[working] \in [at : Nat, kind : Kinds]
      BY <3>1, ElementOfSeq DEF TypeOK
    <3> QED
      BY <3>1, <3>2 DEF Fingerprint, At, EventIds
  <2>2. UNCHANGED <<serverVars, linkVars, queue, dropped, supervisorVars, stored, run,
                    failures>> /\ working' = 0
    BY <1>6 DEF Process
  <2>3. CASE Fingerprint(working) \in fingerprintSet
    BY <1>6, <2>1, <2>2, <2>3
    DEF TypeOK, EventIds, Process, serverVars, linkVars, supervisorVars
  <2>4. CASE Fingerprint(working) \notin fingerprintSet
    <3>1. /\ Remember(Fingerprint(working))
          /\ lastEventAt' = LaterOf(At(working), lastEventAt)
          /\ published' = Append(published, <<working, run>>) /\ UNCHANGED merged
      BY <1>6, <2>4 DEF Process
    <3>2. fingerprints' \in Seq(Nat \X Kinds) /\ fingerprintSet' \subseteq Nat \X Kinds
      <4> DEFINE f == Fingerprint(working)
      <4>1. f \in Nat \X Kinds /\ Remember(f)
        BY <2>1, <3>1
      <4> HIDE DEF f
      <4>2. CASE Len(fingerprints) = DedupWindow
        <5>1. Tail(fingerprints) \in Seq(Nat \X Kinds)
          BY <4>2, HeadTailProperties, EmptySeq DEF TypeOK
        <5> QED
          BY <4>1, <4>2, <5>1, AppendProperties DEF Remember, TypeOK
      <4>3. CASE Len(fingerprints) # DedupWindow
        BY <4>1, <4>3, AppendProperties DEF Remember, TypeOK
      <4> QED
        BY <4>2, <4>3
    <3>3. published' \in Seq(EventIds \X Nat)
      BY <2>1, <3>1, AppendProperties DEF TypeOK
    <3>4. lastEventAt' \in Nat
      BY <2>1, <3>1 DEF LaterOf, TypeOK
    <3> QED
      BY <2>2, <3>1, <3>2, <3>3, <3>4
      DEF TypeOK, EventIds, serverVars, linkVars, supervisorVars
  <2> QED
    BY <2>3, <2>4
<1>7. CASE ProcessRaises
  BY <1>7 DEF TypeOK, EventIds, ProcessRaises, serverVars, linkVars, supervisorVars
<1>8. CASE Subscribe
  <2>1. CASE hadConnection
    BY <1>8, <2>1 DEF TypeOK, EventIds, Subscribe, serverVars
  <2>2. CASE ~hadConnection
    <3>1. /\ lastEventAt' \in Nat /\ phase' \in {"watching", "asking"}
          /\ window' \in Window
      BY <1>8, <2>2, StartBackfillType DEF Subscribe
    <3> QED
      BY <1>8, <3>1 DEF TypeOK, EventIds, Subscribe, serverVars
  <2> QED
    BY <2>1, <2>2
<1>9. CASE Swapped
  <2>1. /\ lastEventAt' \in Nat /\ phase' \in {"watching", "asking"}
        /\ window' \in Window
    BY <1>9, StartBackfillType DEF Swapped
  <2> QED
    BY <1>9, <2>1 DEF TypeOK, EventIds, Swapped, serverVars, linkVars
<1>10. CASE HistoryAnswers
  <2>1. PICK history \in [1 .. Cardinality(Parsed) -> Parsed] : Enqueue(history)
    BY <1>10 DEF HistoryAnswers
  <2>2. history \in Seq(EventIds)
    BY HistoryType DEF TypeOK
  <2>3. /\ queue' \in Seq(EventIds) /\ Len(queue') <= QueueSize
        /\ dropped' \subseteq EventIds
    BY <2>1, <2>2, EnqueueType
  <2> QED
    BY <1>0, <1>10, <2>3, NoWindowType DEF TypeOK, HistoryAnswers, serverVars, workerVars
<1>11. CASE HistoryFails \/ HistoryRaises
  <2>1. EventIds' = EventIds
    BY <1>0, <1>11 DEF HistoryFails, HistoryRaises, serverVars
  <2>2. CASE HistoryFails
    BY <2>1, <2>2, NoWindowType DEF TypeOK, HistoryFails, serverVars, linkVars, workerVars
  <2>3. CASE HistoryRaises
    BY <2>1, <2>3, NoWindowType DEF TypeOK, HistoryRaises, serverVars, linkVars, workerVars
  <2> QED
    BY <1>11, <2>2, <2>3
<1>12. CASE NoticeDrop
  BY <1>12 DEF TypeOK, EventIds, NoticeDrop, serverVars, linkVars, workerVars
<1>13. CASE Shutdown \/ Crash
  <2>1. ToSet(wire) \subseteq EventIds /\ ToSet(queue) \subseteq EventIds
    BY DEF TypeOK, ToSet
  <2>2. Stop /\ stored' \in Nat
    BY <1>13 DEF Shutdown, Crash, TypeOK
  <2>3. EventIds' = EventIds
    BY <1>0, <2>2 DEF Stop, serverVars
  <2>4. live' \in BOOLEAN
    BY <2>2, Zenon DEF Stop
  <2> QED
    BY <2>1, <2>2, <2>3, <2>4, EmptyTypes, NoWindowType DEF TypeOK, Stop, serverVars
<1>14. CASE Start
  <2>1. EventIds' = EventIds
    BY <1>0, <1>14 DEF Start, serverVars
  <2>2. hadConnection' \in BOOLEAN
    BY <1>14, Zenon DEF Start
  <2> QED
    BY <1>14, <2>1, <2>2, EmptyTypes DEF TypeOK, Start, serverVars, linkVars
<1>15. CASE UNCHANGED vars
  BY <1>15 DEF TypeOK, EventIds, vars, serverVars, linkVars, workerVars, supervisorVars
<1> QED
  BY <1>1, <1>2, <1>3, <1>4, <1>5, <1>6, <1>7, <1>8, <1>9, <1>10, <1>11, <1>12, <1>13,
     <1>14, <1>15 DEF Next, Server, Worker, Supervisor, Restarts

\* The variables have their types in every reachable state.
THEOREM TypeCorrect == Spec => []TypeOK
<1>1. Init => TypeOK
  <2> SUFFICES ASSUME Init PROVE TypeOK
    OBVIOUS
  <2>1. log \in Seq([at : Nat, kind : Kinds])
    BY EmptySeq DEF Init
  <2>2. live \in BOOLEAN /\ hadConnection \in BOOLEAN
    BY Zenon DEF Init
  <2> QED
    BY <2>1, <2>2, SizesAssumption, EmptyTypes, NoWindowType DEF Init, TypeOK
<1> QED
  BY <1>1, TypeStep, PTL DEF Spec

------------------------------------------------------------------------------
(* De-duplication *)

\* What makes the window work: its fingerprints are those of the last events
\* published, and while it is not full no other event was published in this run.
WindowIsSuffix ==
    LET before == Len(published) - Len(fingerprints)
    IN  /\ before >= 0
        /\ \A j \in 1 .. Len(published) :
              /\ published[j][2] <= run
              /\ j > before => /\ published[j][2] = run
                              /\ fingerprints[j - before] = Fingerprint(published[j][1])
              /\ j <= before /\ Len(fingerprints) < DedupWindow => published[j][2] < run

DedupInv == WindowConsistent /\ WindowIsSuffix /\ NoReplayInWindow /\ MergedHasTwin

\* The types de-duplication relies on.
LEMMA DedupTypes ==
    ASSUME TypeOK
    PROVE  /\ Len(fingerprints) \in Nat /\ DOMAIN fingerprints = 1 .. Len(fingerprints)
           /\ Len(published) \in Nat
           /\ \A i \in 1 .. Len(published) : published[i][1] \in EventIds /\ published[i][2] \in Nat
           /\ DedupWindow \in Nat /\ DedupWindow > 0 /\ run \in Nat
<1>1. fingerprints \in Seq(Nat \X Kinds) /\ published \in Seq(EventIds \X Nat) /\ run \in Nat
  BY DEF TypeOK
<1>2. \A i \in 1 .. Len(published) : published[i] \in EventIds \X Nat
  BY <1>1, ElementOfSeq
<1> QED
  BY <1>1, <1>2, LenProperties, SizesAssumption

\* A step that publishes nothing, forgets nothing and starts no run keeps it.
LEMMA DedupKept ==
    ASSUME TypeOK, DedupInv, [Next]_vars,
           UNCHANGED <<fingerprints, fingerprintSet, published, run, merged>>
    PROVE  DedupInv'
<1>1. \A e \in EventIds : log'[e] = log[e]
  BY LogGrows DEF TypeOK
<1>2. \A i \in 1 .. Len(published) : published[i][1] \in EventIds
  BY DedupTypes
<1>3. \A e \in merged : e \in EventIds
  BY DEF TypeOK
<1> DEFINE F(e) == <<log[e].at, log[e].kind>>
           G(e) == <<log'[e].at, log'[e].kind>>
<1>4. \A e \in EventIds : F(e) = G(e)
  BY <1>1
<1> HIDE DEF F, G
<1>5. WindowConsistent'
  BY DEF DedupInv, WindowConsistent
<1>6. WindowIsSuffix'
  BY <1>2, <1>4 DEF DedupInv, WindowIsSuffix, Fingerprint, F, G
<1>7. NoReplayInWindow'
  BY <1>2, <1>4 DEF DedupInv, NoReplayInWindow, Fingerprint, F, G
<1>8. MergedHasTwin'
  BY <1>2, <1>3, <1>4 DEF DedupInv, MergedHasTwin, Fingerprint, F, G
<1> QED
  BY <1>5, <1>6, <1>7, <1>8 DEF DedupInv

\* _remember: the new fingerprint joins the window, the oldest leaves a full one.
LEMMA RememberWindow ==
    ASSUME TypeOK, WindowConsistent, NEW f, f \in Nat \X Kinds, f \notin fingerprintSet,
           Remember(f)
    PROVE  /\ WindowConsistent'
           /\ fingerprints'[Len(fingerprints')] = f
           /\ Len(fingerprints') = IF Len(fingerprints) = DedupWindow
                                   THEN DedupWindow ELSE Len(fingerprints) + 1
           /\ \A i \in 1 .. Len(fingerprints') - 1 :
                 fingerprints'[i] = IF Len(fingerprints) = DedupWindow
                                    THEN fingerprints[i + 1] ELSE fingerprints[i]
<1> DEFINE n == Len(fingerprints)
           S == Nat \X Kinds
<1>1. /\ n \in Nat /\ n <= DedupWindow /\ DedupWindow \in Nat /\ DedupWindow > 0
      /\ fingerprints \in Seq(S) /\ DOMAIN fingerprints = 1 .. n
      /\ fingerprintSet = {fingerprints[i] : i \in 1 .. n}
      /\ \A i, j \in 1 .. n : fingerprints[i] = fingerprints[j] => i = j
  BY DedupTypes DEF WindowConsistent, TypeOK, ToSet
<1>0. n \in Nat /\ n <= DedupWindow /\ DedupWindow \in Nat
  BY <1>1
<1>2. \A i \in 1 .. n : fingerprints[i] # f
  BY <1>1
<1>3. CASE n = DedupWindow
  <2> DEFINE rest == Tail(fingerprints)
  <2>1. /\ rest \in Seq(S) /\ Len(rest) = n - 1
        /\ \A i \in 1 .. n - 1 : rest[i] = fingerprints[i + 1]
    BY <1>1, <1>3, HeadTailProperties, EmptySeq
  <2>2. /\ fingerprints' = Append(rest, f)
        /\ fingerprintSet' = (fingerprintSet \ {fingerprints[1]}) \cup {f}
    BY <1>3 DEF Remember
  <2> HIDE DEF rest
  <2>3. /\ Len(fingerprints') = n /\ fingerprints'[n] = f
        /\ \A i \in 1 .. n - 1 : fingerprints'[i] = fingerprints[i + 1]
        /\ DOMAIN fingerprints' = 1 .. n
    BY <1>1, <1>3, <2>1, <2>2, AppendProperties, LenProperties
  <2>4. \A i, j \in 1 .. n : fingerprints'[i] = fingerprints'[j] => i = j
    <3> SUFFICES ASSUME NEW i \in 1 .. n, NEW j \in 1 .. n,
                        fingerprints'[i] = fingerprints'[j]
                 PROVE  i = j
      OBVIOUS
    <3>1. CASE i = n /\ j = n
      BY <3>1
    <3>2. CASE i = n /\ j # n
      <4>1. j \in 1 .. n - 1 /\ j + 1 \in 1 .. n
        BY <1>0, <3>2
      <4> QED
        BY <1>2, <2>3, <3>2, <4>1
    <3>3. CASE i # n /\ j = n
      <4>1. i \in 1 .. n - 1 /\ i + 1 \in 1 .. n
        BY <1>0, <3>3
      <4> QED
        BY <1>2, <2>3, <3>3, <4>1
    <3>4. CASE i # n /\ j # n
      <4>1. i \in 1 .. n - 1 /\ j \in 1 .. n - 1 /\ i + 1 \in 1 .. n /\ j + 1 \in 1 .. n
        BY <1>0, <3>4
      <4>2. fingerprints[i + 1] = fingerprints[j + 1]
        BY <2>3, <4>1
      <4>3. i + 1 = j + 1
        BY <1>1, <4>1, <4>2
      <4> QED
        BY <4>1, <4>3
    <3> QED
      BY <3>1, <3>2, <3>3, <3>4
  <2>5. fingerprintSet' = {fingerprints'[i] : i \in 1 .. n}
    <3>1. ASSUME NEW x \in fingerprintSet' PROVE \E i \in 1 .. n : x = fingerprints'[i]
      <4>1. CASE x = f
        BY <1>1, <1>3, <2>3, <4>1
      <4>2. CASE x # f
        <5>1. PICK i \in 1 .. n : x = fingerprints[i] /\ i # 1
          BY <1>1, <2>2, <3>1, <4>2
        <5>2. i - 1 \in 1 .. n - 1 /\ i - 1 \in 1 .. n /\ (i - 1) + 1 = i
          BY <1>1, <5>1
        <5>3. fingerprints'[i - 1] = x
          BY <2>3, <5>1, <5>2
        <5> QED
          BY <5>2, <5>3
      <4> QED
        BY <4>1, <4>2
    <3>2. ASSUME NEW i \in 1 .. n PROVE fingerprints'[i] \in fingerprintSet'
      <4>1. CASE i = n
        BY <2>2, <2>3, <4>1
      <4>2. CASE i # n
        <5>1. i \in 1 .. n - 1 /\ i + 1 \in 1 .. n /\ i + 1 # 1 /\ 1 \in 1 .. n
          <6>1. n \in Nat
            BY <1>1
          <6> HIDE DEF n
          <6> QED
            BY <4>2, <6>1
        <5>2. fingerprints'[i] = fingerprints[i + 1] /\ fingerprints[i + 1] # fingerprints[1]
          BY <1>1, <2>3, <5>1
        <5>3. fingerprints[i + 1] \in fingerprintSet
          BY <1>1, <5>1
        <5> QED
          BY <2>2, <5>2, <5>3
      <4> QED
        BY <4>1, <4>2
    <3> QED
      BY <3>1, <3>2
  <2> QED
    BY <1>1, <1>3, <2>3, <2>4, <2>5 DEF WindowConsistent, ToSet
<1>4. CASE n # DedupWindow
  <2>1. /\ fingerprints' = Append(fingerprints, f)
        /\ fingerprintSet' = fingerprintSet \cup {f}
    BY <1>4 DEF Remember
  <2>2. /\ Len(fingerprints') = n + 1 /\ fingerprints'[n + 1] = f
        /\ \A i \in 1 .. n : fingerprints'[i] = fingerprints[i]
        /\ DOMAIN fingerprints' = 1 .. n + 1
    BY <1>1, <2>1, AppendProperties, LenProperties
  <2>3. \A i, j \in 1 .. n + 1 : fingerprints'[i] = fingerprints'[j] => i = j
    BY <1>1, <1>2, <2>2
  <2>4. fingerprintSet' = {fingerprints'[i] : i \in 1 .. n + 1}
    BY <1>1, <2>1, <2>2
  <2>5. n + 1 <= DedupWindow
    BY <1>0, <1>4
  <2>6. WindowConsistent'
    BY <2>2, <2>3, <2>4, <2>5 DEF WindowConsistent, ToSet
  <2> QED
    BY <1>0, <1>4, <2>2, <2>6
<1> QED
  BY <1>3, <1>4

\* Publishing an event keeps the window the end of what was published.
LEMMA PublishKeepsDedup ==
    ASSUME TypeOK, DedupInv, Process, Fingerprint(working) \notin fingerprintSet
    PROVE  DedupInv'
<1> DEFINE f == Fingerprint(working)
           n == Len(published)
           m == Len(fingerprints)
           before == n - m
           F(e) == <<log[e].at, log[e].kind>>
<1>1. /\ Remember(f) /\ UNCHANGED <<log, run, merged>>
      /\ published' = Append(published, <<working, run>>)
  BY DEF Process, serverVars
<1>2. f \in Nat \X Kinds
  <2>1. working \in 1 .. Len(log)
    BY DEF Process, TypeOK, EventIds
  <2>2. log[working] \in [at : Nat, kind : Kinds]
    BY <2>1, ElementOfSeq DEF TypeOK
  <2> QED
    BY <2>2 DEF Fingerprint
<1>3. /\ n \in Nat /\ m \in Nat /\ DedupWindow \in Nat /\ DedupWindow > 0 /\ run \in Nat
      /\ DOMAIN fingerprints = 1 .. m
      /\ m <= DedupWindow /\ before >= 0
      /\ \A i \in 1 .. n : published[i][2] \in Nat
  BY DedupTypes DEF DedupInv, WindowConsistent, WindowIsSuffix
<1>4. /\ WindowConsistent'
      /\ fingerprints'[Len(fingerprints')] = f
      /\ Len(fingerprints') = IF m = DedupWindow THEN DedupWindow ELSE m + 1
      /\ \A i \in 1 .. Len(fingerprints') - 1 :
            fingerprints'[i] = IF m = DedupWindow THEN fingerprints[i + 1] ELSE fingerprints[i]
  BY <1>1, <1>2, RememberWindow DEF DedupInv
<1>5. /\ Len(published') = n + 1
      /\ published'[n + 1] = <<working, run>>
      /\ \A i \in 1 .. n : published'[i] = published[i]
  BY <1>1, AppendProperties DEF TypeOK
<1>6. \A e : Fingerprint(e)' = Fingerprint(e)
  BY <1>1 DEF Fingerprint
<1>7. \A j \in 1 .. n :
        /\ published[j][2] <= run
        /\ j > before => /\ published[j][2] = run
                        /\ fingerprints[j - before] = Fingerprint(published[j][1])
        /\ j <= before /\ m < DedupWindow => published[j][2] < run
  BY DEF DedupInv, WindowIsSuffix
<1>8. \A j \in 1 .. n : j > before => Fingerprint(published[j][1]) # f
  <2> SUFFICES ASSUME NEW j \in 1 .. n, j > before PROVE Fingerprint(published[j][1]) # f
    OBVIOUS
  <2>1. j - before \in 1 .. m
    BY <1>3
  <2>2. fingerprints[j - before] \in fingerprintSet
    BY <1>3, <2>1 DEF DedupInv, WindowConsistent, ToSet
  <2> QED
    BY <1>7, <2>2
<1> HIDE DEF f, n, m, F
<1>9. WindowIsSuffix'
  <2> DEFINE m2 == Len(fingerprints')
             before2 == (n + 1) - m2
  <2>1. /\ m2 \in Nat /\ before2 >= 0 /\ before2 <= n
        /\ m = DedupWindow => m2 = m /\ before2 = before + 1
        /\ m # DedupWindow => m2 = m + 1 /\ before2 = before
    BY <1>3, <1>4
  <2> HIDE DEF m2
  <2>2. ASSUME NEW j \in 1 .. n + 1
        PROVE  /\ published'[j][2] <= run
               /\ j > before2 => /\ published'[j][2] = run
                                /\ fingerprints'[j - before2] = Fingerprint(published'[j][1])
               /\ j <= before2 /\ m2 < DedupWindow => published'[j][2] < run
    <3>1. CASE j = n + 1
      <4>1. j - before2 = m2 /\ j > before2
        BY <1>3, <2>1, <3>1
      <4>2. published'[j] = <<working, run>>
        BY <1>5, <3>1
      <4>3. fingerprints'[m2] = f
        BY <1>4 DEF m2
      <4>4. published'[j][2] = run /\ published'[j][1] = working
        BY <4>2
      <4>5. fingerprints'[j - before2] = Fingerprint(published'[j][1])
        BY <4>1, <4>3, <4>4 DEF f
      <4>6. published'[j][2] <= run /\ ~(j <= before2)
        BY <1>3, <2>1, <3>1, <4>1, <4>4
      <4> QED
        BY <4>4, <4>5, <4>6
    <3>2. CASE j # n + 1
      <4>1. j \in 1 .. n /\ published'[j] = published[j]
        BY <1>3, <1>5, <3>2
      <4>2. published[j][2] <= run
        BY <1>7, <4>1
      <4>3. ASSUME j > before2
            PROVE  /\ published[j][2] = run
                   /\ fingerprints'[j - before2] = Fingerprint(published[j][1])
        <5>1. j > before /\ j - before2 \in 1 .. m2 - 1
          BY <1>3, <2>1, <4>1, <4>3
        <5>2. fingerprints'[j - before2] = fingerprints[j - before]
          <6>1. CASE m = DedupWindow
            <7>1. fingerprints'[j - before2] = fingerprints[(j - before2) + 1]
              BY <1>4, <5>1, <6>1 DEF m2
            <7>2. (j - before2) + 1 = j - before
              BY <1>3, <2>1, <4>1, <6>1
            <7> QED
              BY <7>1, <7>2
          <6>2. CASE m # DedupWindow
            BY <1>4, <2>1, <5>1, <6>2 DEF m2
          <6> QED
            BY <6>1, <6>2
        <5> QED
          BY <1>7, <4>1, <5>1, <5>2
      <4>4. ASSUME j <= before2, m2 < DedupWindow
            PROVE  published[j][2] < run
        <5>1. m < DedupWindow /\ j <= before
          BY <1>3, <2>1, <4>1, <4>4
        <5> QED
          BY <1>7, <4>1, <5>1
      <4> QED
        BY <4>1, <4>2, <4>3, <4>4
    <3> QED
      BY <3>1, <3>2
  <2> DEFINE last == Len(published')
             skip == last - Len(fingerprints')
  <2>3. last = n + 1 /\ skip = before2 /\ Len(fingerprints') = m2
    <3>1. Len(published') = n + 1 /\ Len(fingerprints') = m2
      BY <1>5 DEF m2
    <3>2. last = n + 1
      BY <3>1
    <3>3. skip = (n + 1) - m2
      BY <1>3, <2>1, <3>1
    <3> QED
      BY <3>1, <3>2, <3>3
  <2>4. run' = run /\ log' = log
    BY <1>1
  <2>5. /\ skip >= 0
        /\ \A j \in 1 .. last :
              /\ published'[j][2] <= run'
              /\ j > skip => /\ published'[j][2] = run'
                             /\ fingerprints'[j - skip] = F(published'[j][1])
              /\ j <= skip /\ Len(fingerprints') < DedupWindow => published'[j][2] < run'
    <3> HIDE DEF last, skip, before2
    <3> QED
      BY <2>1, <2>2, <2>3, <2>4 DEF Fingerprint, F
  <2> QED
    BY <2>4, <2>5 DEF WindowIsSuffix, Fingerprint, F
<1>10. NoReplayInWindow'
  <2>1. ASSUME NEW i \in 1 .. n + 1, NEW j \in 1 .. n + 1, i < j, j - i <= DedupWindow,
               published'[i][2] = published'[j][2]
        PROVE  Fingerprint(published'[i][1]) # Fingerprint(published'[j][1])
    <3>1. i \in 1 .. n /\ published'[i] = published[i]
      BY <1>3, <1>5, <2>1
    <3>2. CASE j = n + 1
      <4>1. published'[j] = <<working, run>>
        BY <1>5, <3>2
      <4>2. published[i][2] = run
        BY <2>1, <3>1, <4>1
      <4>3. i > before
        <5>1. CASE m = DedupWindow
          BY <1>3, <2>1, <3>1, <3>2, <5>1
        <5>2. CASE m # DedupWindow
          <6>1. m < DedupWindow
            BY <1>3, <5>2
          <6>2. ~(published[i][2] < run)
            BY <1>3, <4>2
          <6>3. ~(i <= before)
            BY <1>7, <3>1, <6>1, <6>2
          <6> QED
            BY <1>3, <3>1, <6>3
        <5> QED
          BY <5>1, <5>2
      <4>4. Fingerprint(published[i][1]) # f
        BY <1>8, <3>1, <4>3
      <4> QED
        BY <3>1, <4>1, <4>4 DEF f
    <3>3. CASE j # n + 1
      <4>1. j \in 1 .. n /\ published'[j] = published[j]
        BY <1>3, <1>5, <3>3
      <4> QED
        BY <2>1, <3>1, <4>1 DEF DedupInv, NoReplayInWindow, n
    <3> QED
      BY <3>2, <3>3
  <2> DEFINE last == Len(published')
  <2>2. last = n + 1 /\ log' = log
    BY <1>1, <1>5
  <2>3. \A i, j \in 1 .. last :
           i < j /\ j - i <= DedupWindow /\ published'[i][2] = published'[j][2]
           => F(published'[i][1]) # F(published'[j][1])
    <3> HIDE DEF last
    <3> QED
      BY <2>1, <2>2 DEF Fingerprint, F
  <2> QED
    BY <2>2, <2>3 DEF NoReplayInWindow, Fingerprint, F
<1>11. MergedHasTwin'
  <2>1. ASSUME NEW e \in merged
        PROVE  \E i \in 1 .. n + 1 : Fingerprint(published'[i][1]) = Fingerprint(e)
    <3>1. PICK i \in 1 .. n : Fingerprint(published[i][1]) = Fingerprint(e)
      BY <2>1 DEF DedupInv, MergedHasTwin, n
    <3>2. i \in 1 .. n + 1 /\ published'[i] = published[i]
      BY <1>3, <1>5, <3>1
    <3> QED
      BY <3>1, <3>2
  <2> QED
    BY <1>1, <1>5, <2>1 DEF MergedHasTwin, Fingerprint
<1> QED
  BY <1>4, <1>9, <1>10, <1>11 DEF DedupInv

\* Every action keeps the de-duplication invariant.
LEMMA DedupStep == TypeOK /\ DedupInv /\ [Next]_vars => DedupInv'
<1> SUFFICES ASSUME TypeOK, DedupInv, [Next]_vars PROVE DedupInv'
  OBVIOUS
<1>1. CASE Process
  <2>1. CASE Fingerprint(working) \in fingerprintSet
    <3>1. /\ merged' = merged \cup {working} /\ UNCHANGED log
          /\ UNCHANGED <<fingerprints, fingerprintSet, published, run>>
      BY <1>1, <2>1 DEF Process, serverVars
    <3>2. \E i \in 1 .. Len(published) :
             Fingerprint(published[i][1]) = Fingerprint(working)
      <4>1. PICK k \in 1 .. Len(fingerprints) : fingerprints[k] = Fingerprint(working)
        BY <2>1, DedupTypes DEF DedupInv, WindowConsistent, ToSet
      <4> DEFINE before == Len(published) - Len(fingerprints)
      <4>2. /\ before >= 0 /\ before + k \in 1 .. Len(published)
            /\ before + k > before /\ (before + k) - before = k
        BY <4>1, DedupTypes DEF DedupInv, WindowIsSuffix
      <4>3. fingerprints[k] = Fingerprint(published[before + k][1])
        BY <4>2 DEF DedupInv, WindowIsSuffix
      <4> QED
        BY <4>1, <4>2, <4>3
    <3>3. MergedHasTwin'
      BY <3>1, <3>2 DEF DedupInv, MergedHasTwin, Fingerprint
    <3>4. WindowConsistent' /\ WindowIsSuffix' /\ NoReplayInWindow'
      BY <3>1 DEF DedupInv, WindowConsistent, WindowIsSuffix, NoReplayInWindow, Fingerprint
    <3> QED
      BY <3>3, <3>4 DEF DedupInv
  <2>2. CASE Fingerprint(working) \notin fingerprintSet
    BY <1>1, <2>2, PublishKeepsDedup
  <2> QED
    BY <2>1, <2>2
<1>2. CASE Start
  <2>1. /\ fingerprints' = <<>> /\ fingerprintSet' = {} /\ run' = run + 1
        /\ UNCHANGED <<published, merged, log>>
    BY <1>2 DEF Start, serverVars
  <2>2. Len(fingerprints') = 0 /\ ToSet(fingerprints') = {}
    BY <2>1, EmptyTypes DEF ToSet
  <2>3. WindowConsistent'
    BY <2>1, <2>2, DedupTypes DEF WindowConsistent
  <2>4. /\ Len(published) \in Nat /\ run \in Nat
        /\ \A j \in 1 .. Len(published) : published[j][2] \in Nat /\ published[j][2] <= run
    BY DedupTypes DEF DedupInv, WindowIsSuffix
  <2>5. WindowIsSuffix'
    BY <2>1, <2>2, <2>4 DEF WindowIsSuffix
  <2>6. NoReplayInWindow' /\ MergedHasTwin'
    BY <2>1 DEF DedupInv, NoReplayInWindow, MergedHasTwin, Fingerprint
  <2> QED
    BY <2>3, <2>5, <2>6 DEF DedupInv
<1>3. UNCHANGED <<fingerprints, fingerprintSet, published, run, merged>> \/ Process \/ Start
  BY DEF Next, Server, Worker, Supervisor, Restarts, Tick, Occur, Drop, ReadEvent, TakeEvent,
         ProcessRaises, Subscribe, Swapped, HistoryAnswers, HistoryFails, HistoryRaises,
         NoticeDrop, Shutdown, Crash, Stop, vars, workerVars
<1> QED
  BY <1>1, <1>2, <1>3, DedupKept

\* De-duplication is correct for every window, queue and schedule: the set mirrors
\* the deque, nothing is published twice within the window, and only duplicates
\* are merged.
THEOREM DedupCorrect == Spec => [](WindowConsistent /\ NoReplayInWindow /\ MergedHasTwin)
<1>1. Init => DedupInv
  BY SizesAssumption, EmptyTypes
  DEF Init, DedupInv, WindowConsistent, WindowIsSuffix, NoReplayInWindow, MergedHasTwin, ToSet
<1>2. DedupInv => WindowConsistent /\ NoReplayInWindow /\ MergedHasTwin
  BY DEF DedupInv
<1> QED
  BY <1>1, <1>2, DedupStep, TypeCorrect, PTL DEF Spec

\* What is taken for a duplicate has a published twin, whatever failed before.
THEOREM MergedAreTwins == Spec => []MergedHasTwin
  BY DedupCorrect, PTL
------------------------------------------------------------------------------
(* The last event time *)

\* Nothing is ahead of the clock, the stored time is not ahead of the one in memory,
\* and that one covers what this run has published.
TimeInv ==
    /\ \A e \in EventIds : At(e) <= clock
    /\ stored <= lastEventAt
    /\ \A i \in 1 .. Len(published) : published[i][2] <= run
    /\ LastCoversPublished

\* What the arguments below need of the types.
LEMMA TimeTypes ==
    ASSUME TypeOK
    PROVE  /\ clock \in Nat /\ lastEventAt \in Nat /\ stored \in Nat /\ run \in Nat
           /\ Len(log) \in Nat /\ \A e \in EventIds : At(e) \in Nat
           /\ Len(published) \in Nat
           /\ \A i \in 1 .. Len(published) :
                 published[i][1] \in EventIds /\ published[i][2] \in Nat
<1>1. log \in Seq([at : Nat, kind : Kinds])
  BY DEF TypeOK
<1>2. \A e \in EventIds : At(e) \in Nat
  <2>1. \A e \in EventIds : log[e] \in [at : Nat, kind : Kinds]
    BY <1>1, ElementOfSeq DEF EventIds
  <2> QED
    BY <2>1 DEF At
<1> QED
  BY <1>1, <1>2, DedupTypes, LenProperties DEF TypeOK

\* Processing an event raises last_event_at to its time, or leaves it.
LEMMA ProcessKeepsTime == TypeOK /\ TimeInv /\ Process => TimeInv'
<1> SUFFICES ASSUME TypeOK, TimeInv, Process PROVE TimeInv'
  OBVIOUS
<1> DEFINE n == Len(published)
<1>1. UNCHANGED <<clock, log, stored, run>> /\ working \in EventIds
  BY DEF Process, serverVars, TypeOK, EventIds
<1>2. CASE UNCHANGED <<lastEventAt, published>>
  BY <1>1, <1>2 DEF TimeInv, LastCoversPublished, EventIds, At
<1>3. CASE /\ lastEventAt' = LaterOf(At(working), lastEventAt)
           /\ published' = Append(published, <<working, run>>)
  <2>1. /\ Len(published') = n + 1 /\ published'[n + 1] = <<working, run>>
        /\ \A i \in 1 .. n : published'[i] = published[i]
    BY <1>3, AppendProperties DEF TypeOK
  <2>2. /\ lastEventAt' >= lastEventAt /\ lastEventAt' >= At(working)
        /\ lastEventAt' \in Nat /\ lastEventAt' <= clock
    <3>1. At(working) <= clock /\ lastEventAt <= clock
      BY <1>1 DEF TimeInv, LastCoversPublished
    <3>2. At(working) \in Nat /\ lastEventAt \in Nat /\ clock \in Nat
      BY <1>1, TimeTypes
    <3> HIDE DEF At
    <3> QED
      BY <1>3, <3>1, <3>2 DEF LaterOf
  <2>3. ASSUME NEW i \in 1 .. n + 1
        PROVE  /\ published'[i][2] <= run
               /\ published'[i][2] = run => At(published'[i][1]) <= lastEventAt'
    <3>1. CASE i = n + 1
      BY <2>1, <2>2, <3>1, TimeTypes
    <3>2. CASE i # n + 1
      <4>1. i \in 1 .. n /\ published'[i] = published[i]
        BY <2>1, <3>2, TimeTypes
      <4>2. published[i][1] \in EventIds /\ At(published[i][1]) \in Nat
        BY <4>1, TimeTypes
      <4>3. published[i][2] = run => At(published[i][1]) <= lastEventAt
        BY <4>1 DEF TimeInv, LastCoversPublished
      <4>4. lastEventAt \in Nat
        BY TimeTypes
      <4> HIDE DEF At
      <4>5. published[i][2] = run => At(published[i][1]) <= lastEventAt'
        BY <2>2, <4>2, <4>3, <4>4
      <4> QED
        BY <4>1, <4>5 DEF TimeInv
    <3> QED
      BY <3>1, <3>2
  <2>4. \A e : At(e)' = At(e)
    BY <1>1 DEF At
  <2>5. stored' <= lastEventAt'
    BY <1>1, <2>2, TimeTypes DEF TimeInv
  <2> QED
    BY <1>1, <2>1, <2>2, <2>3, <2>5 DEF TimeInv, LastCoversPublished, EventIds, At
<1> QED
  BY <1>2, <1>3 DEF Process

\* Every action keeps the order of the times.
LEMMA TimeStep == TypeOK /\ TimeInv /\ [Next]_vars => TimeInv' /\ stored' >= stored
<1> SUFFICES ASSUME TypeOK, TimeInv, [Next]_vars PROVE TimeInv' /\ stored' >= stored
  OBVIOUS
<1> USE DEF TimeInv, LastCoversPublished
<1>1. CASE Process
  BY <1>1, ProcessKeepsTime, TimeTypes DEF Process
<1>2. CASE Occur
  <2>1. /\ UNCHANGED <<clock, stored, lastEventAt, published, run>>
        /\ \E k \in Kinds : log' = Append(log, [at |-> clock, kind |-> k])
    BY <1>2 DEF Occur, workerVars
  <2>2. /\ Len(log') = Len(log) + 1 /\ log'[Len(log) + 1].at = clock
        /\ \A e \in EventIds : log'[e] = log[e]
    BY <2>1, AppendProperties DEF TypeOK, EventIds
  <2>3. \A e \in 1 .. Len(log') : log'[e].at <= clock
    <3> SUFFICES ASSUME NEW e \in 1 .. Len(log') PROVE log'[e].at <= clock
      OBVIOUS
    <3>1. CASE e = Len(log) + 1
      BY <2>2, <3>1, TimeTypes
    <3>2. CASE e # Len(log) + 1
      BY <2>2, <3>2, TimeTypes DEF EventIds, At
    <3> QED
      BY <3>1, <3>2
  <2>4. \A i \in 1 .. Len(published) : published[i][2] = run =>
           log'[published[i][1]].at <= lastEventAt
    BY <2>2, TimeTypes DEF At
  <2> QED
    BY <2>1, <2>3, <2>4, TimeTypes DEF EventIds, At
<1>3. CASE UNCHANGED <<log, published>> /\ ~Process
  <2>1. /\ \A e : At(e)' = At(e)
        /\ EventIds' = EventIds
    BY <1>3 DEF At, EventIds
  <2>2. /\ clock' \in Nat /\ clock' >= clock
        /\ stored' >= stored /\ stored' <= lastEventAt' /\ lastEventAt' <= clock'
        /\ \/ run' = run /\ lastEventAt' >= lastEventAt
           \/ run' = run + 1
    <3>1. CASE Tick
      BY <3>1, TimeTypes DEF Tick, workerVars
    <3>2. CASE Subscribe \/ Swapped
      <4>1. UNCHANGED <<clock, stored, run>> /\ lastEventAt' \in {lastEventAt, clock}
        BY <3>2 DEF Subscribe, Swapped, StartBackfill, serverVars
      <4> QED
        BY <4>1, TimeTypes
    <3>3. CASE HistoryAnswers \/ Shutdown
      <4>1. UNCHANGED <<clock, lastEventAt, run>> /\ stored' = lastEventAt
        BY <3>3 DEF HistoryAnswers, Shutdown, Stop, serverVars, workerVars
      <4> QED
        BY <4>1, TimeTypes
    <3>4. CASE Start
      BY <3>4, TimeTypes DEF Start, serverVars
    <3>5. CASE UNCHANGED <<clock, stored, lastEventAt, run>>
      BY <3>5, TimeTypes
    <3> QED
      BY <1>3, <1>2, <3>1, <3>2, <3>3, <3>4, <3>5
      DEF Next, Server, Worker, Supervisor, Restarts, Drop, ReadEvent, TakeEvent,
          ProcessRaises, HistoryFails, HistoryRaises, NoticeDrop, Crash, Stop, Occur,
          vars, serverVars, workerVars
  <2>3. \A e \in EventIds : At(e)' <= clock'
    <3> SUFFICES ASSUME NEW e \in EventIds PROVE At(e)' <= clock'
      OBVIOUS
    <3>1. At(e)' = At(e) /\ At(e) \in Nat /\ At(e) <= clock /\ clock \in Nat
      BY <2>1, TimeTypes
    <3> QED
      BY <2>2, <3>1
  <2>4. ASSUME NEW i \in 1 .. Len(published)
        PROVE  /\ published[i][2] <= run'
               /\ published[i][2] = run' => At(published[i][1])' <= lastEventAt'
    <3>1. /\ published[i][1] \in EventIds /\ published[i][2] \in Nat
          /\ At(published[i][1]) \in Nat /\ run \in Nat /\ lastEventAt \in Nat
      BY TimeTypes
    <3>2. published[i][2] <= run
      OBVIOUS
    <3>3. published[i][2] = run => At(published[i][1]) <= lastEventAt
      OBVIOUS
    <3>4. lastEventAt' \in Int
      BY <2>2, TypeStep DEF TypeOK
    <3> QED
      BY <1>3, <2>1, <2>2, <3>1, <3>2, <3>3, <3>4
  <2> QED
    BY <1>3, <2>1, <2>2, <2>3, <2>4 DEF At, EventIds
<1> QED
  BY <1>1, <1>2, <1>3
  DEF Next, Server, Worker, Supervisor, Restarts, Tick, Drop, ReadEvent, TakeEvent,
      ProcessRaises, Subscribe, Swapped, HistoryAnswers, HistoryFails, HistoryRaises,
      NoticeDrop, Shutdown, Crash, Start, Stop, vars, serverVars, workerVars

\* The initial state is in order.
LEMMA TimeInit == Init => TimeInv
<1> SUFFICES ASSUME Init PROVE TimeInv
  OBVIOUS
<1> QED
  BY EmptyTypes DEF Init, TimeInv, LastCoversPublished, EventIds, At

\* last_event_at is never ahead of the clock nor behind an event this run published.
THEOREM LastEventTimeIsRight == Spec => []LastCoversPublished
<1>1. TimeInv => LastCoversPublished
  BY DEF TimeInv
<1> QED
  BY <1>1, TimeInit, TimeStep, TypeCorrect, PTL DEF Spec

\* The persisted time never goes back, over any number of shutdowns, crashes and
\* restarts.
THEOREM StoredMovesForward == Spec => StoredNeverRewinds
<1>1. TypeOK /\ TimeInv /\ [Next]_vars => [stored' >= stored]_stored
  BY TimeStep
<1> QED
  BY <1>1, TimeInit, TimeStep, TypeCorrect, PTL DEF Spec, StoredNeverRewinds

------------------------------------------------------------------------------
(* Nothing disappears *)

\* The events that were published, in any run.
Publications == {published[i][1] : i \in 1 .. Len(published)}

\* The first of a sequence and the rest of it are all of it.
LEMMA ToSetHead ==
    ASSUME NEW S, NEW s \in Seq(S), s # <<>>
    PROVE  ToSet(s) = {Head(s)} \cup ToSet(Tail(s))
<1>1. /\ Len(s) \in Nat /\ Len(s) > 0 /\ DOMAIN s = 1 .. Len(s) /\ Head(s) = s[1]
      /\ DOMAIN Tail(s) = 1 .. Len(s) - 1 /\ \A i \in 1 .. Len(s) - 1 : Tail(s)[i] = s[i + 1]
  BY HeadTailProperties, EmptySeq, LenProperties
<1>2. ASSUME NEW x \in ToSet(s) PROVE x \in {Head(s)} \cup ToSet(Tail(s))
  <2>1. PICK i \in 1 .. Len(s) : x = s[i]
    BY <1>1, <1>2 DEF ToSet
  <2>2. CASE i = 1
    BY <1>1, <2>1, <2>2
  <2>3. CASE i # 1
    <3>1. i - 1 \in DOMAIN Tail(s) /\ x = Tail(s)[i - 1]
      BY <1>1, <2>1, <2>3
    <3> QED
      BY <3>1 DEF ToSet
  <2> QED
    BY <2>2, <2>3
<1>3. Head(s) \in ToSet(s)
  BY <1>1 DEF ToSet
<1>4. ASSUME NEW x \in ToSet(Tail(s)) PROVE x \in ToSet(s)
  <2>1. PICK i \in 1 .. Len(s) - 1 : x = Tail(s)[i]
    BY <1>1, <1>4 DEF ToSet
  <2>2. i + 1 \in DOMAIN s /\ x = s[i + 1]
    BY <1>1, <2>1
  <2> QED
    BY <2>2 DEF ToSet
<1> QED
  BY <1>2, <1>3, <1>4

\* Appending adds one element.
LEMMA ToSetAppend ==
    ASSUME NEW S, NEW T, NEW s \in Seq(S), S \subseteq T, NEW x \in T
    PROVE  ToSet(Append(s, x)) = ToSet(s) \cup {x}
<1> DEFINE sx == Append(s, x)
<1>1. s \in Seq(T)
  BY SeqMonotone
<1>2. /\ Len(s) \in Nat /\ DOMAIN s = 1 .. Len(s)
      /\ Len(sx) = Len(s) + 1 /\ DOMAIN sx = 1 .. Len(s) + 1
      /\ \A i \in 1 .. Len(s) : sx[i] = s[i]
      /\ sx[Len(s) + 1] = x
  BY <1>1, AppendProperties, LenProperties
<1> HIDE DEF sx
<1>3. ToSet(sx) = {sx[i] : i \in 1 .. Len(s) + 1} /\ ToSet(s) = {s[i] : i \in 1 .. Len(s)}
  BY <1>2 DEF ToSet
<1>4. \A i \in 1 .. Len(s) + 1 : i \in 1 .. Len(s) \/ i = Len(s) + 1
  BY <1>2
<1>5. \A i \in 1 .. Len(s) : i \in 1 .. Len(s) + 1
  BY <1>2
<1>6. Len(s) + 1 \in 1 .. Len(s) + 1
  BY <1>2
<1> QED
  BY <1>2, <1>3, <1>4, <1>5, <1>6 DEF sx

\* An empty wire or queue holds no event.
LEMMA ToSetEmpty == ToSet(<<>>) = {}
  BY DEF ToSet

\* Each action hands an event on, or it puts it where it is accounted for.
LEMMA AccountedStep == TypeOK /\ EveryEventAccounted /\ [Next]_vars => EveryEventAccounted'
<1> SUFFICES ASSUME TypeOK, EveryEventAccounted, [Next]_vars PROVE EveryEventAccounted'
  OBVIOUS
<1>1. ASSUME UNCHANGED <<log, wire, queue, working, published, merged, dropped, lost>>
      PROVE  EveryEventAccounted'
  BY <1>1 DEF EveryEventAccounted, EventIds
<1>2. CASE Occur
  <2>1. EventIds' = EventIds \cup {Len(log) + 1}
    <3>1. PICK k \in Kinds : log' = Append(log, [at |-> clock, kind |-> k])
      BY <1>2 DEF Occur
    <3>2. Len(log') = Len(log) + 1 /\ Len(log) \in Nat
      BY <3>1, AppendProperties, LenProperties DEF TypeOK
    <3> QED
      BY <3>2 DEF EventIds
  <2>2. ToSet(wire') \cup lost' = ToSet(wire) \cup lost \cup {Len(log) + 1}
    <3>1. Len(log) + 1 \in EventIds' /\ EventIds \subseteq EventIds'
      BY <2>1
    <3>2. CASE live
      <4>1. wire' = Append(wire, Len(log) + 1) /\ lost' = lost
        BY <1>2, <3>2 DEF Occur
      <4>2. ToSet(wire') = ToSet(wire) \cup {Len(log) + 1}
        BY <3>1, <4>1, ToSetAppend DEF TypeOK
      <4> QED
        BY <4>1, <4>2
    <3>3. CASE ~live
      BY <1>2, <3>3 DEF Occur
    <3> QED
      BY <3>2, <3>3
  <2>3. UNCHANGED <<queue, working, published, merged, dropped>>
    BY <1>2 DEF Occur, workerVars
  <2> QED
    BY <2>1, <2>2, <2>3 DEF EveryEventAccounted
<1>3. CASE Drop
  <2>1. wire' = <<>> /\ lost' = lost \cup ToSet(wire)
        /\ UNCHANGED <<log, queue, working, published, merged, dropped>>
    BY <1>3 DEF Drop, serverVars, workerVars
  <2>2. ToSet(wire') = {}
    BY <2>1, ToSetEmpty
  <2> QED
    BY <2>1, <2>2 DEF EveryEventAccounted, EventIds
<1>4. CASE ReadEvent
  <2>1. /\ wire # <<>> /\ Enqueue(<<Head(wire)>>) /\ wire' = Tail(wire) /\ wire \in Seq(EventIds)
        /\ UNCHANGED <<log, working, published, merged, lost>>
    BY <1>4 DEF ReadEvent, serverVars, workerVars, TypeOK
  <2>2. ToSet(wire) = {Head(wire)} \cup ToSet(wire')
    BY <2>1, ToSetHead
  <2>3. Head(wire) \in EventIds
    BY <2>1, HeadTailProperties
  <2>4. <<Head(wire)>> \in Seq(EventIds) /\ ToSet(<<Head(wire)>>) = {Head(wire)}
    BY <2>3 DEF ToSet
  <2>5. ToSet(queue') \cup dropped' = ToSet(queue) \cup dropped \cup {Head(wire)}
    BY <2>1, <2>4, EnqueueType
  <2> QED
    BY <2>1, <2>2, <2>5 DEF EveryEventAccounted, EventIds
<1>5. CASE TakeEvent
  <2>1. /\ working = 0 /\ queue # <<>> /\ working' = Head(queue) /\ queue' = Tail(queue)
        /\ queue \in Seq(EventIds)
        /\ UNCHANGED <<log, wire, published, merged, dropped, lost>>
    BY <1>5 DEF TakeEvent, serverVars, linkVars, TypeOK
  <2>2. ToSet(queue) = {Head(queue)} \cup ToSet(queue')
    BY <2>1, ToSetHead
  <2>3. Head(queue) \in EventIds
    BY <2>1, HeadTailProperties
  <2>4. Head(queue) # 0
    BY <2>3 DEF EventIds
  <2> QED
    BY <2>1, <2>2, <2>4 DEF EveryEventAccounted, EventIds
<1>6. CASE Process
  <2>1. /\ working > 0 /\ working' = 0 /\ working \in EventIds
        /\ UNCHANGED <<log, wire, queue, dropped, lost>>
    BY <1>6 DEF Process, serverVars, linkVars, TypeOK
  <2>2. CASE merged' = merged \cup {working} /\ published' = published
    BY <2>1, <2>2 DEF EveryEventAccounted, EventIds
  <2>3. CASE published' = Append(published, <<working, run>>) /\ merged' = merged
    <3>1. /\ Len(published') = Len(published) + 1 /\ Len(published) \in Nat
          /\ published'[Len(published) + 1] = <<working, run>>
          /\ \A i \in 1 .. Len(published) : published'[i] = published[i]
      BY <2>3, AppendProperties, LenProperties DEF TypeOK
    <3>2. Publications' = Publications \cup {working}
      <4>1. \A i \in 1 .. Len(published) + 1 : i \in 1 .. Len(published) \/ i = Len(published) + 1
        BY <3>1
      <4>2. \A i \in 1 .. Len(published) : i \in 1 .. Len(published) + 1
        BY <3>1
      <4>3. Len(published) + 1 \in 1 .. Len(published) + 1
        BY <3>1
      <4>4. Publications' = {published'[i][1] : i \in 1 .. Len(published) + 1}
        BY <3>1 DEF Publications
      <4> QED
        BY <3>1, <4>1, <4>2, <4>3, <4>4 DEF Publications
    <3> QED
      BY <2>1, <2>3, <3>2 DEF EveryEventAccounted, EventIds, Publications
  <2> QED
    BY <1>6, <2>2, <2>3 DEF Process
<1>7. CASE ProcessRaises
  BY <1>7 DEF ProcessRaises, serverVars, linkVars, EveryEventAccounted, EventIds
<1>8. CASE HistoryAnswers
  <2>1. PICK history \in [1 .. Cardinality(Parsed) -> Parsed] :
            ToSet(history) = Parsed /\ Enqueue(history)
    BY <1>8 DEF HistoryAnswers
  <2>2. lost' = lost \ Parsed /\ UNCHANGED <<log, wire, working, published, merged>>
    BY <1>8 DEF HistoryAnswers, serverVars, workerVars
  <2>3. history \in Seq(EventIds)
    BY HistoryType DEF TypeOK
  <2>4. ToSet(queue') \cup dropped' = ToSet(queue) \cup dropped \cup Parsed
    BY <2>1, <2>3, EnqueueType
  <2>5. Parsed \subseteq EventIds
    BY DEF Parsed, Returned
  <2> QED
    BY <2>2, <2>4, <2>5 DEF EveryEventAccounted, EventIds
<1>9. CASE Stop
  <2>1. /\ wire' = <<>> /\ queue' = <<>> /\ working' = 0
        /\ lost' = lost \cup ToSet(wire) \cup ToSet(queue) \cup ({working} \ {0})
        /\ UNCHANGED <<log, published, merged, dropped>>
    BY <1>9 DEF Stop, serverVars
  <2>2. ToSet(wire') = {} /\ ToSet(queue') = {}
    BY <2>1, ToSetEmpty
  <2> QED
    BY <2>1, <2>2 DEF EveryEventAccounted, EventIds
<1>10. CASE Tick \/ Subscribe \/ Swapped \/ HistoryFails \/ HistoryRaises \/ NoticeDrop \/ Start
  BY <1>1, <1>10
  DEF Tick, Subscribe, Swapped, HistoryFails, HistoryRaises, NoticeDrop, Start, serverVars, linkVars,
      workerVars
<1>11. CASE UNCHANGED vars
  BY <1>1, <1>11 DEF vars, serverVars, linkVars, workerVars
<1> QED
  BY <1>2, <1>3, <1>4, <1>5, <1>6, <1>7, <1>8, <1>9, <1>10, <1>11
  DEF Next, Server, Worker, Supervisor, Restarts, Shutdown, Crash

\* No event disappears without a trace, whatever drops, overflows, raises or restarts.
THEOREM NoEventDisappears == Spec => []EveryEventAccounted
<1>1. Init => EveryEventAccounted
  BY ToSetEmpty, EmptyTypes DEF Init, EveryEventAccounted, EventIds
<1> QED
  BY <1>1, AccountedStep, TypeCorrect, PTL DEF Spec

------------------------------------------------------------------------------
(* The backfill leaves no gap *)

\* The log is in the order of time, and nothing in it is ahead of the clock.
SortedInv ==
    /\ \A i, j \in EventIds : i <= j => At(i) <= At(j)
    /\ \A e \in EventIds : At(e) <= clock

\* Nothing is lost while a subscription is live, so from the moment the request is
\* made everything lost lies before its end; a window is only kept as long as its
\* subscription.
GapInv ==
    /\ phase \notin {"asking", "watching"} => window = NoWindow
    /\ phase = "watching" => window = NoWindow \/ (live /\ \A e \in lost : OutOfReach(e))
    /\ phase = "asking" /\ live => \A e \in lost : At(e) <= window.till

\* What a reply leaves out of its window is out of reach.
LEMMA ParsedComplete ==
    ASSUME TypeOK, SortedInv, NEW e \in EventIds, At(e) <= window.till, e \notin Parsed
    PROVE  OutOfReach(e)
<1>1. window.from \in Int /\ window.till \in Nat /\ \A x \in EventIds : At(x) \in Nat
  BY TimeTypes DEF TypeOK, Window
<1>2. CASE ~(window.from <= At(e))
  <2> HIDE DEF At
  <2> QED
    BY <1>1, <1>2 DEF OutOfReach
<1>3. CASE log[e].kind \notin ClassicKinds
  BY <1>3 DEF OutOfReach
<1>4. CASE window.from <= At(e) /\ log[e].kind \in ClassicKinds
  <2>1. e \in Returned
    BY <1>4, KindsAssumption DEF Returned, InWindow
  <2>2. PICK u \in Returned : u < e /\ log[u].kind \in UndocumentedKinds
    BY <2>1 DEF Parsed
  <2> QED
    BY <2>2 DEF OutOfReach, Returned, InWindow
<1> QED
  BY <1>2, <1>3, <1>4

\* An event stays out of reach of a window however the log grows.
LEMMA OutOfReachStays ==
    ASSUME TypeOK, [Next]_vars, window' = window, NEW e \in EventIds, OutOfReach(e)
    PROVE  OutOfReach(e)'
<1>1. /\ EventIds \subseteq EventIds' /\ EventIds \subseteq Int
      /\ \A x \in EventIds : log'[x] = log[x] /\ At(x)' = At(x)
  BY LogGrows DEF TypeOK, At, EventIds
<1> QED
  BY <1>1 DEF OutOfReach

\* Only Occur adds to the log, at its end and with the present second.
LEMMA SortedStep == TypeOK /\ SortedInv /\ [Next]_vars => SortedInv'
<1> SUFFICES ASSUME TypeOK, SortedInv, [Next]_vars PROVE SortedInv'
  OBVIOUS
<1>1. clock \in Nat /\ clock' \in Nat /\ clock' >= clock
  <2>1. clock' = clock \/ clock' = clock + 1
    BY DEF Next, Server, Worker, Supervisor, Restarts, Tick, Occur, Drop, ReadEvent, TakeEvent,
           Process, ProcessRaises, Subscribe, Swapped, HistoryAnswers, HistoryFails,
           HistoryRaises, NoticeDrop, Shutdown, Crash, Stop, Start, vars, serverVars
  <2> QED
    BY <2>1 DEF TypeOK
<1>2. CASE log' = log
  <2>1. EventIds' = EventIds /\ \A e \in EventIds : At(e)' = At(e)
    BY <1>2 DEF EventIds, At
  <2>2. \A e \in EventIds : At(e) <= clock'
    <3>1. \A e \in EventIds : At(e) \in Nat /\ At(e) <= clock
      BY TimeTypes DEF SortedInv
    <3> HIDE DEF At
    <3> QED
      BY <1>1, <3>1
  <2> QED
    BY <2>1, <2>2 DEF SortedInv
<1>3. CASE log' # log
  <2>1. PICK k \in Kinds : log' = Append(log, [at |-> clock, kind |-> k])
    BY <1>3, LogGrows DEF TypeOK
  <2>2. clock' = clock /\ EventIds' = EventIds \cup {Len(log) + 1} /\ Len(log) \in Nat
    BY <1>3, LogGrows, TimeTypes DEF TypeOK
  <2>3. \A e \in EventIds : log'[e].at = log[e].at
    BY LogGrows DEF TypeOK
  <2>4. log'[Len(log) + 1].at = clock
    BY <2>1, AppendProperties DEF TypeOK
  <2>5. \A e \in EventIds : log[e].at \in Nat /\ log[e].at <= clock
    BY TimeTypes DEF SortedInv, At
  <2>6. \A i, j \in EventIds : i <= j => log[i].at <= log[j].at
    BY DEF SortedInv, At
  <2>7. EventIds = 1 .. Len(log)
    BY DEF EventIds
  <2>8. \A e \in EventIds' : log'[e].at <= clock'
    BY <1>1, <2>2, <2>3, <2>4, <2>5
  <2>9. \A i, j \in EventIds' : i <= j => log'[i].at <= log'[j].at
    <3> SUFFICES ASSUME NEW i \in EventIds', NEW j \in EventIds', i <= j PROVE log'[i].at <= log'[j].at
      OBVIOUS
    <3>1. CASE j = Len(log) + 1
      BY <2>2, <2>4, <2>8, <3>1
    <3>2. CASE j # Len(log) + 1
      <4>1. i \in EventIds /\ j \in EventIds
        BY <2>2, <2>7, <3>2
      <4> QED
        BY <2>3, <2>6, <4>1
    <3> QED
      BY <3>1, <3>2
  <2> QED
    BY <2>8, <2>9 DEF SortedInv, At
<1> QED
  BY <1>2, <1>3

\* Only a reply makes a window that everything lost is out of reach of, and nothing is
\* lost while that window stays.
LEMMA GapStep == TypeOK /\ SortedInv /\ GapInv /\ [Next]_vars => GapInv'
<1> SUFFICES ASSUME TypeOK, SortedInv, GapInv, [Next]_vars PROVE GapInv'
  OBVIOUS
<1>1. lost \subseteq EventIds /\ \A e \in EventIds : At(e)' = At(e) /\ At(e) <= clock
  BY LogGrows DEF TypeOK, At, SortedInv
<1>2. ASSUME UNCHANGED <<phase, window, live>>, live => lost' = lost PROVE GapInv'
  <2>1. \A e \in lost : OutOfReach(e) => OutOfReach(e)'
    BY <1>1, <1>2, OutOfReachStays
  <2> HIDE DEF At, OutOfReach
  <2> QED
    BY <1>1, <1>2, <2>1 DEF GapInv
<1>3. CASE Occur
  <2>1. UNCHANGED <<phase, window, live>> /\ (live => lost' = lost)
    BY <1>3 DEF Occur, supervisorVars
  <2> QED
    BY <1>2, <2>1
<1>4. CASE Drop
  <2>1. phase' = phase /\ ~live' /\ window' = IF phase = "asking" THEN window ELSE NoWindow
    BY <1>4 DEF Drop
  <2> QED
    BY <2>1 DEF GapInv
<1>5. ASSUME window = NoWindow, lost' = lost, StartBackfill(WindowStart) PROVE GapInv'
  <2>1. CASE phase' = "watching" /\ window' = window
    BY <1>5, <2>1 DEF GapInv
  <2>2. CASE phase' = "asking" /\ window' = [from |-> WindowStart, till |-> clock]
    BY <1>1, <1>5, <2>2 DEF GapInv
  <2> QED
    BY <1>5, <2>1, <2>2 DEF StartBackfill
<1>6. CASE Subscribe
  <2>1. phase = "down" /\ lost' = lost /\ window = NoWindow
    BY <1>6 DEF Subscribe, GapInv
  <2>2. CASE hadConnection
    BY <1>6, <2>1, <2>2 DEF Subscribe, GapInv
  <2>3. CASE ~hadConnection
    BY <1>5, <1>6, <2>1, <2>3 DEF Subscribe
  <2> QED
    BY <2>2, <2>3
<1>7. CASE Swapped
  <2>1. phase = "swapping" /\ lost' = lost /\ window = NoWindow /\ StartBackfill(WindowStart)
    BY <1>7 DEF Swapped, GapInv, linkVars
  <2> QED
    BY <1>5, <2>1
<1>8. CASE HistoryAnswers
  <2>1. /\ phase = "asking" /\ phase' = "watching" /\ live' = live /\ lost' = lost \ Parsed
        /\ window' = IF live THEN window ELSE NoWindow
    BY <1>8 DEF HistoryAnswers
  <2>2. ASSUME live, NEW e \in lost' PROVE OutOfReach(e)'
    <3>1. e \in EventIds /\ At(e) <= window.till /\ e \notin Parsed
      BY <1>1, <2>1, <2>2 DEF GapInv
    <3>2. OutOfReach(e)
      BY <3>1, ParsedComplete
    <3> QED
      BY <2>1, <2>2, <3>1, <3>2, OutOfReachStays
  <2> HIDE DEF OutOfReach
  <2> QED
    BY <2>1, <2>2 DEF GapInv
<1>9. CASE HistoryFails \/ HistoryRaises \/ Stop
  BY <1>9 DEF HistoryFails, HistoryRaises, Stop, GapInv
<1>10. CASE NoticeDrop
  BY <1>10 DEF NoticeDrop, GapInv
<1>11. CASE Start
  BY <1>11 DEF Start, GapInv
<1>12. CASE Tick \/ ReadEvent \/ TakeEvent \/ Process \/ ProcessRaises \/ UNCHANGED vars
  BY <1>2, <1>12
  DEF Tick, ReadEvent, TakeEvent, Process, ProcessRaises, vars, linkVars, supervisorVars
<1> QED
  BY <1>3, <1>4, <1>6, <1>7, <1>8, <1>9, <1>10, <1>11, <1>12
  DEF Next, Server, Worker, Supervisor, Restarts, Shutdown, Crash

\* Once the history has come in, and until the subscription is lost, every pass and
\* denial from the start of the window on that is not behind an event of an undocumented
\* kind is on its way or was handled: the subscription comes before the request.
THEOREM NoGap == Spec => []NoGapInWindow
<1>1. Init => SortedInv /\ GapInv
  BY EmptyTypes DEF Init, SortedInv, GapInv, EventIds
<1>2. GapInv => NoGapInWindow
  BY DEF GapInv, NoGapInWindow
<1> QED
  BY <1>1, <1>2, SortedStep, GapStep, TypeCorrect, PTL DEF Spec
=============================================================================
