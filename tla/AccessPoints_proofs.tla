------------------------- MODULE AccessPoints_proofs -------------------------
(***************************************************************************)
(* Theorems about AccessPoints, for any set of access points and any       *)
(* number of changes, failures and drops.                                  *)
(***************************************************************************)
EXTENDS AccessPoints, FunctionTheorems, FiniteSetTheorems, SequenceTheorems, TLAPS

\* What a poll has discovered is known and not announced yet; what was announced
\* is known, so that no later poll discovers it again.
AnnouncedInv ==
    /\ known \in Seq(Points) /\ IsInjective(known)
    /\ added \subseteq ToSet(known)
    /\ announcements \in [Points -> {0, 1}]
    /\ \A p \in Points : announcements[p] = 1 => p \in ToSet(known) \ added

-----------------------------------------------------------------------------
(* Sequences that hold each of their elements once.                        *)

\* SetToSeq lists every element of a finite set, each once.
LEMMA SetToSeqLists ==
    ASSUME NEW S, IsFiniteSet(S)
    PROVE  SetToSeq(S) \in Seq(S) /\ IsInjective(SetToSeq(S)) /\ ToSet(SetToSeq(S)) = S
<1> DEFINE n == Cardinality(S)
           f == SetToSeq(S)
<1>1. n \in Nat /\ Bijection(1..n, S) # {}
  BY FS_CardinalityType DEF ExistsBijection
<1>2. \E g \in [1..n -> S] : IsInjective(g)
  BY <1>1 DEF Bijection, Injection
<1>3. f \in [1..n -> S] /\ IsInjective(f)
  BY <1>2 DEF SetToSeq
<1>4. f \in Seq(S)
  BY <1>1, <1>3
<1>5. ToSet(f) \subseteq S
  BY <1>3 DEF ToSet
<1>6. f \in Bijection(1..n, ToSet(f))
  <2>1. f \in [1..n -> ToSet(f)] /\ \A a, b \in 1..n : f[a] = f[b] => a = b
    BY <1>3 DEF ToSet, IsInjective
  <2>2. \A e \in ToSet(f) : \E i \in 1..n : f[i] = e
    BY <1>3 DEF ToSet
  <2> QED
    BY <2>1, <2>2, Fun_IsBij
<1>7. Cardinality(ToSet(f)) = n
  <2>1. IsFiniteSet(1..n) /\ Cardinality(1..n) = n
    BY <1>1, FS_Interval
  <2> QED
    BY <1>6, <2>1, FS_Bijection DEF ExistsBijection
<1>8. ToSet(f) = S
  BY <1>5, <1>7, FS_Subset
<1> QED
  BY <1>3, <1>4, <1>8

\* So does what follows from appending to one a second without common elements.
LEMMA ConcatLists ==
    ASSUME NEW S, NEW q \in Seq(S), NEW r \in Seq(S),
           IsInjective(q), IsInjective(r), ToSet(q) \cap ToSet(r) = {}
    PROVE  /\ q \o r \in Seq(S) /\ IsInjective(q \o r)
           /\ ToSet(q \o r) = ToSet(q) \cup ToSet(r)
<1> DEFINE s == q \o r
<1>1. /\ Len(q) \in Nat /\ Len(r) \in Nat
      /\ DOMAIN q = 1..Len(q) /\ DOMAIN r = 1..Len(r)
  OBVIOUS
<1>2. s \in Seq(S) /\ DOMAIN s = 1..(Len(q) + Len(r))
  BY <1>1, ConcatProperties
<1>3. \A i \in DOMAIN s : s[i] = IF i <= Len(q) THEN q[i] ELSE r[i - Len(q)]
  BY <1>2, ConcatProperties
<1> HIDE DEF s
<1>4. ToSet(s) = ToSet(q) \cup ToSet(r)
  <2>1. ASSUME NEW i \in DOMAIN s PROVE s[i] \in ToSet(q) \cup ToSet(r)
    <3>1. CASE i <= Len(q)
      BY <1>1, <1>2, <1>3, <3>1 DEF ToSet
    <3>2. CASE ~(i <= Len(q))
      <4>1. i - Len(q) \in DOMAIN r
        BY <1>1, <1>2, <3>2
      <4> QED
        BY <1>3, <3>2, <4>1 DEF ToSet
    <3> QED
      BY <3>1, <3>2
  <2>2. ASSUME NEW i \in DOMAIN q PROVE q[i] \in ToSet(s)
    BY <1>1, <1>2, <1>3 DEF ToSet
  <2>3. ASSUME NEW i \in DOMAIN r PROVE r[i] \in ToSet(s)
    <3>1. Len(q) + i \in DOMAIN s /\ ~(Len(q) + i <= Len(q)) /\ Len(q) + i - Len(q) = i
      BY <1>1, <1>2
    <3> QED
      BY <1>3, <3>1 DEF ToSet
  <2> QED
    BY <2>1, <2>2, <2>3 DEF ToSet
<1>5. ASSUME NEW i \in DOMAIN s, NEW j \in DOMAIN s, s[i] = s[j] PROVE i = j
  <2>1. CASE i <= Len(q) /\ j <= Len(q)
    BY <1>1, <1>2, <1>3, <1>5, <2>1 DEF IsInjective
  <2>2. CASE ~(i <= Len(q)) /\ ~(j <= Len(q))
    <3>1. i - Len(q) \in DOMAIN r /\ j - Len(q) \in DOMAIN r
      BY <1>1, <1>2, <2>2
    <3>2. i - Len(q) = j - Len(q)
      BY <1>3, <1>5, <2>2, <3>1 DEF IsInjective
    <3> QED
      BY <1>1, <1>2, <3>2
  <2>3. ASSUME NEW k \in DOMAIN s, NEW l \in DOMAIN s, k <= Len(q), ~(l <= Len(q))
        PROVE  s[k] # s[l]
    <3>1. k \in DOMAIN q /\ l - Len(q) \in DOMAIN r
      BY <1>1, <1>2, <2>3
    <3>2. s[k] \in ToSet(q) /\ s[l] \in ToSet(r)
      BY <1>3, <2>3, <3>1 DEF ToSet
    <3> QED
      BY <3>2
  <2> QED
    BY <1>5, <2>1, <2>2, <2>3
<1> QED
  BY <1>2, <1>4, <1>5 DEF s, IsInjective

-----------------------------------------------------------------------------
(* The invariant.                                                          *)

LEMMA AnnouncedInit == Init => AnnouncedInv
<1> SUFFICES ASSUME Init PROVE AnnouncedInv
  OBVIOUS
<1> DEFINE S == InitialPoints \cap Selected
<1>1. S \subseteq Points /\ IsFiniteSet(S)
  BY PointsAssumption, FS_Subset
<1>2. known \in Seq(S) /\ IsInjective(known) /\ ToSet(known) = S
  BY <1>1, SetToSeqLists DEF Init
<1>3. known \in Seq(Points)
  BY <1>1, <1>2, SeqMonotonic
<1>4. added = {} /\ announcements = [p \in Points |-> IF p \in S THEN 1 ELSE 0]
  BY DEF Init
<1> QED
  BY <1>2, <1>3, <1>4 DEF AnnouncedInv

\* The end of a poll announces what it discovered, for the first time.
LEMMA AdvanceKeeps == ASSUME AnnouncedInv, Advance PROVE AnnouncedInv'
<1>1. known' = known
  BY DEF Advance
<1>2. CASE next = Len(known)
  <2>1. /\ added' = {}
        /\ announcements' = [p \in Points |-> announcements[p] + IF p \in added THEN 1 ELSE 0]
    BY <1>2 DEF Advance, Finish
  <2>2. announcements' \in [Points -> {0, 1}]
    BY <2>1 DEF AnnouncedInv
  <2>3. \A p \in Points : announcements'[p] = 1 => p \in ToSet(known)
    BY <2>1 DEF AnnouncedInv
  <2> QED
    BY <1>1, <2>1, <2>2, <2>3 DEF AnnouncedInv
<1>3. CASE next # Len(known)
  BY <1>1, <1>3 DEF Advance, AnnouncedInv
<1> QED
  BY <1>2, <1>3

\* The list adds to `known` what is not in it.
LEMMA ListKeeps == ASSUME AnnouncedInv, ListArrives PROVE AnnouncedInv'
<1> DEFINE new == Discovered(command.reply)
<1>1. /\ added' = new /\ known' = known \o SetToSeq(new)
      /\ announcements' = announcements
  BY DEF ListArrives
<1>2. new \subseteq Points /\ new \cap ToSet(known) = {} /\ IsFiniteSet(new)
  <2>1. new \subseteq Points /\ new \cap ToSet(known) = {}
    BY PointsAssumption DEF Discovered
  <2> QED
    BY <2>1, PointsAssumption, FS_Subset
<1> HIDE DEF new
<1>3. /\ SetToSeq(new) \in Seq(Points) /\ IsInjective(SetToSeq(new))
      /\ ToSet(SetToSeq(new)) = new
  BY <1>2, SetToSeqLists, SeqMonotonic
<1>4. /\ known' \in Seq(Points) /\ IsInjective(known')
      /\ ToSet(known') = ToSet(known) \cup new
  BY <1>1, <1>2, <1>3, ConcatLists DEF AnnouncedInv
<1>5. \A p \in Points : announcements'[p] = 1 => p \in ToSet(known') \ added'
  BY <1>1, <1>2, <1>4 DEF AnnouncedInv
<1> QED
  BY <1>1, <1>4, <1>5 DEF AnnouncedInv

LEMMA AnnouncedStep == AnnouncedInv /\ [Next]_vars => AnnouncedInv'
<1> SUFFICES ASSUME AnnouncedInv, [Next]_vars PROVE AnnouncedInv'
  OBVIOUS
<1>1. ASSUME UNCHANGED <<known, added, announcements>> PROVE AnnouncedInv'
  BY <1>1 DEF AnnouncedInv
<1>2. CASE Server
  BY <1>1, <1>2
  DEF Server, DoorMoves, LinkLost, LinkRestored, ModeChanges, PointRemoved, PointAdded, Change, pollVars
<1>3. CASE Events
  BY <1>1, <1>3 DEF Events, EventsDrop, EventsResume, MissedArrive, ProcessEvent, pollVars
<1>4. CASE PollBegins \/ PollAsks
  BY <1>1, <1>4 DEF PollBegins, PollAsks, pollVars
<1>5. CASE ListArrives
  BY <1>5, ListKeeps
<1>6. CASE PollAnswered \/ PointFails
  BY <1>6, AdvanceKeeps DEF PollAnswered, PointFails
<1>7. CASE PollFails
  BY <1>7 DEF PollFails, AnnouncedInv
<1>8. CASE Refresh
  BY <1>1, <1>8 DEF Refresh, RefreshAsks, RefreshAnswered, RefreshFails, pollVars
<1>9. CASE Control
  BY <1>1, <1>9 DEF Control, SetMode, ModeAnswered, ModeFails, pollVars
<1>10. CASE UNCHANGED vars
  BY <1>1, <1>10 DEF vars, pollVars
<1> QED
  BY <1>2, <1>3, <1>4, <1>5, <1>6, <1>7, <1>8, <1>9, <1>10 DEF Next, Poll

-----------------------------------------------------------------------------
\* However many polls fail half-way, overlap with removals or find the same point,
\* no access point is given to the entity platforms twice, and none is polled
\* twice in one round.
THEOREM PointsAnnouncedOnce == Spec => []AnnouncedOnce
<1>1. AnnouncedInv => AnnouncedOnce
  BY DEF AnnouncedInv, AnnouncedOnce, IsInjective
<1> QED
  BY <1>1, AnnouncedInit, AnnouncedStep, PTL DEF Spec
-----------------------------------------------------------------------------
(* Types.                                                                  *)

\* The commands, each with the kind of reply it is given.
Commands ==
    {NoCommand}
    \cup [by : {"list"}, points : SUBSET Points, reply : SUBSET Points]
    \cup [by : {"poll", "refresh"}, points : {{p} : p \in Points}, reply : Info \cup {Absent}]
    \cup [by : {"mode"}, points : SUBSET Points, reply : Modes \cup {Absent}]

\* A reply is handled by who asked for it; a poll never runs off the end of the
\* list; a refresh in flight is counted.
KindsInv ==
    /\ truth \in [Points -> Info \cup {Absent}]
    /\ live \in BOOLEAN
    /\ queue \in Seq(Event) /\ Len(queue) <= QueueSize
    /\ missed \in Seq(Event)
    /\ known \in Seq(Selected) /\ forgotten \subseteq Selected
    /\ info \in [Points -> Info \cup {Absent}]
    /\ available \in [Points -> BOOLEAN]
    /\ pollAt \in {"idle", "list", "points"} /\ next \in Nat \ {0}
    /\ pollAt = "points" => next <= Len(known)
    /\ refreshing \in [Points -> Nat]
    /\ command \in Commands
    /\ command.by = "refresh" => \A p \in command.points : refreshing[p] > 0
    /\ changes \in Nat /\ drops \in Nat /\ failures \in Nat

\* What an event or an optimistic patch does to a point leaves it a point.
LEMMA PatchType ==
    ASSUME NEW v \in Info
    PROVE  /\ \A d \in {"OPENED", "CLOSED"} : [v EXCEPT !["door"] = d] \in Info
           /\ \A m \in Modes \cup {"OFFLINE"} : [v EXCEPT !["state"] = m] \in Info
BY DEF Info

LEMMA EventType ==
    /\ \A e \in Event :
          /\ e.point \in Points
          /\ e.field \in {"door", "state", "restored", "nothing"}
          /\ e.field = "door" => e.value \in {"OPENED", "CLOSED"}
          /\ e.field = "state" => e.value \in Modes \cup {"OFFLINE"}
          /\ FromHistory(e) \in Event
    /\ \A p \in Points :
          /\ [point |-> p, field |-> "restored"] \in Event
          /\ \A d \in {"OPENED", "CLOSED"} : Patch(p, "door", d) \in Event
          /\ \A m \in Modes \cup {"OFFLINE"} : Patch(p, "state", m) \in Event
<1>1. ASSUME NEW e \in Event
      PROVE  /\ e.point \in Points
             /\ e.field \in {"door", "state", "restored", "nothing"}
             /\ e.field = "door" => e.value \in {"OPENED", "CLOSED"}
             /\ e.field = "state" => e.value \in Modes \cup {"OFFLINE"}
  <2>1. CASE e \in [point : Points, field : {"door"}, value : {"OPENED", "CLOSED"}]
    BY <2>1
  <2>2. CASE e \in [point : Points, field : {"state"}, value : Modes \cup {"OFFLINE"}]
    BY <2>2
  <2>3. CASE e \in [point : Points, field : {"restored", "nothing"}]
    BY <2>3
  <2> QED
    BY <2>1, <2>2, <2>3 DEF Event
<1>2. ASSUME NEW p \in Points, NEW f \in {"restored", "nothing"}
      PROVE  [point |-> p, field |-> f] \in Event
  <2>1. [point |-> p, field |-> f] \in [point : Points, field : {"restored", "nothing"}]
    OBVIOUS
  <2> QED
    BY <2>1 DEF Event
<1>3. ASSUME NEW e \in Event PROVE FromHistory(e) \in Event
  BY <1>1, <1>2 DEF FromHistory
<1>4. ASSUME NEW p \in Points, NEW d \in {"OPENED", "CLOSED"} PROVE Patch(p, "door", d) \in Event
  <2>1. Patch(p, "door", d) \in [point : Points, field : {"door"}, value : {"OPENED", "CLOSED"}]
    BY DEF Patch
  <2> QED
    BY <2>1 DEF Event
<1>5. ASSUME NEW p \in Points, NEW m \in Modes \cup {"OFFLINE"}
      PROVE  Patch(p, "state", m) \in Event
  <2>1. Patch(p, "state", m) \in [point : Points, field : {"state"}, value : Modes \cup {"OFFLINE"}]
    BY DEF Patch
  <2> QED
    BY <2>1 DEF Event
<1> QED
  BY <1>1, <1>2, <1>3, <1>4, <1>5

LEMMA CommandType ==
    /\ NoCommand \in Commands /\ NoCommand.by = "nobody"
    /\ \A c \in Commands :
          /\ c = NoCommand \/ c.by \in {"list", "poll", "refresh", "mode"}
          /\ c.by = "list" => c.reply \subseteq Points
          /\ c.by \in {"poll", "refresh"} =>
                (\E p \in Points : c.points = {p}) /\ c.reply \in Info \cup {Absent}
          /\ c.by = "mode" => c.points \subseteq Points /\ c.reply \in Modes \cup {Absent}
<1>1. NoCommand \in Commands /\ NoCommand.by = "nobody"
  BY DEF Commands, NoCommand
<1>2. ASSUME NEW c \in Commands
      PROVE  /\ c = NoCommand \/ c.by \in {"list", "poll", "refresh", "mode"}
             /\ c.by = "list" => c.reply \subseteq Points
             /\ c.by \in {"poll", "refresh"} =>
                   (\E p \in Points : c.points = {p}) /\ c.reply \in Info \cup {Absent}
             /\ c.by = "mode" => c.points \subseteq Points /\ c.reply \in Modes \cup {Absent}
  <2>1. CASE c = NoCommand
    BY <1>1, <2>1
  <2>2. CASE c \in [by : {"list"}, points : SUBSET Points, reply : SUBSET Points]
    BY <2>2
  <2>3. CASE c \in [by : {"poll", "refresh"}, points : {{p} : p \in Points},
                    reply : Info \cup {Absent}]
    BY <2>3
  <2>4. CASE c \in [by : {"mode"}, points : SUBSET Points, reply : Modes \cup {Absent}]
    BY <2>4
  <2> QED
    BY <2>1, <2>2, <2>3, <2>4 DEF Commands
<1> QED
  BY <1>1, <1>2

\* The commands that are sent.
LEMMA SentType ==
    /\ \A reply \in SUBSET Points : [by |-> "list", points |-> {}, reply |-> reply] \in Commands
    /\ \A b \in {"poll", "refresh"}, p \in Points, reply \in Info \cup {Absent} :
          [by |-> b, points |-> {p}, reply |-> reply] \in Commands
    /\ \A points \in SUBSET Points, reply \in Modes \cup {Absent} :
          [by |-> "mode", points |-> points, reply |-> reply] \in Commands
<1>1. ASSUME NEW reply \in SUBSET Points
      PROVE  [by |-> "list", points |-> {}, reply |-> reply] \in Commands
  <2>1. [by |-> "list", points |-> {}, reply |-> reply]
          \in [by : {"list"}, points : SUBSET Points, reply : SUBSET Points]
    OBVIOUS
  <2> QED
    BY <2>1 DEF Commands
<1>2. ASSUME NEW b \in {"poll", "refresh"}, NEW p \in Points, NEW reply \in Info \cup {Absent}
      PROVE  [by |-> b, points |-> {p}, reply |-> reply] \in Commands
  <2>1. [by |-> b, points |-> {p}, reply |-> reply]
          \in [by : {"poll", "refresh"}, points : {{q} : q \in Points}, reply : Info \cup {Absent}]
    OBVIOUS
  <2> QED
    BY <2>1 DEF Commands
<1>3. ASSUME NEW points \in SUBSET Points, NEW reply \in Modes \cup {Absent}
      PROVE  [by |-> "mode", points |-> points, reply |-> reply] \in Commands
  <2>1. [by |-> "mode", points |-> points, reply |-> reply]
          \in [by : {"mode"}, points : SUBSET Points, reply : Modes \cup {Absent}]
    OBVIOUS
  <2> QED
    BY <2>1 DEF Commands
<1> QED
  BY <1>1, <1>2, <1>3

\* What reaches the queue, and what waits for the subscription.
LEMMA PushType ==
    ASSUME KindsInv, NEW events \in Seq(Event)
    PROVE  /\ Queued(events) \in Seq(Event) /\ Len(Queued(events)) <= QueueSize
           /\ Push(events) => /\ queue' \in Seq(Event) /\ Len(queue') <= QueueSize
                              /\ missed' \in Seq(Event)
<1>0. QueueSize \in Nat /\ queue \in Seq(Event) /\ missed \in Seq(Event)
      /\ Len(queue) <= QueueSize
  BY ValuesAssumption DEF KindsInv
<1> DEFINE all == queue \o events
           n == IF Len(all) <= QueueSize THEN Len(all) ELSE QueueSize
<1>1. all \in Seq(Event) /\ Len(all) \in Nat
  BY <1>0, ConcatProperties, LenProperties
<1> HIDE DEF all
<1>2. n \in 0 .. Len(all) /\ n <= QueueSize
  BY <1>0, <1>1
<1> HIDE DEF n
<1>3. SubSeq(all, 1, n) \in Seq(Event) /\ Len(SubSeq(all, 1, n)) = n
  BY <1>1, <1>2, SubSeqProperties
<1>4. Queued(events) = SubSeq(all, 1, n)
  BY DEF Queued, all, n
<1>5. Queued(events) \in Seq(Event) /\ Len(Queued(events)) <= QueueSize
  BY <1>2, <1>3, <1>4
<1>6. missed \o events \in Seq(Event)
  BY <1>0, ConcatProperties
<1> QED
  BY <1>0, <1>5, <1>6 DEF Push

\* The server's points change and an event is pushed.
LEMMA KindsServer ==
    ASSUME KindsInv, Server
    PROVE  KindsInv'
<1>1. ASSUME NEW p \in Points, NEW value \in Info \cup {Absent}, NEW events \in Seq(Event),
             Change(p, value, events)
      PROVE  KindsInv'
  <2>1. queue' \in Seq(Event) /\ Len(queue') <= QueueSize /\ missed' \in Seq(Event)
    BY <1>1, PushType DEF Change
  <2>2. truth' \in [Points -> Info \cup {Absent}] /\ changes' \in Nat
    BY <1>1 DEF Change, KindsInv
  <2>3. UNCHANGED <<live, drops, stateVars, pollVars, refreshing, command, failures>>
    BY <1>1 DEF Change
  <2> QED
    BY <2>1, <2>2, <2>3 DEF KindsInv, stateVars, pollVars
<1>2. \A e \in Event : <<e>> \in Seq(Event)
  OBVIOUS
<1>3. <<>> \in Seq(Event)
  BY EmptySeq
<1>4. PICK p \in Points :
        \/ DoorMoves(p) \/ LinkLost(p) \/ LinkRestored(p) \/ ModeChanges(p)
        \/ PointRemoved(p) \/ PointAdded(p)
  BY DEF Server
<1>5. truth[p] # Absent => truth[p] \in Info
  BY DEF KindsInv
<1>6. CASE DoorMoves(p)
  <2> DEFINE door == IF truth[p].door = "OPENED" THEN "CLOSED" ELSE "OPENED"
  <2>1. truth[p] \in Info /\ Change(p, Patched(p, "door", door), <<Patch(p, "door", door)>>)
    BY <1>5, <1>6 DEF DoorMoves, Online
  <2>2. door \in {"OPENED", "CLOSED"}
    OBVIOUS
  <2> HIDE DEF door
  <2>3. Patched(p, "door", door) \in Info /\ Patch(p, "door", door) \in Event
    BY <2>1, <2>2, PatchType, EventType DEF Patched
  <2> QED
    BY <1>1, <1>2, <2>1, <2>3
<1>7. CASE LinkLost(p)
  <2>1. truth[p] \in Info /\ Change(p, Patched(p, "state", "OFFLINE"), <<Patch(p, "state", "OFFLINE")>>)
    BY <1>5, <1>7 DEF LinkLost, Online
  <2>2. Patched(p, "state", "OFFLINE") \in Info /\ Patch(p, "state", "OFFLINE") \in Event
    BY <2>1, PatchType, EventType DEF Patched
  <2> QED
    BY <1>1, <1>2, <2>1, <2>2
<1>8. CASE LinkRestored(p)
  <2>1. PICK m \in Modes :
          Change(p, Patched(p, "state", m), <<[point |-> p, field |-> "restored"]>>)
    BY <1>8 DEF LinkRestored
  <2>2. Patched(p, "state", m) \in Info /\ [point |-> p, field |-> "restored"] \in Event
    BY <1>5, <1>8, PatchType, EventType DEF Patched, LinkRestored
  <2> QED
    BY <1>1, <1>2, <2>1, <2>2
<1>9. CASE ModeChanges(p)
  <2>1. PICK m \in Modes : Change(p, Patched(p, "state", m), <<Patch(p, "state", m)>>)
    BY <1>9 DEF ModeChanges
  <2>2. Patched(p, "state", m) \in Info /\ Patch(p, "state", m) \in Event
    BY <1>5, <1>9, PatchType, EventType DEF Patched, ModeChanges, Online
  <2> QED
    BY <1>1, <1>2, <2>1, <2>2
<1>10. CASE PointRemoved(p)
  BY <1>1, <1>3, <1>10 DEF PointRemoved
<1>11. CASE PointAdded(p)
  BY <1>1, <1>3, <1>11 DEF PointAdded
<1> QED
  BY <1>4, <1>6, <1>7, <1>8, <1>9, <1>10, <1>11

\* The subscription drops and comes back, and the worker applies events.
LEMMA KindsEvents ==
    ASSUME KindsInv, Events
    PROVE  KindsInv'
<1>1. CASE EventsDrop \/ EventsResume
  <2>1. live' \in BOOLEAN
    BY <1>1, Zenon DEF EventsDrop, EventsResume
  <2>2. drops' \in Nat
    BY <1>1 DEF EventsDrop, EventsResume, KindsInv
  <2>3. UNCHANGED <<serverVars, queue, missed, stateVars, pollVars, refreshing, command, failures>>
    BY <1>1 DEF EventsDrop, EventsResume
  <2> QED
    BY <2>1, <2>2, <2>3 DEF KindsInv, serverVars, stateVars, pollVars
<1>2. CASE MissedArrive
  <2> DEFINE history == [i \in DOMAIN missed |-> FromHistory(missed[i])]
  <2>1. missed \in Seq(Event) /\ queue \in Seq(Event) /\ Len(queue) <= QueueSize
    BY DEF KindsInv
  <2>2. history \in Seq(Event)
    <3>1. Len(missed) \in Nat /\ DOMAIN missed = 1 .. Len(missed)
      BY <2>1, LenProperties
    <3>2. \A i \in 1 .. Len(missed) : FromHistory(missed[i]) \in Event
      BY <2>1, <3>1, EventType, ElementOfSeq
    <3>3. history \in [1 .. Len(missed) -> Event]
      BY <3>1, <3>2
    <3> QED
      BY <3>1, <3>3
  <2>3. queue' = queue \/ queue' = Queued(history)
    BY <1>2 DEF MissedArrive
  <2> HIDE DEF history
  <2>4. queue' \in Seq(Event) /\ Len(queue') <= QueueSize
    BY <2>1, <2>2, <2>3, PushType
  <2>5. missed' \in Seq(Event)
    BY <1>2, EmptySeq DEF MissedArrive
  <2>6. UNCHANGED <<serverVars, live, drops, stateVars, pollVars, refreshing, command, failures>>
    BY <1>2 DEF MissedArrive
  <2> QED
    BY <2>4, <2>5, <2>6 DEF KindsInv, serverVars, stateVars, pollVars
<1>3. CASE ProcessEvent
  <2> DEFINE e == Head(queue)
  <2>1. queue # <<>> /\ queue' = Tail(queue) /\ queue \in Seq(Event)
        /\ Len(queue) <= QueueSize
    BY <1>3 DEF ProcessEvent, KindsInv
  <2>2. e \in Event /\ queue' \in Seq(Event) /\ Len(queue') <= QueueSize
    <3>1. /\ e \in Event /\ Tail(queue) \in Seq(Event)
          /\ Len(Tail(queue)) = Len(queue) - 1 /\ Len(queue) \in Nat
      BY <2>1, HeadTailProperties, LenProperties
    <3>2. Len(queue) - 1 <= QueueSize
      BY <2>1, <3>1, ValuesAssumption
    <3> QED
      BY <2>1, <3>1, <3>2
  <2>3. UNCHANGED <<serverVars, live, missed, drops, available, pollVars, command, failures>>
    BY <1>3 DEF ProcessEvent
  <2>4. \/ UNCHANGED <<info, refreshing>>
        \/ /\ refreshing' = [refreshing EXCEPT ![e.point] = @ + 1]
           /\ UNCHANGED info
        \/ /\ info[e.point] # Absent /\ e.field # "nothing" /\ e.field # "restored"
           /\ info' = [info EXCEPT ![e.point][e.field] = e.value]
           /\ UNCHANGED refreshing
    BY <1>3 DEF ProcessEvent
  <2> HIDE DEF e
  <2>5. e.point \in Points
    BY <2>2, EventType
  <2>6. info' \in [Points -> Info \cup {Absent}]
    <3>1. CASE info' = info
      BY <3>1 DEF KindsInv
    <3>2. CASE /\ info[e.point] # Absent /\ e.field # "nothing" /\ e.field # "restored"
               /\ info' = [info EXCEPT ![e.point][e.field] = e.value]
      <4>1. info[e.point] \in Info
        BY <2>5, <3>2 DEF KindsInv
      <4>2. [info[e.point] EXCEPT ![e.field] = e.value] \in Info
        <5>1. CASE e.field = "door"
          BY <2>2, <4>1, <5>1, EventType, PatchType
        <5>2. CASE e.field = "state"
          BY <2>2, <4>1, <5>2, EventType, PatchType
        <5> QED
          BY <2>2, <3>2, <5>1, <5>2, EventType
      <4>3. info' = [info EXCEPT ![e.point] = [info[e.point] EXCEPT ![e.field] = e.value]]
        BY <3>2
      <4> QED
        BY <2>5, <4>2, <4>3 DEF KindsInv
    <3> QED
      BY <2>4, <3>1, <3>2
  <2>7. refreshing' \in [Points -> Nat] /\ \A p \in Points : refreshing'[p] >= refreshing[p]
    <3>1. refreshing \in [Points -> Nat]
      BY DEF KindsInv
    <3>2. CASE refreshing' = refreshing
      BY <3>1, <3>2
    <3>3. CASE refreshing' = [refreshing EXCEPT ![e.point] = @ + 1]
      BY <2>5, <3>1, <3>3
    <3> QED
      BY <2>4, <3>2, <3>3
  <2>8. command'.by = "refresh" => \A p \in command'.points : refreshing'[p] > 0
    <3>1. ASSUME command.by = "refresh", NEW p \in command.points PROVE refreshing'[p] > 0
      <4>1. p \in Points /\ refreshing[p] > 0
        BY <3>1, CommandType DEF KindsInv
      <4>2. refreshing'[p] \in Nat /\ refreshing[p] \in Nat /\ refreshing'[p] >= refreshing[p]
        BY <2>7, <4>1 DEF KindsInv
      <4> QED
        BY <4>1, <4>2
    <3> QED
      BY <2>3, <3>1
  <2> QED
    BY <2>2, <2>3, <2>6, <2>7, <2>8 DEF KindsInv, serverVars, pollVars
<1> QED
  BY <1>1, <1>2, <1>3 DEF Events

\* A command is sent: its reply is what the server has.
LEMMA KindsSend ==
    ASSUME KindsInv, NEW by, NEW points, NEW reply, Send(by, points, reply),
           [by |-> by, points |-> points, reply |-> reply] \in Commands,
           by = "refresh" => \A p \in points : refreshing[p] > 0,
           UNCHANGED <<live, known, forgotten, next, refreshing, stateVars, drops, failures>>,
           truth' \in [Points -> Info \cup {Absent}], changes' \in Nat,
           queue' \in Seq(Event) /\ Len(queue') <= QueueSize, missed' \in Seq(Event),
           pollAt' \in {"idle", "list", "points"}, pollAt' = "points" => pollAt = "points"
    PROVE  KindsInv'
<1>1. command' = [by |-> by, points |-> points, reply |-> reply]
  BY DEF Send
<1>2. command' \in Commands /\ command'.by = by /\ command'.points = points
  BY <1>1
<1> QED
  BY <1>2 DEF KindsInv, stateVars

\* What goes on when a poll has asked its last point, or asks the next.
LEMMA KindsAdvance ==
    ASSUME KindsInv, pollAt = "points", Advance
    PROVE  /\ next' \in Nat \ {0} /\ pollAt' \in {"idle", "points"}
           /\ pollAt' = "points" => next' <= Len(known)
           /\ UNCHANGED <<known, forgotten>>
<1>1. next \in Nat \ {0} /\ next <= Len(known) /\ Len(known) \in Nat
  BY LenProperties DEF KindsInv
<1>2. next' = next + 1 /\ UNCHANGED <<known, forgotten>>
  BY DEF Advance
<1>3. next = Len(known) \/ pollAt' = pollAt
  BY DEF Advance
<1>4. next = Len(known) => pollAt' = "idle"
  BY DEF Advance, Finish
<1> QED
  BY <1>1, <1>2, <1>3, <1>4

\* The steps of async_poll.
LEMMA KindsPoll ==
    ASSUME KindsInv, AnnouncedInv, Poll
    PROVE  KindsInv'
<1>0. Points \in SUBSET Points /\ Selected \subseteq Points
  BY PointsAssumption
<1>1. NoCommand \in Commands /\ NoCommand.by # "refresh"
  BY CommandType
<1>2. ASSUME command' = NoCommand, UNCHANGED <<serverVars, eventVars, refreshing>>,
             failures' \in Nat, info' \in [Points -> Info \cup {Absent}],
             available' \in [Points -> BOOLEAN], known' \in Seq(Selected),
             forgotten' \subseteq Selected, next' \in Nat \ {0},
             pollAt' \in {"idle", "list", "points"},
             pollAt' = "points" => next' <= Len(known')
      PROVE  KindsInv'
  BY <1>1, <1>2 DEF KindsInv, serverVars, eventVars
<1>3. pollAt = "points" => known[next] \in Points
  <2>1. ASSUME pollAt = "points" PROVE known[next] \in Selected
    <3>1. next \in 1 .. Len(known) /\ known \in Seq(Selected)
      BY <2>1, LenProperties DEF KindsInv
    <3> QED
      BY <3>1, ElementOfSeq
  <2> QED
    BY <1>0, <2>1
<1>4. CASE PollBegins
  <2>1. {p \in Points : truth[p] # Absent} \in SUBSET Points
    OBVIOUS
  <2>2. /\ Send("list", {}, {p \in Points : truth[p] # Absent})
        /\ pollAt' = "list"
        /\ UNCHANGED <<serverVars, eventVars, stateVars, known, next, forgotten, refreshing, failures>>
    BY <1>4 DEF PollBegins
  <2>3. /\ truth' \in [Points -> Info \cup {Absent}] /\ changes' \in Nat
        /\ queue' \in Seq(Event) /\ Len(queue') <= QueueSize /\ missed' \in Seq(Event)
        /\ UNCHANGED <<live, drops>>
    BY <2>2 DEF KindsInv, serverVars, eventVars
  <2> QED
    BY <2>1, <2>2, <2>3, SentType, KindsSend
<1>5. CASE PollAsks
  <2>1. /\ Send("poll", {known[next]}, truth[known[next]]) /\ pollAt = "points"
        /\ UNCHANGED <<serverVars, eventVars, stateVars, pollVars, refreshing, failures>>
    BY <1>5 DEF PollAsks
  <2>2. known[next] \in Points /\ truth[known[next]] \in Info \cup {Absent}
    BY <1>3, <2>1 DEF KindsInv
  <2>3. [by |-> "poll", points |-> {known[next]}, reply |-> truth[known[next]]] \in Commands
    BY <2>2, SentType
  <2>4. /\ truth' \in [Points -> Info \cup {Absent}] /\ changes' \in Nat
        /\ queue' \in Seq(Event) /\ Len(queue') <= QueueSize /\ missed' \in Seq(Event)
        /\ UNCHANGED <<live, drops, known, forgotten, next, pollAt>>
    BY <2>1 DEF KindsInv, serverVars, eventVars, pollVars
  <2>5. pollAt' \in {"idle", "list", "points"} /\ (pollAt' = "points" => pollAt = "points")
    BY <2>1, <2>4
  <2> DEFINE p == known[next]
             reply == truth[p]
  <2>6. /\ Send("poll", {p}, reply) /\ [by |-> "poll", points |-> {p}, reply |-> reply] \in Commands
        /\ UNCHANGED <<refreshing, failures, stateVars>>
    BY <2>1, <2>3
  <2> HIDE DEF p, reply
  <2> QED
    BY <2>4, <2>5, <2>6, KindsSend
<1>6. CASE ListArrives
  <2> DEFINE new == Discovered(command.reply)
  <2>1. /\ known' = known \o SetToSeq(new) /\ command' = NoCommand
        /\ pollAt' = (IF known' = <<>> THEN "idle" ELSE "points") /\ next' = 1
        /\ UNCHANGED <<serverVars, eventVars, info, forgotten, refreshing, failures>>
    BY <1>6 DEF ListArrives
  <2>2. new \subseteq Selected /\ IsFiniteSet(new)
    <3>1. new \subseteq Selected
      BY DEF Discovered
    <3> QED
      BY <1>0, <3>1, PointsAssumption, FS_Subset
  <2> HIDE DEF new
  <2>3. SetToSeq(new) \in Seq(Selected)
    BY <2>2, SetToSeqLists, SeqMonotonic
  <2>4. known' \in Seq(Selected)
    BY <2>1, <2>3, ConcatProperties DEF KindsInv
  <2>5. known' # <<>> => 1 <= Len(known')
    BY <2>4, EmptySeq, LenProperties
  <2>6. available' \in [Points -> BOOLEAN]
    <3>1. available' = [p \in Points |->
                          available[p] /\ (p \in ToSet(known) => p \in command.reply)]
      BY <1>6 DEF ListArrives
    <3>2. \A p \in Points :
            (available[p] /\ (p \in ToSet(known) => p \in command.reply)) \in BOOLEAN
      BY Zenon
    <3> QED
      BY <3>1, <3>2, Zenon
  <2>7. /\ failures' \in Nat /\ info' \in [Points -> Info \cup {Absent}]
        /\ forgotten' \subseteq Selected
    BY <2>1 DEF KindsInv
  <2>8. next' \in Nat \ {0} /\ pollAt' \in {"idle", "list", "points"}
        /\ (pollAt' = "points" => next' <= Len(known'))
    BY <2>1, <2>5
  <2> QED
    BY <1>2, <2>1, <2>4, <2>6, <2>7, <2>8
<1>7. CASE PollAnswered \/ PointFails
  <2> DEFINE p == known[next]
  <2>1. /\ pollAt = "points" /\ Replied("poll") /\ Advance /\ command' = NoCommand
        /\ UNCHANGED <<serverVars, eventVars, refreshing>>
    BY <1>7 DEF PollAnswered, PointFails
  <2>2. p \in Points /\ command.reply \in Info \cup {Absent}
    BY <1>3, <2>1, CommandType DEF Replied, KindsInv
  <2>3. \/ available' = [available EXCEPT ![p] = FALSE] /\ UNCHANGED info
        \/ TakeInfo(p, command.reply)
    BY <1>7 DEF PollAnswered, PointFails
  <2>4. failures' \in Nat
    BY <1>7 DEF PollAnswered, PointFails, Fails, KindsInv
  <2> HIDE DEF p
  <2>5. info' \in [Points -> Info \cup {Absent}]
    BY <2>2, <2>3 DEF TakeInfo, KindsInv
  <2>6. available' \in [Points -> BOOLEAN]
    <3>1. available' = [available EXCEPT ![p] = FALSE] \/ available' = [available EXCEPT ![p] = TRUE]
      BY <2>3 DEF TakeInfo
    <3>2. available \in [Points -> BOOLEAN]
      BY DEF KindsInv
    <3> QED
      BY <2>2, <3>1, <3>2
  <2>7. /\ next' \in Nat \ {0} /\ pollAt' \in {"idle", "list", "points"}
        /\ pollAt' = "points" => next' <= Len(known')
        /\ known' \in Seq(Selected) /\ forgotten' \subseteq Selected
    BY <2>1, KindsAdvance DEF KindsInv
  <2> QED
    BY <1>2, <2>1, <2>4, <2>5, <2>6, <2>7
<1>8. CASE PollFails
  <2>1. /\ pollAt' = "idle" /\ forgotten' = forgotten \cup added
        /\ command' = (IF command.by \in {"list", "poll"} THEN NoCommand ELSE command)
        /\ UNCHANGED <<serverVars, eventVars, stateVars, known, next, refreshing>>
    BY <1>8 DEF PollFails
  <2>2. failures' \in Nat
    BY <1>8 DEF PollFails, Fails, KindsInv
  <2>3. forgotten' \subseteq Selected
    <3>1. known \in Seq(Selected) /\ added \subseteq ToSet(known) /\ forgotten \subseteq Selected
      BY DEF KindsInv, AnnouncedInv
    <3>2. ToSet(known) \subseteq Selected
      BY <3>1, LenProperties, ElementOfSeq DEF ToSet
    <3> QED
      BY <2>1, <3>1, <3>2
  <2>4. command' \in Commands /\ (command' = command \/ command'.by # "refresh")
    BY <1>1, <2>1 DEF KindsInv
  <2> QED
    BY <2>1, <2>2, <2>3, <2>4 DEF KindsInv, serverVars, eventVars, stateVars
<1> QED
  BY <1>4, <1>5, <1>6, <1>7, <1>8 DEF Poll

\* The steps of _async_refresh_one.
LEMMA KindsRefresh ==
    ASSUME KindsInv, Refresh
    PROVE  KindsInv'
<1>1. ASSUME NEW p \in Points, RefreshAsks(p) PROVE KindsInv'
  <2>1. /\ Send("refresh", {p}, truth[p]) /\ refreshing[p] > 0
        /\ UNCHANGED <<serverVars, eventVars, stateVars, pollVars, refreshing, failures>>
    BY <1>1 DEF RefreshAsks
  <2>2. [by |-> "refresh", points |-> {p}, reply |-> truth[p]] \in Commands
    BY SentType DEF KindsInv
  <2>3. /\ truth' \in [Points -> Info \cup {Absent}] /\ changes' \in Nat
        /\ queue' \in Seq(Event) /\ Len(queue') <= QueueSize /\ missed' \in Seq(Event)
        /\ UNCHANGED <<live, drops, known, forgotten, next, pollAt>>
        /\ pollAt' \in {"idle", "list", "points"}
    BY <2>1 DEF KindsInv, serverVars, eventVars, pollVars
  <2> QED
    BY <2>1, <2>2, <2>3, KindsSend
<1>2. CASE RefreshAnswered \/ RefreshFails
  <2>1. /\ RefreshEnds /\ command.by = "refresh"
        /\ UNCHANGED <<serverVars, eventVars, pollVars>>
    BY <1>2 DEF RefreshAnswered, RefreshFails, RefreshEnds, Replied
  <2>2. PICK p \in Points : command.points = {p}
    BY <2>1, CommandType DEF KindsInv
  <2>3. command.reply \in Info \cup {Absent}
    BY <2>1, CommandType DEF KindsInv
  <2>4. command' = NoCommand /\ refreshing' = [refreshing EXCEPT ![p] = @ - 1]
    BY <2>1, <2>2 DEF RefreshEnds
  <2>5. refreshing' \in [Points -> Nat]
    <3>1. refreshing \in [Points -> Nat] /\ refreshing[p] > 0
      BY <2>1, <2>2 DEF KindsInv
    <3>2. refreshing[p] - 1 \in Nat
      BY <3>1
    <3> QED
      BY <2>4, <3>1, <3>2
  <2>6. UNCHANGED stateVars \/ TakeInfo(p, command.reply)
    BY <1>2, <2>2 DEF RefreshAnswered, RefreshFails
  <2>7. info' \in [Points -> Info \cup {Absent}]
    BY <2>3, <2>6 DEF TakeInfo, KindsInv, stateVars
  <2>8. available' \in [Points -> BOOLEAN]
    <3>1. available' = available \/ available' = [available EXCEPT ![p] = TRUE]
      BY <2>6 DEF TakeInfo, stateVars
    <3>2. available \in [Points -> BOOLEAN]
      BY DEF KindsInv
    <3> QED
      BY <3>1, <3>2
  <2>9. failures' \in Nat
    BY <1>2 DEF RefreshAnswered, RefreshFails, Fails, KindsInv
  <2>10. command' \in Commands /\ command'.by # "refresh"
    BY <2>4, CommandType
  <2> QED
    BY <2>1, <2>5, <2>7, <2>8, <2>9, <2>10 DEF KindsInv, serverVars, eventVars, pollVars
<1> QED
  BY <1>1, <1>2 DEF Refresh

\* The steps of async_set_mode.
LEMMA KindsControl ==
    ASSUME KindsInv, Control
    PROVE  KindsInv'
<1>1. CASE SetMode
  <2>1. PICK points \in SUBSET ToSet(known) \ {{}}, m \in Modes :
          LET accepted == \A p \in points : truth[p] # Absent
              moved == {p \in points : accepted /\ Online(p) /\ truth[p].state # m}
          IN  /\ Send("mode", points, IF accepted THEN m ELSE Absent)
              /\ truth' = [p \in Points |-> IF p \in moved THEN Patched(p, "state", m)
                                            ELSE truth[p]]
              /\ Push(SetToSeq({Patch(p, "state", m) : p \in moved}))
    BY <1>1 DEF SetMode
  <2> DEFINE accepted == \A p \in points : truth[p] # Absent
             moved == {p \in points : accepted /\ Online(p) /\ truth[p].state # m}
             events == {Patch(p, "state", m) : p \in moved}
             reply == IF accepted THEN m ELSE Absent
  <2>2. points \subseteq Points
    <3>1. known \in Seq(Selected)
      BY DEF KindsInv
    <3> QED
      BY <3>1, PointsAssumption, LenProperties, ElementOfSeq DEF ToSet
  <2>3. moved \subseteq Points /\ \A p \in moved : truth[p] \in Info
    BY <2>2 DEF KindsInv, Online
  <2>4. reply \in Modes \cup {Absent}
    OBVIOUS
  <2>5. /\ Send("mode", points, reply)
        /\ truth' = [p \in Points |-> IF p \in moved THEN Patched(p, "state", m) ELSE truth[p]]
        /\ Push(SetToSeq(events))
    BY <2>1
  <2> HIDE DEF accepted, moved, reply
  <2>6. truth' \in [Points -> Info \cup {Absent}]
    <3>1. \A p \in moved : Patched(p, "state", m) \in Info
      BY <2>3, PatchType DEF Patched
    <3>2. \A p \in Points : truth[p] \in Info \cup {Absent}
      BY DEF KindsInv
    <3> QED
      BY <2>5, <3>1, <3>2
  <2>7. events \subseteq Event /\ IsFiniteSet(events)
    <3> DEFINE f == [p \in moved |-> Patch(p, "state", m)]
    <3>1. f \in Surjection(moved, events)
      BY DEF Surjection
    <3>2. IsFiniteSet(moved)
      BY <2>3, PointsAssumption, FS_Subset
    <3>3. events \subseteq Event
      BY <2>3, EventType
    <3> QED
      BY <3>1, <3>2, <3>3, FS_Surjection
  <2> HIDE DEF events
  <2>8. SetToSeq(events) \in Seq(Event)
    BY <2>7, SetToSeqLists, SeqMonotonic
  <2>9. queue' \in Seq(Event) /\ Len(queue') <= QueueSize /\ missed' \in Seq(Event)
    BY <2>5, <2>8, PushType
  <2>10. [by |-> "mode", points |-> points, reply |-> reply] \in Commands
    BY <2>2, <2>4, SentType
  <2>11. /\ changes' \in Nat
         /\ UNCHANGED <<live, drops, stateVars, known, forgotten, next, pollAt, refreshing, failures>>
         /\ pollAt' \in {"idle", "list", "points"}
    BY <1>1 DEF SetMode, KindsInv, pollVars
  <2> QED
    BY <2>5, <2>6, <2>9, <2>10, <2>11, KindsSend
<1>2. CASE ModeAnswered
  <2>1. /\ command.by = "mode" /\ command' = NoCommand
        /\ UNCHANGED <<serverVars, eventVars, available, pollVars, refreshing, failures>>
        /\ info' = [p \in Points |->
                      IF p \in command.points /\ command.reply # Absent
                         /\ info[p] # Absent /\ info[p].state # "OFFLINE"
                      THEN [info[p] EXCEPT !.state = command.reply] ELSE info[p]]
    BY <1>2 DEF ModeAnswered, Replied
  <2>2. command.reply # Absent => command.reply \in Modes
    BY <2>1, CommandType DEF KindsInv
  <2>3. ASSUME NEW p \in Points, info[p] # Absent, command.reply # Absent
        PROVE  [info[p] EXCEPT !.state = command.reply] \in Info
    <3>1. info[p] \in Info
      BY <2>3 DEF KindsInv
    <3> QED
      BY <2>2, <2>3, <3>1, PatchType
  <2>4. info' \in [Points -> Info \cup {Absent}]
    <3>1. \A p \in Points : info[p] \in Info \cup {Absent}
      BY DEF KindsInv
    <3> QED
      BY <2>1, <2>3, <3>1
  <2>5. command' \in Commands /\ command'.by # "refresh"
    BY <2>1, CommandType
  <2> QED
    BY <2>1, <2>4, <2>5 DEF KindsInv, serverVars, eventVars, pollVars
<1>3. CASE ModeFails
  <2>1. command' \in Commands /\ command'.by # "refresh"
    BY <1>3, CommandType DEF ModeFails
  <2>2. failures' \in Nat
    BY <1>3 DEF ModeFails, Fails, KindsInv
  <2>3. UNCHANGED <<serverVars, eventVars, stateVars, pollVars, refreshing>>
    BY <1>3 DEF ModeFails
  <2> QED
    BY <2>1, <2>2, <2>3 DEF KindsInv, serverVars, eventVars, stateVars, pollVars
<1> QED
  BY <1>1, <1>2, <1>3 DEF Control

LEMMA KindsInit == Init => KindsInv
<1> SUFFICES ASSUME Init PROVE KindsInv
  OBVIOUS
<1> DEFINE S == InitialPoints \cap Selected
<1>1. S \subseteq Points /\ S \subseteq Selected /\ IsFiniteSet(S)
  BY PointsAssumption, FS_Subset
<1>2. known = SetToSeq(S)
  BY DEF Init
<1>3. known \in Seq(Selected)
  BY <1>1, <1>2, SetToSeqLists, SeqMonotonic
<1>4. info \in [Points -> Info \cup {Absent}]
  BY <1>1 DEF Init
<1>5. queue \in Seq(Event) /\ Len(queue) <= QueueSize /\ missed \in Seq(Event)
  BY EmptySeq, ValuesAssumption DEF Init
<1>6. command \in Commands /\ command.by # "refresh"
  BY CommandType DEF Init
<1> QED
  BY <1>3, <1>4, <1>5, <1>6 DEF Init, KindsInv

\* Every variable keeps its type, whatever fails: each reply has the kind its asker
\* expects, the event queue stays within its size, a poll stays within its list.
THEOREM TypeCorrect == Spec => []TypeOK
<1>1. KindsInv /\ AnnouncedInv /\ [Next]_vars => KindsInv'
  <2> SUFFICES ASSUME KindsInv, AnnouncedInv, [Next]_vars PROVE KindsInv'
    OBVIOUS
  <2>1. CASE UNCHANGED vars
    BY <2>1 DEF vars, serverVars, eventVars, stateVars, pollVars, KindsInv
  <2> QED
    BY <2>1, KindsServer, KindsEvents, KindsPoll, KindsRefresh, KindsControl DEF Next
<1>2. KindsInv /\ AnnouncedInv => TypeOK
  <2> SUFFICES ASSUME KindsInv, AnnouncedInv PROVE TypeOK
    OBVIOUS
  <2>1. command = NoCommand \/ command.by \in {"list", "poll", "refresh", "mode"}
    BY CommandType DEF KindsInv
  <2>2. added \subseteq ToSet(known) /\ announcements \in [Points -> Nat]
    BY DEF AnnouncedInv
  <2> QED
    BY <2>1, <2>2 DEF KindsInv, TypeOK
<1> QED
  BY <1>1, <1>2, KindsInit, AnnouncedInit, AnnouncedStep, PTL DEF Spec
=============================================================================
