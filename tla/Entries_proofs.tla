---------------------------- MODULE Entries_proofs ----------------------------
(***************************************************************************)
(* Theorems about Entries, for any number of entries, dialogs, access      *)
(* points, set-ups and errors.                                             *)
(***************************************************************************)
EXTENDS Entries, FiniteSetTheorems, TLAPS

Flows == {Closed}
         \cup [kind : {"user", "reconfigure", "reauth"}, entry : Entries \cup {Free},
               address : Addresses \cup {Free}]
         \cup [kind : {"listing"}, entry : Entries]
         \cup [kind : {"shown"}, entry : Entries, shown : SUBSET Points]
         \cup [kind : {"submitted"}, entry : Entries, shown : SUBSET Points, chosen : SUBSET Points]

\* Stored options of every entry.
AreOptions(f) ==
    /\ f = [e \in Entries |-> f[e]]
    /\ \A e \in Entries : /\ f[e] = [s \in Sections |-> f[e][s]]
                          /\ f[e]["points"] \subseteq Points

Places == SettingUp \cup Stuck \cup {"unloaded", "loaded", "unloading"}

TypeInv ==
    /\ address \in [Entries -> Addresses \cup {Free}]
    /\ AreOptions(options) /\ AreOptions(hubOptions)
    /\ pc \in [Entries -> Places]
    /\ runtime \in [Entries -> BOOLEAN] /\ reload \in [Entries -> BOOLEAN]
    /\ early \in [Entries -> BOOLEAN]
    /\ known \in [Entries -> SUBSET Points] /\ available \in [Entries -> SUBSET Points]
    /\ devices \in [Entries -> SUBSET Points] /\ unwanted \in [Entries -> SUBSET Points]
    /\ dialog \in [Dialogs -> Flows]
    /\ static \in BOOLEAN /\ route \in BOOLEAN /\ panel \in BOOLEAN
    /\ overlap \in BOOLEAN /\ replaced \in BOOLEAN

\* A dialog that creates an entry has its address to itself, among such dialogs
\* always, and among the entries until a reconfiguration takes an address between
\* another dialog's check and its end.
ServersInv ==
    /\ \A d, o \in Dialogs :
          dialog[d].kind = "user" /\ dialog[o].kind = "user" /\ dialog[d].address = dialog[o].address => d = o
    /\ overlap \/ ( /\ ~replaced
                    /\ \A e, f \in Entries : e # f /\ address[e] = address[f] => address[e] = Free
                    /\ \A d \in Dialogs : dialog[d].kind = "user" => Taken(dialog[d].address) = {} )

\* From the moment its hub reads them, an entry's options are the hub's, or a
\* reload is waiting, or they were saved before there was a listener.
OptionsInv ==
    \A e \in Entries :
        pc[e] \in SettingUp \cup {"loaded"} /\ ~reload[e] /\ ~early[e] => hubOptions[e] = options[e]

\* A filter, stored or in use, leaves out only points that were unwanted.
LeavesOut(o, S) == o["points"] # {} => Points \ o["points"] \subseteq S
FilterInv ==
    \A e \in Entries : LeavesOut(options[e], unwanted[e]) /\ LeavesOut(hubOptions[e], unwanted[e])

\* The count is that of the entries that hold the panel; the first of them
\* registers it, and nobody else does meanwhile.
Held == {"hashing", "loaded", "unloading"} \cup Stuck
Holding == {e \in Entries : pc[e] \in Held}
PanelInv ==
    /\ count = Cardinality(Holding)
    /\ (\E e \in Entries : pc[e] = "static") \/ Holding # {} => static
    /\ static => route \/ \E e \in Entries : pc[e] = "static"
    /\ \/ \E e \in Entries : pc[e] = "failed"
       \/ \E e \in Entries : pc[e] = "hashing" /\ ~panel /\ \A f \in Entries : pc[f] = "hashing" => f = e
       \/ (\A e \in Entries : pc[e] # "hashing") /\ (panel <=> Holding # {})

IInv == TypeInv /\ ServersInv /\ OptionsInv /\ FilterInv /\ PanelInv

-----------------------------------------------------------------------------
(* What several actions share.                                             *)

\* What a dialog refers to, by its kind.
LEMMA FlowFields ==
    ASSUME NEW r \in Flows
    PROVE  /\ r.kind \in {"listing", "shown", "submitted"} => r.entry \in Entries
           /\ r.kind \in {"shown", "submitted"} => r.shown \subseteq Points
           /\ r.kind = "submitted" => r.chosen \subseteq Points
  BY DEF Flows, Closed

\* Saving changes one section of one entry's options.
LEMMA SaveOne ==
    ASSUME TypeInv, NEW e \in Entries, NEW section \in Sections, NEW value,
           section = "points" => value \subseteq Points, Save(e, section, value)
    PROVE  /\ AreOptions(options')
           /\ reload' \in [Entries -> BOOLEAN] /\ early' \in [Entries -> BOOLEAN]
           /\ \A f \in Entries : f # e => options'[f] = options[f]
           /\ options'[e]["points"] = IF section = "points" THEN value ELSE options[e]["points"]
<1> DEFINE new == [options[e] EXCEPT ![section] = value]
<1>1. options' = [options EXCEPT ![e] = new]
  BY DEF Save
<1>2. /\ new = [s \in Sections |-> new[s]]
      /\ new["points"] = IF section = "points" THEN value ELSE options[e]["points"]
  BY DEF TypeInv, AreOptions, Sections
<1> HIDE DEF new
<1>3. options' = [f \in Entries |-> options'[f]] /\ options'[e] = new
  BY <1>1 DEF TypeInv, AreOptions
<1>4. \A f \in Entries : f # e => options'[f] = options[f]
  BY <1>1 DEF TypeInv, AreOptions
<1>5. AreOptions(options')
  <2>1. \A f \in Entries : /\ options'[f] = [s \in Sections |-> options'[f][s]]
                           /\ options'[f]["points"] \subseteq Points
    BY <1>2, <1>3, <1>4 DEF TypeInv, AreOptions
  <2> QED
    BY <1>3, <2>1 DEF AreOptions
<1>6. reload' \in [Entries -> BOOLEAN] /\ early' \in [Entries -> BOOLEAN]
  <2>1. (reload[e] \/ HasListener(e)) \in BOOLEAN /\ (early[e] \/ pc[e] \in SettingUp) \in BOOLEAN
    BY Zenon
  <2> QED
    BY <2>1 DEF TypeInv, Save
<1> QED
  BY <1>2, <1>3, <1>4, <1>5, <1>6

\* The choice of points is saved as a filter of what it chose, or as none; every
\* point it leaves out becomes unwanted.
LEMMA PointsSavedOne ==
    ASSUME TypeInv, NEW d \in Dialogs, PointsSaved(d)
    PROVE  /\ AreOptions(options')
           /\ reload' \in [Entries -> BOOLEAN] /\ early' \in [Entries -> BOOLEAN]
           /\ unwanted' \in [Entries -> SUBSET Points]
           /\ \A f \in Entries : /\ unwanted[f] \subseteq unwanted'[f]
                                 /\ \/ options'[f] = options[f]
                                    \/ LeavesOut(options'[f], unwanted'[f])
<1> DEFINE e == dialog[d].entry
           chosen == dialog[d].chosen
           shown == dialog[d].shown
<1>1. dialog[d] \in Flows
  BY DEF TypeInv
<1>2. e \in Entries /\ chosen \subseteq Points /\ shown \subseteq Points
  BY <1>1, FlowFields DEF PointsSaved
<1>3. PICK S \in SUBSET Points :
         /\ Save(e, "points", IF chosen = S THEN {} ELSE chosen)
         /\ unwanted' = IF chosen = S THEN unwanted
                        ELSE [unwanted EXCEPT ![e] = @ \cup (shown \ chosen) \cup (Points \ (S \cap shown))]
  BY DEF PointsSaved
<1> HIDE DEF e, chosen, shown
<1> DEFINE value == IF chosen = S THEN {} ELSE chosen
<1>4. value \subseteq Points /\ "points" \in Sections
  BY <1>2 DEF Sections
<1>5. /\ AreOptions(options')
      /\ reload' \in [Entries -> BOOLEAN] /\ early' \in [Entries -> BOOLEAN]
      /\ \A f \in Entries : f # e => options'[f] = options[f]
      /\ options'[e]["points"] = value
  BY <1>2, <1>3, <1>4, SaveOne
<1>6. unwanted' \in [Entries -> SUBSET Points] /\ \A f \in Entries : unwanted[f] \subseteq unwanted'[f]
  BY <1>2, <1>3 DEF TypeInv
<1>7. LeavesOut(options'[e], unwanted'[e])
  <2>1. CASE chosen = S
    BY <1>5, <2>1 DEF LeavesOut
  <2>2. CASE chosen # S
    <3>1. unwanted'[e] = unwanted[e] \cup (shown \ chosen) \cup (Points \ (S \cap shown))
      BY <1>2, <1>3, <2>2 DEF TypeInv
    <3> QED
      BY <1>5, <2>2, <3>1 DEF LeavesOut
  <2> QED
    BY <2>1, <2>2
<1> QED
  BY <1>5, <1>6, <1>7


\* What each variable holds; a dialog refers to an entry and to points that exist.
LEMMA TypeStep ==
    TypeInv /\ Next => TypeInv'
<1> SUFFICES ASSUME TypeInv, Next PROVE TypeInv'
  OBVIOUS
<1> USE FreeAssumption DEF TypeInv, AreOptions, Flows, Places, SettingUp, Stuck, Sections, Closed,
        At, Fault, Counts, Moves, Idle, Validating, FlowChanges, OptionChanges, SaveForm, Save,
        Count, Unregister, Polled, filterVars, panelVars, flowVars
<1>1. ASSUME NEW e \in Entries, SetUp(e) PROVE TypeInv'
  BY <1>1 DEF SetUp
<1>2. ASSUME NEW e \in Entries, HubFails(e) PROVE TypeInv'
  BY <1>2 DEF HubFails
<1>3. ASSUME NEW e \in Entries, Discovered(e) PROVE TypeInv'
  BY <1>3 DEF Discovered, Included
<1>4. ASSUME NEW e \in Entries, BindingsLoaded(e) PROVE TypeInv'
  BY <1>4 DEF BindingsLoaded
<1>5. ASSUME NEW e \in Entries, RefreshFails(e) PROVE TypeInv'
  BY <1>5 DEF RefreshFails
<1>6. ASSUME NEW e \in Entries, Refreshed(e) PROVE TypeInv'
  BY <1>6 DEF Refreshed, Included
<1>7. ASSUME NEW e \in Entries, PlatformsForwarded(e) PROVE TypeInv'
  BY <1>7 DEF PlatformsForwarded
<1>8. ASSUME NEW e \in Entries, RouteAdded(e) PROVE TypeInv'
  BY <1>8 DEF RouteAdded
<1>9. ASSUME NEW e \in Entries, PanelRegistered(e) PROVE TypeInv'
  BY <1>9 DEF PanelRegistered
<1>10. ASSUME NEW e \in Entries, PanelFails(e) PROVE TypeInv'
  BY <1>10 DEF PanelFails
<1>11. ASSUME NEW e \in Entries, Polls(e) PROVE TypeInv'
  BY <1>11 DEF Polls, Included
<1>12. ASSUME NEW e \in Entries, Unload(e) PROVE TypeInv'
  BY <1>12 DEF Unload
<1>13. ASSUME NEW e \in Entries, UnloadFails(e) PROVE TypeInv'
  BY <1>13 DEF UnloadFails
<1>14. ASSUME NEW e \in Entries, Unloaded(e) PROVE TypeInv'
  BY <1>14 DEF Unloaded
<1>15. ASSUME NEW e \in Entries, NEW p \in Points, RemoveDevice(e, p) PROVE TypeInv'
  BY <1>15 DEF RemoveDevice
<1>16. ASSUME NEW d \in Dialogs, NEW a \in Addresses, UserSubmits(d, a) PROVE TypeInv'
  BY <1>16 DEF UserSubmits
<1>17. ASSUME NEW d \in Dialogs, NEW a \in Addresses, UserCreates(d, a) PROVE TypeInv'
  <2>1. reload' \in [Entries -> BOOLEAN]
    <3>1. \A e \in Entries : (reload[e] \/ e \in Taken(a)) \in BOOLEAN
      BY Zenon
    <3> QED
      BY <1>17, <3>1 DEF UserCreates
  <2>2. address' \in [Entries -> Addresses \cup {Free}]
    BY <1>17 DEF UserCreates
  <2> QED
    BY <1>17, <2>1, <2>2 DEF UserCreates
<1>18. ASSUME NEW d \in Dialogs, NEW e \in Entries, NEW a \in Addresses, Reconfigures(d, e, a)
      PROVE  TypeInv'
  BY <1>18 DEF Reconfigures
<1>19. ASSUME NEW d \in Dialogs, NEW e \in Entries, NEW a \in Addresses, Reconfigured(d, e, a)
      PROVE  TypeInv'
  BY <1>19 DEF Reconfigured
<1>20. ASSUME NEW d \in Dialogs, NEW e \in Entries, Reauthenticates(d, e) PROVE TypeInv'
  BY <1>20 DEF Reauthenticates
<1>21. ASSUME NEW d \in Dialogs, NEW e \in Entries, Reauthenticated(d, e) PROVE TypeInv'
  BY <1>21 DEF Reauthenticated
<1>22. ASSUME NEW d \in Dialogs, ValidationFails(d) PROVE TypeInv'
  BY <1>22 DEF ValidationFails
<1>23. ASSUME NEW e \in Entries, SaveGeneral(e) PROVE TypeInv'
  <2>1. Save(e, "general", flows + 1)
    BY <1>23 DEF SaveGeneral
  <2>2. /\ AreOptions(options')
        /\ reload' \in [Entries -> BOOLEAN] /\ early' \in [Entries -> BOOLEAN]
    BY <2>1, SaveOne DEF Sections
  <2> QED
    BY <1>23, <2>2 DEF SaveGeneral
<1>24. ASSUME NEW e \in Entries, SaveEvents(e) PROVE TypeInv'
  <2>1. Save(e, "events", flows + 1)
    BY <1>24 DEF SaveEvents
  <2>2. /\ AreOptions(options')
        /\ reload' \in [Entries -> BOOLEAN] /\ early' \in [Entries -> BOOLEAN]
    BY <2>1, SaveOne DEF Sections
  <2> QED
    BY <1>24, <2>2 DEF SaveEvents
<1>25. ASSUME NEW e \in Entries, SaveWebhook(e) PROVE TypeInv'
  <2>1. Save(e, "webhook", flows + 1)
    BY <1>25 DEF SaveWebhook
  <2>2. /\ AreOptions(options')
        /\ reload' \in [Entries -> BOOLEAN] /\ early' \in [Entries -> BOOLEAN]
    BY <2>1, SaveOne DEF Sections
  <2> QED
    BY <1>25, <2>2 DEF SaveWebhook
<1>26. ASSUME NEW d \in Dialogs, NEW e \in Entries, PointsAsked(d, e) PROVE TypeInv'
  BY <1>26 DEF PointsAsked
<1>27. ASSUME NEW d \in Dialogs, PointsShown(d) PROVE TypeInv'
  <2>1. PICK S \in SUBSET Points :
           dialog' = [dialog EXCEPT ![d] = [kind |-> "shown", entry |-> dialog[d].entry, shown |-> S]]
    BY <1>27 DEF PointsShown
  <2>2. dialog[d] \in Flows
    BY DEF TypeInv
  <2>3. dialog[d].entry \in Entries
    BY <1>27, <2>2, FlowFields DEF PointsShown
  <2>4. dialog' \in [Dialogs -> Flows]
    BY <2>1, <2>3
  <2> QED
    BY <1>27, <2>4 DEF PointsShown
<1>28. ASSUME NEW d \in Dialogs, PointsSaved(d) PROVE TypeInv'
  <2>1. /\ AreOptions(options')
        /\ reload' \in [Entries -> BOOLEAN] /\ early' \in [Entries -> BOOLEAN]
        /\ unwanted' \in [Entries -> SUBSET Points]
    BY <1>28, PointsSavedOne
  <2> QED
    BY <1>28, <2>1 DEF PointsSaved
<1>29. ASSUME NEW d \in Dialogs, DialogEnds(d) PROVE TypeInv'
  BY <1>29 DEF DialogEnds
<1>30. ASSUME NEW d \in Dialogs, NEW chosen \in SUBSET Points, PointsSubmitted(d, chosen)
      PROVE  TypeInv'
  <2>1. dialog[d] \in Flows
    BY DEF TypeInv
  <2>2. dialog[d].entry \in Entries /\ dialog[d].shown \subseteq Points
    BY <1>30, <2>1, FlowFields DEF PointsSubmitted
  <2>3. dialog' \in [Dialogs -> Flows]
    BY <1>30, <2>2 DEF PointsSubmitted
  <2> QED
    BY <1>30, <2>3 DEF PointsSubmitted
<1> QED
  BY <1>1, <1>2, <1>3, <1>4, <1>5, <1>6, <1>7, <1>8, <1>9, <1>10, <1>11, <1>12, <1>13, <1>14, <1>15,
     <1>16, <1>17, <1>18, <1>19, <1>20, <1>21, <1>22, <1>23, <1>24,
     <1>25, <1>26, <1>27, <1>28, <1>29, <1>30
  DEF Next, SettingUpNext, RunningNext, EntryDialogs, OptionDialogs

\* An address is checked before the await and taken after it; what may happen in
\* between is what `overlap` records.
LEMMA ServersStep ==
    TypeInv /\ ServersInv /\ Next => ServersInv'
<1> SUFFICES ASSUME TypeInv, ServersInv, Next PROVE ServersInv'
  OBVIOUS
<1> USE FreeAssumption DEF TypeInv, ServersInv, Taken, Rivals, Closed, Flows,
        At, Fault, Counts, Moves, Idle, Validating, FlowChanges, OptionChanges, SaveForm, Save,
        Count, Unregister, Polled, filterVars, panelVars, flowVars
<1>1. ASSUME NEW e \in Entries, SetUp(e) PROVE ServersInv'
  BY <1>1 DEF SetUp
<1>2. ASSUME NEW e \in Entries, HubFails(e) PROVE ServersInv'
  BY <1>2 DEF HubFails
<1>3. ASSUME NEW e \in Entries, Discovered(e) PROVE ServersInv'
  BY <1>3 DEF Discovered
<1>4. ASSUME NEW e \in Entries, BindingsLoaded(e) PROVE ServersInv'
  BY <1>4 DEF BindingsLoaded
<1>5. ASSUME NEW e \in Entries, RefreshFails(e) PROVE ServersInv'
  BY <1>5 DEF RefreshFails
<1>6. ASSUME NEW e \in Entries, Refreshed(e) PROVE ServersInv'
  BY <1>6 DEF Refreshed
<1>7. ASSUME NEW e \in Entries, PlatformsForwarded(e) PROVE ServersInv'
  BY <1>7 DEF PlatformsForwarded
<1>8. ASSUME NEW e \in Entries, RouteAdded(e) PROVE ServersInv'
  BY <1>8 DEF RouteAdded
<1>9. ASSUME NEW e \in Entries, PanelRegistered(e) PROVE ServersInv'
  BY <1>9 DEF PanelRegistered
<1>10. ASSUME NEW e \in Entries, PanelFails(e) PROVE ServersInv'
  BY <1>10 DEF PanelFails
<1>11. ASSUME NEW e \in Entries, Polls(e) PROVE ServersInv'
  BY <1>11 DEF Polls
<1>12. ASSUME NEW e \in Entries, Unload(e) PROVE ServersInv'
  BY <1>12 DEF Unload
<1>13. ASSUME NEW e \in Entries, UnloadFails(e) PROVE ServersInv'
  BY <1>13 DEF UnloadFails
<1>14. ASSUME NEW e \in Entries, Unloaded(e) PROVE ServersInv'
  BY <1>14 DEF Unloaded
<1>15. ASSUME NEW e \in Entries, NEW p \in Points, RemoveDevice(e, p) PROVE ServersInv'
  BY <1>15 DEF RemoveDevice
<1>16. ASSUME NEW d \in Dialogs, NEW a \in Addresses, UserSubmits(d, a) PROVE ServersInv'
  BY <1>16 DEF UserSubmits
<1>17. ASSUME NEW d \in Dialogs, NEW a \in Addresses, UserCreates(d, a) PROVE ServersInv'
  BY <1>17 DEF UserCreates
<1>18. ASSUME NEW d \in Dialogs, NEW e \in Entries, NEW a \in Addresses, Reconfigures(d, e, a)
      PROVE  ServersInv'
  BY <1>18 DEF Reconfigures
<1>19. ASSUME NEW d \in Dialogs, NEW e \in Entries, NEW a \in Addresses, Reconfigured(d, e, a)
      PROVE  ServersInv'
  <2>1. /\ dialog' = [dialog EXCEPT ![d] = Closed] /\ address' = [address EXCEPT ![e] = a]
        /\ overlap' = (overlap \/ Rivals(d, a) # {} \/ ~ Taken(a) \subseteq {e})
        /\ replaced' = replaced
    BY <1>19 DEF Reconfigured
  <2>2. \A o \in Dialogs : dialog'[o].kind = "user" => o # d /\ dialog'[o] = dialog[o]
    BY <2>1
  <2>3. ASSUME ~overlap'
        PROVE  /\ ~replaced'
               /\ \A f, g \in Entries : f # g /\ address'[f] = address'[g] => address'[f] = Free
               /\ \A o \in Dialogs : dialog'[o].kind = "user" => Taken(dialog[o].address)' = {}
    <3>1. ~overlap /\ Rivals(d, a) = {} /\ Taken(a) \subseteq {e}
      BY <2>1, <2>3
    <3>2. \A f \in Entries : f # e => address[f] # a
      BY <3>1
    <3>3. \A o \in Dialogs : dialog'[o].kind = "user" => dialog[o].address # a
      BY <2>2, <3>1
    <3> QED
      BY <2>1, <2>2, <3>1, <3>2, <3>3
  <2> QED
    BY <2>2, <2>3
<1>20. ASSUME NEW d \in Dialogs, NEW e \in Entries, Reauthenticates(d, e) PROVE ServersInv'
  BY <1>20 DEF Reauthenticates
<1>21. ASSUME NEW d \in Dialogs, NEW e \in Entries, Reauthenticated(d, e) PROVE ServersInv'
  BY <1>21 DEF Reauthenticated
<1>22. ASSUME NEW d \in Dialogs, ValidationFails(d) PROVE ServersInv'
  BY <1>22 DEF ValidationFails
<1>23. ASSUME NEW e \in Entries, SaveGeneral(e) PROVE ServersInv'
  BY <1>23 DEF SaveGeneral
<1>24. ASSUME NEW e \in Entries, SaveEvents(e) PROVE ServersInv'
  BY <1>24 DEF SaveEvents
<1>25. ASSUME NEW e \in Entries, SaveWebhook(e) PROVE ServersInv'
  BY <1>25 DEF SaveWebhook
<1>26. ASSUME NEW d \in Dialogs, NEW e \in Entries, PointsAsked(d, e) PROVE ServersInv'
  BY <1>26 DEF PointsAsked
<1>27. ASSUME NEW d \in Dialogs, PointsShown(d) PROVE ServersInv'
  BY <1>27 DEF PointsShown
<1>28. ASSUME NEW d \in Dialogs, PointsSaved(d) PROVE ServersInv'
  BY <1>28 DEF PointsSaved
<1>29. ASSUME NEW d \in Dialogs, DialogEnds(d) PROVE ServersInv'
  BY <1>29 DEF DialogEnds
<1>30. ASSUME NEW d \in Dialogs, NEW chosen \in SUBSET Points, PointsSubmitted(d, chosen)
      PROVE  ServersInv'
  BY <1>30 DEF PointsSubmitted
<1> QED
  BY <1>1, <1>2, <1>3, <1>4, <1>5, <1>6, <1>7, <1>8, <1>9, <1>10, <1>11, <1>12, <1>13, <1>14, <1>15,
     <1>16, <1>17, <1>18, <1>19, <1>20, <1>21, <1>22, <1>23, <1>24,
     <1>25, <1>26, <1>27, <1>28, <1>29, <1>30
  DEF Next, SettingUpNext, RunningNext, EntryDialogs, OptionDialogs

\* Between the reading of the options and the listener, saving is recorded in
\* `early`; after it, every save asks for a reload.
LEMMA OptionsStep ==
    TypeInv /\ OptionsInv /\ Next => OptionsInv'
<1> SUFFICES ASSUME TypeInv, OptionsInv, Next PROVE OptionsInv'
  OBVIOUS
<1> USE DEF TypeInv, AreOptions, OptionsInv, SettingUp, Places, Stuck, HasListener,
        At, Fault, Counts, Moves, Idle, Validating, FlowChanges, OptionChanges, SaveForm, Save,
        Count, Unregister, Polled, filterVars, panelVars, flowVars
<1>1. ASSUME NEW e \in Entries, SetUp(e) PROVE OptionsInv'
  BY <1>1 DEF SetUp
<1>2. ASSUME NEW e \in Entries, HubFails(e) PROVE OptionsInv'
  BY <1>2 DEF HubFails
<1>3. ASSUME NEW e \in Entries, Discovered(e) PROVE OptionsInv'
  BY <1>3 DEF Discovered
<1>4. ASSUME NEW e \in Entries, BindingsLoaded(e) PROVE OptionsInv'
  BY <1>4 DEF BindingsLoaded
<1>5. ASSUME NEW e \in Entries, RefreshFails(e) PROVE OptionsInv'
  BY <1>5 DEF RefreshFails
<1>6. ASSUME NEW e \in Entries, Refreshed(e) PROVE OptionsInv'
  BY <1>6 DEF Refreshed
<1>7. ASSUME NEW e \in Entries, PlatformsForwarded(e) PROVE OptionsInv'
  BY <1>7 DEF PlatformsForwarded
<1>8. ASSUME NEW e \in Entries, RouteAdded(e) PROVE OptionsInv'
  BY <1>8 DEF RouteAdded
<1>9. ASSUME NEW e \in Entries, PanelRegistered(e) PROVE OptionsInv'
  BY <1>9 DEF PanelRegistered
<1>10. ASSUME NEW e \in Entries, PanelFails(e) PROVE OptionsInv'
  BY <1>10 DEF PanelFails
<1>11. ASSUME NEW e \in Entries, Polls(e) PROVE OptionsInv'
  BY <1>11 DEF Polls
<1>12. ASSUME NEW e \in Entries, Unload(e) PROVE OptionsInv'
  BY <1>12 DEF Unload
<1>13. ASSUME NEW e \in Entries, UnloadFails(e) PROVE OptionsInv'
  BY <1>13 DEF UnloadFails
<1>14. ASSUME NEW e \in Entries, Unloaded(e) PROVE OptionsInv'
  BY <1>14 DEF Unloaded
<1>15. ASSUME NEW e \in Entries, NEW p \in Points, RemoveDevice(e, p) PROVE OptionsInv'
  BY <1>15 DEF RemoveDevice
<1>16. ASSUME NEW d \in Dialogs, NEW a \in Addresses, UserSubmits(d, a) PROVE OptionsInv'
  BY <1>16 DEF UserSubmits
<1>17. ASSUME NEW d \in Dialogs, NEW a \in Addresses, UserCreates(d, a) PROVE OptionsInv'
  BY <1>17 DEF UserCreates
<1>18. ASSUME NEW d \in Dialogs, NEW e \in Entries, NEW a \in Addresses, Reconfigures(d, e, a)
      PROVE  OptionsInv'
  BY <1>18 DEF Reconfigures
<1>19. ASSUME NEW d \in Dialogs, NEW e \in Entries, NEW a \in Addresses, Reconfigured(d, e, a)
      PROVE  OptionsInv'
  BY <1>19 DEF Reconfigured
<1>20. ASSUME NEW d \in Dialogs, NEW e \in Entries, Reauthenticates(d, e) PROVE OptionsInv'
  BY <1>20 DEF Reauthenticates
<1>21. ASSUME NEW d \in Dialogs, NEW e \in Entries, Reauthenticated(d, e) PROVE OptionsInv'
  BY <1>21 DEF Reauthenticated
<1>22. ASSUME NEW d \in Dialogs, ValidationFails(d) PROVE OptionsInv'
  BY <1>22 DEF ValidationFails
<1>23. ASSUME NEW e \in Entries, SaveGeneral(e) PROVE OptionsInv'
  BY <1>23 DEF SaveGeneral
<1>24. ASSUME NEW e \in Entries, SaveEvents(e) PROVE OptionsInv'
  BY <1>24 DEF SaveEvents
<1>25. ASSUME NEW e \in Entries, SaveWebhook(e) PROVE OptionsInv'
  BY <1>25 DEF SaveWebhook
<1>26. ASSUME NEW d \in Dialogs, NEW e \in Entries, PointsAsked(d, e) PROVE OptionsInv'
  BY <1>26 DEF PointsAsked
<1>27. ASSUME NEW d \in Dialogs, PointsShown(d) PROVE OptionsInv'
  BY <1>27 DEF PointsShown
<1>28. ASSUME NEW d \in Dialogs, PointsSaved(d) PROVE OptionsInv'
  BY <1>28 DEF PointsSaved
<1>29. ASSUME NEW d \in Dialogs, DialogEnds(d) PROVE OptionsInv'
  BY <1>29 DEF DialogEnds
<1>30. ASSUME NEW d \in Dialogs, NEW chosen \in SUBSET Points, PointsSubmitted(d, chosen)
      PROVE  OptionsInv'
  BY <1>30 DEF PointsSubmitted
<1> QED
  BY <1>1, <1>2, <1>3, <1>4, <1>5, <1>6, <1>7, <1>8, <1>9, <1>10, <1>11, <1>12, <1>13, <1>14, <1>15,
     <1>16, <1>17, <1>18, <1>19, <1>20, <1>21, <1>22, <1>23, <1>24,
     <1>25, <1>26, <1>27, <1>28, <1>29, <1>30
  DEF Next, SettingUpNext, RunningNext, EntryDialogs, OptionDialogs

\* A filter that is saved leaves out what was shown and not chosen, or missing
\* from a listing.
LEMMA FilterStep ==
    TypeInv /\ FilterInv /\ Next => FilterInv'
<1> SUFFICES ASSUME TypeInv, FilterInv, Next PROVE FilterInv'
  OBVIOUS
<1> USE DEF TypeInv, FilterInv, LeavesOut,
        At, Fault, Counts, Moves, Idle, Validating, FlowChanges, OptionChanges, SaveForm, Save,
        Count, Unregister, Polled, filterVars, panelVars, flowVars
<1>1. ASSUME NEW e \in Entries, SetUp(e) PROVE FilterInv'
  BY <1>1 DEF SetUp
<1>2. ASSUME NEW e \in Entries, HubFails(e) PROVE FilterInv'
  BY <1>2 DEF HubFails
<1>3. ASSUME NEW e \in Entries, Discovered(e) PROVE FilterInv'
  BY <1>3 DEF Discovered
<1>4. ASSUME NEW e \in Entries, BindingsLoaded(e) PROVE FilterInv'
  BY <1>4 DEF BindingsLoaded
<1>5. ASSUME NEW e \in Entries, RefreshFails(e) PROVE FilterInv'
  BY <1>5 DEF RefreshFails
<1>6. ASSUME NEW e \in Entries, Refreshed(e) PROVE FilterInv'
  BY <1>6 DEF Refreshed
<1>7. ASSUME NEW e \in Entries, PlatformsForwarded(e) PROVE FilterInv'
  BY <1>7 DEF PlatformsForwarded
<1>8. ASSUME NEW e \in Entries, RouteAdded(e) PROVE FilterInv'
  BY <1>8 DEF RouteAdded
<1>9. ASSUME NEW e \in Entries, PanelRegistered(e) PROVE FilterInv'
  BY <1>9 DEF PanelRegistered
<1>10. ASSUME NEW e \in Entries, PanelFails(e) PROVE FilterInv'
  BY <1>10 DEF PanelFails
<1>11. ASSUME NEW e \in Entries, Polls(e) PROVE FilterInv'
  BY <1>11 DEF Polls
<1>12. ASSUME NEW e \in Entries, Unload(e) PROVE FilterInv'
  BY <1>12 DEF Unload
<1>13. ASSUME NEW e \in Entries, UnloadFails(e) PROVE FilterInv'
  BY <1>13 DEF UnloadFails
<1>14. ASSUME NEW e \in Entries, Unloaded(e) PROVE FilterInv'
  BY <1>14 DEF Unloaded
<1>15. ASSUME NEW e \in Entries, NEW p \in Points, RemoveDevice(e, p) PROVE FilterInv'
  BY <1>15 DEF RemoveDevice
<1>16. ASSUME NEW d \in Dialogs, NEW a \in Addresses, UserSubmits(d, a) PROVE FilterInv'
  BY <1>16 DEF UserSubmits
<1>17. ASSUME NEW d \in Dialogs, NEW a \in Addresses, UserCreates(d, a) PROVE FilterInv'
  BY <1>17 DEF UserCreates
<1>18. ASSUME NEW d \in Dialogs, NEW e \in Entries, NEW a \in Addresses, Reconfigures(d, e, a)
      PROVE  FilterInv'
  BY <1>18 DEF Reconfigures
<1>19. ASSUME NEW d \in Dialogs, NEW e \in Entries, NEW a \in Addresses, Reconfigured(d, e, a)
      PROVE  FilterInv'
  BY <1>19 DEF Reconfigured
<1>20. ASSUME NEW d \in Dialogs, NEW e \in Entries, Reauthenticates(d, e) PROVE FilterInv'
  BY <1>20 DEF Reauthenticates
<1>21. ASSUME NEW d \in Dialogs, NEW e \in Entries, Reauthenticated(d, e) PROVE FilterInv'
  BY <1>21 DEF Reauthenticated
<1>22. ASSUME NEW d \in Dialogs, ValidationFails(d) PROVE FilterInv'
  BY <1>22 DEF ValidationFails
<1>23. ASSUME NEW e \in Entries, SaveGeneral(e) PROVE FilterInv'
  <2>1. Save(e, "general", flows + 1) /\ UNCHANGED <<hubOptions, unwanted>>
    BY <1>23 DEF SaveGeneral
  <2>2. \A f \in Entries : options'[f]["points"] = options[f]["points"]
    BY <2>1, SaveOne DEF Sections
  <2> QED
    BY <2>1, <2>2
<1>24. ASSUME NEW e \in Entries, SaveEvents(e) PROVE FilterInv'
  <2>1. Save(e, "events", flows + 1) /\ UNCHANGED <<hubOptions, unwanted>>
    BY <1>24 DEF SaveEvents
  <2>2. \A f \in Entries : options'[f]["points"] = options[f]["points"]
    BY <2>1, SaveOne DEF Sections
  <2> QED
    BY <2>1, <2>2
<1>25. ASSUME NEW e \in Entries, SaveWebhook(e) PROVE FilterInv'
  <2>1. Save(e, "webhook", flows + 1) /\ UNCHANGED <<hubOptions, unwanted>>
    BY <1>25 DEF SaveWebhook
  <2>2. \A f \in Entries : options'[f]["points"] = options[f]["points"]
    BY <2>1, SaveOne DEF Sections
  <2> QED
    BY <2>1, <2>2
<1>26. ASSUME NEW d \in Dialogs, NEW e \in Entries, PointsAsked(d, e) PROVE FilterInv'
  BY <1>26 DEF PointsAsked
<1>27. ASSUME NEW d \in Dialogs, PointsShown(d) PROVE FilterInv'
  BY <1>27 DEF PointsShown
<1>28. ASSUME NEW d \in Dialogs, PointsSaved(d) PROVE FilterInv'
  <2>1. \A f \in Entries : /\ unwanted[f] \subseteq unwanted'[f]
                           /\ \/ options'[f] = options[f]
                              \/ LeavesOut(options'[f], unwanted'[f])
    BY <1>28, PointsSavedOne
  <2>2. hubOptions' = hubOptions
    BY <1>28 DEF PointsSaved
  <2> QED
    BY <2>1, <2>2
<1>29. ASSUME NEW d \in Dialogs, DialogEnds(d) PROVE FilterInv'
  BY <1>29 DEF DialogEnds
<1>30. ASSUME NEW d \in Dialogs, NEW chosen \in SUBSET Points, PointsSubmitted(d, chosen)
      PROVE  FilterInv'
  BY <1>30 DEF PointsSubmitted
<1> QED
  BY <1>1, <1>2, <1>3, <1>4, <1>5, <1>6, <1>7, <1>8, <1>9, <1>10, <1>11, <1>12, <1>13, <1>14, <1>15,
     <1>16, <1>17, <1>18, <1>19, <1>20, <1>21, <1>22, <1>23, <1>24,
     <1>25, <1>26, <1>27, <1>28, <1>29, <1>30
  DEF Next, SettingUpNext, RunningNext, EntryDialogs, OptionDialogs

-----------------------------------------------------------------------------
(* The panel.                                                              *)

LEMMA HoldingFinite == IsFiniteSet(Holding) /\ Cardinality(Holding) \in Nat
  BY EntriesAssumption, FS_Subset, FS_CardinalityType DEF Holding

\* An entry that moves on takes the panel, keeps it or gives it back.
LEMMA HoldingMoves ==
    ASSUME TypeInv, NEW e \in Entries, NEW to \in Places, pc' = [pc EXCEPT ![e] = to]
    PROVE  /\ Holding' = IF to \in Held THEN Holding \cup {e} ELSE Holding \ {e}
           /\ Cardinality(Holding') = IF to \in Held
                THEN IF pc[e] \in Held THEN Cardinality(Holding) ELSE Cardinality(Holding) + 1
                ELSE IF pc[e] \in Held THEN Cardinality(Holding) - 1 ELSE Cardinality(Holding)
<1>1. Holding' = IF to \in Held THEN Holding \cup {e} ELSE Holding \ {e}
  BY DEF TypeInv, Holding
<1>2. e \in Holding <=> pc[e] \in Held
  BY DEF Holding
<1> QED
  BY <1>1, <1>2, HoldingFinite, FS_AddElement, FS_RemoveElement

\* Moves that touch neither the count nor the panel.
LEMMA PanelKept ==
    ASSUME TypeInv, PanelInv, UNCHANGED panelVars, NEW e \in Entries, NEW to \in Places,
           pc' = [pc EXCEPT ![e] = to], pc[e] # "static", pc[e] # "failed",
           to \notin {"hashing", "static"}, pc[e] = "hashing" => to = "failed",
           pc[e] \in Held <=> to \in Held
    PROVE  PanelInv'
<1>1. Holding' = Holding
  BY DEF TypeInv, Holding
<1>2. \A f \in Entries : f # e => pc'[f] = pc[f]
  BY DEF TypeInv
<1>3. pc'[e] = to
  BY DEF TypeInv
<1>4. UNCHANGED <<static, route, count, panel>>
  BY DEF panelVars
<1>5. CASE pc[e] = "hashing"
  BY <1>1, <1>2, <1>3, <1>4, <1>5 DEF PanelInv
<1>6. CASE pc[e] # "hashing"
  BY <1>1, <1>2, <1>3, <1>4, <1>6 DEF PanelInv
<1> QED
  BY <1>5, <1>6

\* The next to count itself: the first goes on to register the panel.
LEMMA CountStep ==
    ASSUME TypeInv, PanelInv, NEW e \in Entries, NEW from \in {"platforms", "static"}, Count(e, from),
           static', static' => route' \/ \E f \in Entries : pc'[f] = "static", panel' = panel
    PROVE  PanelInv'
<1> DEFINE to == IF count = 0 THEN "hashing" ELSE "loaded"
<1>1. /\ pc[e] = from /\ pc' = [pc EXCEPT ![e] = to] /\ count' = count + 1
      /\ to \in Places /\ to \in Held /\ from \notin Held
  BY DEF Count, At, Places, SettingUp, Held, Stuck
<1>2. /\ Holding' = Holding \cup {e} /\ Cardinality(Holding') = Cardinality(Holding) + 1
  BY <1>1, HoldingMoves
<1>3. count' = Cardinality(Holding')
  BY <1>1, <1>2 DEF PanelInv
<1>4. /\ \A f \in Entries : f # e => pc'[f] = pc[f]
      /\ pc'[e] = to
  BY <1>1 DEF TypeInv
<1>5. count = 0 <=> Holding = {}
  BY HoldingFinite, FS_EmptySet DEF PanelInv
<1>6. CASE \E f \in Entries : pc[f] = "failed"
  BY <1>1, <1>2, <1>3, <1>4, <1>6 DEF PanelInv
<1>7. CASE ~ \E f \in Entries : pc[f] = "failed"
  <2>1. CASE count = 0
    <3>1. ~panel /\ \A f \in Entries : pc[f] # "hashing"
      BY <1>5, <1>7, <2>1 DEF PanelInv, Holding, Held
    <3>2. pc'[e] = "hashing" /\ ~panel' /\ \A f \in Entries : pc'[f] = "hashing" => f = e
      BY <1>4, <2>1, <3>1
    <3> QED
      BY <1>3, <3>2 DEF PanelInv
  <2>2. CASE count # 0
    <3>1. Holding # {} /\ to = "loaded"
      BY <1>5, <2>2
    <3>2. \/ \E f \in Entries : pc'[f] = "hashing" /\ ~panel' /\ \A g \in Entries : pc'[g] = "hashing" => g = f
          \/ (\A f \in Entries : pc'[f] # "hashing") /\ (panel' <=> Holding' # {})
      BY <1>1, <1>2, <1>4, <1>7, <3>1 DEF PanelInv
    <3> QED
      BY <1>3, <3>2 DEF PanelInv
  <2> QED
    BY <2>1, <2>2
<1> QED
  BY <1>6, <1>7

LEMMA PanelStep == TypeInv /\ PanelInv /\ Next => PanelInv'
<1> SUFFICES ASSUME TypeInv, PanelInv, Next PROVE PanelInv'
  OBVIOUS
<1>1. ASSUME NEW e \in Entries, SetUp(e) PROVE PanelInv'
  <2>1. pc[e] = "unloaded" /\ pc' = [pc EXCEPT ![e] = "connecting"] /\ UNCHANGED panelVars
    BY <1>1 DEF SetUp, At
  <2>2. "connecting" \in Places /\ ("unloaded" \in Held <=> "connecting" \in Held)
    BY DEF Places, SettingUp, Stuck, Held
  <2> QED
    BY <2>1, <2>2, PanelKept
<1>2. ASSUME NEW e \in Entries, HubFails(e) PROVE PanelInv'
  <2>1. pc[e] = "connecting" /\ pc' = [pc EXCEPT ![e] = "unloaded"] /\ UNCHANGED panelVars
    BY <1>2 DEF HubFails, At
  <2>2. "unloaded" \in Places /\ ("connecting" \in Held <=> "unloaded" \in Held)
    BY DEF Places, SettingUp, Stuck, Held
  <2> QED
    BY <2>1, <2>2, PanelKept
<1>3. ASSUME NEW e \in Entries, Discovered(e) PROVE PanelInv'
  <2>1. pc[e] = "connecting" /\ pc' = [pc EXCEPT ![e] = "binding"] /\ UNCHANGED panelVars
    BY <1>3 DEF Discovered, At
  <2>2. "binding" \in Places /\ ("connecting" \in Held <=> "binding" \in Held)
    BY DEF Places, SettingUp, Stuck, Held
  <2> QED
    BY <2>1, <2>2, PanelKept
<1>4. ASSUME NEW e \in Entries, BindingsLoaded(e) PROVE PanelInv'
  <2>1. pc[e] = "binding" /\ pc' = [pc EXCEPT ![e] = "refreshing"] /\ UNCHANGED panelVars
    BY <1>4 DEF BindingsLoaded, At
  <2>2. "refreshing" \in Places /\ ("binding" \in Held <=> "refreshing" \in Held)
    BY DEF Places, SettingUp, Stuck, Held
  <2> QED
    BY <2>1, <2>2, PanelKept
<1>5. ASSUME NEW e \in Entries, RefreshFails(e) PROVE PanelInv'
  <2>1. pc[e] = "refreshing" /\ pc' = [pc EXCEPT ![e] = "unloaded"] /\ UNCHANGED panelVars
    BY <1>5 DEF RefreshFails, At
  <2>2. "unloaded" \in Places /\ ("refreshing" \in Held <=> "unloaded" \in Held)
    BY DEF Places, SettingUp, Stuck, Held
  <2> QED
    BY <2>1, <2>2, PanelKept
<1>6. ASSUME NEW e \in Entries, Refreshed(e) PROVE PanelInv'
  <2>1. pc[e] = "refreshing" /\ pc' = [pc EXCEPT ![e] = "platforms"] /\ UNCHANGED panelVars
    BY <1>6 DEF Refreshed, At
  <2>2. "platforms" \in Places /\ ("refreshing" \in Held <=> "platforms" \in Held)
    BY DEF Places, SettingUp, Stuck, Held
  <2> QED
    BY <2>1, <2>2, PanelKept
<1>7. ASSUME NEW e \in Entries, PlatformsForwarded(e) PROVE PanelInv'
  <2>1. CASE static
    <3>1. Count(e, "platforms") /\ static' /\ route' = route /\ panel' = panel
      BY <1>7, <2>1 DEF PlatformsForwarded
    <3>2. pc[e] = "platforms" /\ \A f \in Entries : f # e => pc'[f] = pc[f]
      BY <3>1 DEF Count, At, TypeInv
    <3>3. route \/ \E f \in Entries : pc[f] = "static"
      BY <2>1 DEF PanelInv
    <3>4. route' \/ \E f \in Entries : pc'[f] = "static"
      BY <3>1, <3>2, <3>3
    <3> QED
      BY <3>1, <3>4, CountStep
  <2>2. CASE ~static
    <3>1. /\ pc[e] = "platforms" /\ pc' = [pc EXCEPT ![e] = "static"] /\ static' = TRUE
          /\ UNCHANGED <<route, count, panel>>
      BY <1>7, <2>2 DEF PlatformsForwarded, At
    <3>2. Holding' = Holding
      BY <3>1 DEF TypeInv, Holding, Held, Stuck
    <3>3. pc'[e] = "static" /\ \A f \in Entries : f # e => pc'[f] = pc[f]
      BY <3>1 DEF TypeInv
    <3> QED
      BY <3>1, <3>2, <3>3 DEF PanelInv
  <2> QED
    BY <2>1, <2>2 DEF TypeInv
<1>8. ASSUME NEW e \in Entries, RouteAdded(e) PROVE PanelInv'
  <2>1. Count(e, "static") /\ route' = TRUE /\ static' = static /\ panel' = panel /\ pc[e] = "static"
    BY <1>8 DEF RouteAdded, Count, At
  <2>2. static
    BY <2>1 DEF PanelInv
  <2> QED
    BY <2>1, <2>2, CountStep
<1>9. ASSUME NEW e \in Entries, PanelRegistered(e) PROVE PanelInv'
  <2>1. /\ pc[e] = "hashing" /\ pc' = [pc EXCEPT ![e] = "loaded"] /\ panel' = TRUE
        /\ UNCHANGED <<static, route, count>>
    BY <1>9 DEF PanelRegistered, At
  <2>2. Holding' = Holding /\ e \in Holding
    BY <2>1 DEF TypeInv, Holding, Held, Stuck
  <2>3. pc'[e] = "loaded" /\ \A f \in Entries : f # e => pc'[f] = pc[f]
    BY <2>1 DEF TypeInv
  <2>4. CASE \E f \in Entries : pc[f] = "failed"
    BY <2>1, <2>2, <2>3, <2>4 DEF PanelInv
  <2>5. CASE ~ \E f \in Entries : pc[f] = "failed"
    BY <2>1, <2>2, <2>3, <2>5 DEF PanelInv
  <2> QED
    BY <2>4, <2>5
<1>10. ASSUME NEW e \in Entries, PanelFails(e) PROVE PanelInv'
  <2>1. pc[e] = "hashing" /\ pc' = [pc EXCEPT ![e] = "failed"] /\ UNCHANGED panelVars
    BY <1>10 DEF PanelFails, At
  <2>2. "failed" \in Places /\ ("hashing" \in Held <=> "failed" \in Held)
    BY DEF Places, SettingUp, Stuck, Held
  <2> QED
    BY <2>1, <2>2, PanelKept
<1>11. ASSUME NEW e \in Entries, Unload(e) PROVE PanelInv'
  <2>1. pc[e] = "loaded" /\ pc' = [pc EXCEPT ![e] = "unloading"] /\ UNCHANGED panelVars
    BY <1>11 DEF Unload, At
  <2>2. "unloading" \in Places /\ ("loaded" \in Held <=> "unloading" \in Held)
    BY DEF Places, SettingUp, Stuck, Held
  <2> QED
    BY <2>1, <2>2, PanelKept
<1>12. ASSUME NEW e \in Entries, UnloadFails(e) PROVE PanelInv'
  <2>1. pc[e] = "unloading" /\ pc' = [pc EXCEPT ![e] = "unloadFailed"] /\ UNCHANGED panelVars
    BY <1>12 DEF UnloadFails, At
  <2>2. "unloadFailed" \in Places /\ ("unloading" \in Held <=> "unloadFailed" \in Held)
    BY DEF Places, SettingUp, Stuck, Held
  <2> QED
    BY <2>1, <2>2, PanelKept
<1>13. ASSUME NEW e \in Entries, Unloaded(e) PROVE PanelInv'
  <2>1. /\ pc[e] = "unloading" /\ pc' = [pc EXCEPT ![e] = "unloaded"] /\ Unregister
        /\ UNCHANGED <<static, route>>
    BY <1>13 DEF Unloaded, At
  <2>2. Holding' = Holding \ {e} /\ Cardinality(Holding') = Cardinality(Holding) - 1 /\ e \in Holding
    <3>1. "unloaded" \in Places /\ "unloaded" \notin Held /\ pc[e] \in Held
      BY <2>1 DEF Places, Held, Stuck
    <3> QED
      BY <2>1, <3>1, HoldingMoves DEF Holding
  <2>3. count \in Nat /\ count # 0
    BY <2>2, HoldingFinite, FS_EmptySet DEF PanelInv
  <2>4. count' = Cardinality(Holding') /\ panel' = (panel /\ count > 1)
    BY <2>1, <2>2, <2>3 DEF Unregister, PanelInv
  <2>5. pc'[e] = "unloaded" /\ \A f \in Entries : f # e => pc'[f] = pc[f]
    BY <2>1 DEF TypeInv
  <2>6. count > 1 <=> Holding' # {}
    <3>1. IsFiniteSet(Holding') /\ Cardinality(Holding') = count - 1
      BY <2>2, HoldingFinite, FS_RemoveElement DEF PanelInv
    <3> QED
      BY <2>3, <3>1, FS_EmptySet
  <2>7. panel' => panel
    BY <2>4
  <2>8. CASE \E f \in Entries : pc[f] = "failed"
    BY <2>1, <2>2, <2>4, <2>5, <2>8 DEF PanelInv
  <2>9. CASE \E f \in Entries : pc[f] = "hashing" /\ ~panel /\ \A g \in Entries : pc[g] = "hashing" => g = f
    BY <2>1, <2>2, <2>4, <2>5, <2>7, <2>9 DEF PanelInv
  <2>10. CASE (\A f \in Entries : pc[f] # "hashing") /\ (panel <=> Holding # {})
    <3>1. panel' <=> Holding' # {}
      BY <2>2, <2>4, <2>6, <2>10
    <3> QED
      BY <2>1, <2>2, <2>4, <2>5, <2>10, <3>1 DEF PanelInv
  <2> QED
    BY <2>8, <2>9, <2>10 DEF PanelInv
<1>14. ASSUME UNCHANGED <<pc, panelVars>> PROVE PanelInv'
  <2>1. UNCHANGED <<static, route, count, panel>> /\ Holding' = Holding /\ pc' = pc
    BY <1>14 DEF panelVars, Holding
  <2> QED
    BY <2>1 DEF PanelInv
<1>15. ASSUME NEW e \in Entries, NEW p \in Points, RemoveDevice(e, p) PROVE PanelInv'
  BY <1>14, <1>15 DEF RemoveDevice
<1>16. ASSUME NEW e \in Entries, Polls(e) PROVE PanelInv'
  BY <1>14, <1>16 DEF Polls
<1>17. ASSUME NEW d \in Dialogs, EntryDialogs(d) PROVE PanelInv'
  BY <1>14, <1>17
  DEF EntryDialogs, UserSubmits, UserCreates, Reconfigures, Reconfigured, Reauthenticates, Reauthenticated,
      ValidationFails, FlowChanges, panelVars
<1>18. CASE OptionDialogs
  BY <1>14, <1>18
  DEF OptionDialogs, SaveGeneral, SaveEvents, SaveForm, SaveWebhook, PointsAsked, PointsShown, PointsSaved,
      PointsSubmitted, DialogEnds, FlowChanges, OptionChanges, panelVars
<1> QED
  BY <1>1, <1>2, <1>3, <1>4, <1>5, <1>6, <1>7, <1>8, <1>9, <1>10, <1>11, <1>12, <1>13, <1>15, <1>16, <1>17, <1>18
  DEF Next, SettingUpNext, RunningNext

-----------------------------------------------------------------------------
(* The theorems.                                                           *)

LEMMA IInvInit == Init => IInv
<1> SUFFICES ASSUME Init PROVE IInv
  OBVIOUS
<1>1. TypeInv
  <2>1. AreOptions(options) /\ AreOptions(hubOptions)
    BY DEF Init, NoOptions, AreOptions, Sections
  <2>2. Closed \in Flows
    BY DEF Flows
  <2> QED
    BY <2>1, <2>2 DEF Init, TypeInv, Places
<1>2. ServersInv
  BY DEF Init, ServersInv, Closed
<1>3. OptionsInv
  BY DEF Init, OptionsInv
<1>4. FilterInv
  BY DEF Init, FilterInv, LeavesOut, NoOptions, Sections
<1>5. PanelInv
  <2>1. Holding = {}
    BY DEF Init, Holding, Held, Stuck
  <2> QED
    BY <2>1, FS_EmptySet DEF Init, PanelInv
<1> QED
  BY <1>1, <1>2, <1>3, <1>4, <1>5 DEF IInv

LEMMA IInvStep == IInv /\ [Next]_vars => IInv'
<1> SUFFICES ASSUME IInv, [Next]_vars PROVE IInv'
  OBVIOUS
<1>1. CASE Next
  BY <1>1, TypeStep, ServersStep, OptionsStep, FilterStep, PanelStep DEF IInv
<1>2. CASE UNCHANGED vars
  <2>1. TypeInv' /\ ServersInv' /\ OptionsInv' /\ FilterInv'
    BY <1>2
    DEF IInv, TypeInv, AreOptions, ServersInv, Taken, OptionsInv, FilterInv, vars, filterVars, panelVars, flowVars
  <2>2. PanelInv'
    <3>1. Holding' = Holding
      BY <1>2 DEF Holding, vars
    <3> QED
      BY <1>2, <3>1 DEF IInv, PanelInv, vars, panelVars
  <2> QED
    BY <2>1, <2>2 DEF IInv
<1> QED
  BY <1>1, <1>2

LEMMA IInvAlways == Spec => []IInv
  BY IInvInit, IInvStep, PTL DEF Spec

\* While nobody is registering, the entries that hold the panel are the loaded ones,
\* those about to unload and those that failed to.
LEMMA PanelInvFollows == TypeInv /\ PanelInv => PanelFollowsEntries
<1> SUFFICES ASSUME TypeInv, PanelInv, \A e \in Entries : pc[e] \notin Registering,
                    ~ \E e \in Entries : pc[e] = "failed"
             PROVE  (panel <=> Wanting # {}) /\ (panel => route)
  BY DEF PanelFollowsEntries
<1>1. \A e \in Entries : pc[e] # "static" /\ pc[e] # "hashing"
  BY DEF Registering
<1>2. Holding = Wanting
  BY <1>1 DEF Holding, Held, Stuck, Wanting
<1>3. panel <=> Holding # {}
  BY <1>1 DEF PanelInv
<1>4. panel => route
  BY <1>1, <1>3 DEF PanelInv
<1> QED
  BY <1>2, <1>3, <1>4

\* However set-ups, unloads, reloads and failures of any number of entries interleave,
\* the panel is in the sidebar, and its files are served, just while one of them is
\* loaded; only a panel that could not be registered breaks this.
THEOREM PanelFollows == Spec => []PanelFollowsEntries
  BY IInvAlways, PanelInvFollows, PTL DEF IInv

\* Options that are saved reach the hub of a loaded entry by a reload, unless they
\* were saved during its set-up.
THEOREM OptionsReach == Spec => []OptionsReachHub
<1>1. OptionsInv => OptionsReachHub
  BY DEF OptionsInv, OptionsReachHub
<1> QED
  BY <1>1, IInvAlways, PTL DEF IInv

\* However many dialogs are open, two entries get one server, or one entry replaces
\* another, only where a reconfiguration ended between another dialog's check and its
\* end.
THEOREM ServersApart == Spec => []ServersKeptApart
<1>1. ServersInv => ServersKeptApart
  BY DEF ServersInv, ServersKeptApart
<1> QED
  BY <1>1, IInvAlways, PTL DEF IInv

\* A first refresh purges only points that the filter leaves out.
LEMMA PurgedUnwanted ==
    ASSUME FilterInv, NEW e \in Entries, NEW S \in SUBSET Points
    PROVE  Purged(hubOptions[e], S) \subseteq unwanted[e]
  BY DEF FilterInv, LeavesOut, Purged, Includes

DeviceKept(e, p) == p \in unwanted[e] \/ (pc[e] = "loaded" /\ p \notin available[e])

LEMMA DevicesStep ==
    TypeInv /\ FilterInv /\ [Next]_vars => \A f \in Entries : \A p \in devices[f] \ devices'[f] : DeviceKept(f, p)
<1> SUFFICES ASSUME TypeInv, FilterInv, [Next]_vars, NEW f \in Entries, NEW p \in devices[f] \ devices'[f]
             PROVE  DeviceKept(f, p)
  OBVIOUS
<1>1. ASSUME NEW e \in Entries, Refreshed(e) PROVE DeviceKept(f, p)
  <2>1. PICK S \in SUBSET Points : devices' = [devices EXCEPT ![e] = @ \ Purged(hubOptions[e], S)]
    BY <1>1 DEF Refreshed
  <2>2. f = e /\ p \in Purged(hubOptions[e], S)
    BY <2>1 DEF TypeInv
  <2> QED
    BY <2>2, PurgedUnwanted DEF DeviceKept
<1>2. ASSUME NEW e \in Entries, NEW q \in Points, RemoveDevice(e, q) PROVE DeviceKept(f, p)
  <2>1. f = e /\ p = q
    BY <1>2 DEF RemoveDevice, TypeInv
  <2> QED
    BY <1>2, <2>1 DEF RemoveDevice, DeviceKept
<1>3. ASSUME NEW e \in Entries, PlatformsForwarded(e) PROVE FALSE
  BY <1>3 DEF PlatformsForwarded, TypeInv
<1>4. ASSUME NEW e \in Entries, Polls(e) PROVE FALSE
  BY <1>4 DEF Polls, TypeInv
<1>5. devices' # devices
  OBVIOUS
<1>6. ASSUME NEW e \in Entries,
             \/ SetUp(e) \/ HubFails(e) \/ Discovered(e) \/ BindingsLoaded(e) \/ RefreshFails(e)
             \/ RouteAdded(e) \/ PanelRegistered(e) \/ PanelFails(e)
             \/ Unload(e) \/ UnloadFails(e) \/ Unloaded(e)
      PROVE  FALSE
  BY <1>5, <1>6
  DEF SetUp, HubFails, Discovered, BindingsLoaded, RefreshFails, RouteAdded, PanelRegistered, PanelFails,
      Unload, UnloadFails, Unloaded, filterVars
<1>7. ASSUME NEW d \in Dialogs, EntryDialogs(d) PROVE FALSE
  BY <1>5, <1>7
  DEF EntryDialogs, UserSubmits, UserCreates, Reconfigures, Reconfigured, Reauthenticates, Reauthenticated,
      ValidationFails, FlowChanges, filterVars
<1>8. CASE OptionDialogs
  BY <1>5, <1>8
  DEF OptionDialogs, SaveGeneral, SaveEvents, SaveForm, SaveWebhook, PointsAsked, PointsShown, PointsSaved,
      PointsSubmitted, DialogEnds, FlowChanges, OptionChanges, filterVars
<1>9. CASE UNCHANGED vars
  BY <1>5, <1>9 DEF vars, filterVars
<1> QED
  BY <1>1, <1>2, <1>3, <1>4, <1>6, <1>7, <1>8, <1>9 DEF Next, SettingUpNext, RunningNext

\* No interleaving of polls, reloads and options dialogs takes away a device that the
\* user kept: the purge stays within what the stored filter's dialog left out, and the
\* user may remove only the device of a point that is unavailable.
THEOREM DevicesStay == Spec => DevicesKept
<1>1. IInv /\ [Next]_vars =>
        [\A e \in Entries : \A p \in devices[e] \ devices'[e] :
            p \in unwanted[e] \/ (pc[e] = "loaded" /\ p \notin available[e])]_devices
  BY DevicesStep DEF IInv, DeviceKept
<1> QED
  BY <1>1, IInvAlways, PTL DEF Spec, DevicesKept
=============================================================================
