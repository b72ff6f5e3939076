----------------------------- MODULE Panel_proofs -----------------------------
(***************************************************************************)
(* Theorems about Panel, Presets and Bindings, for any number of presets,  *)
(* users, access points, zones and cameras, and any number of edits.       *)
(***************************************************************************)
EXTENDS Panel, TLAPS

TypeInv ==
    /\ presets \in [PresetIds -> P!Preset \cup {Absent}]
    /\ user \in [id : Users, admin : BOOLEAN]
    /\ hub \in Answers
    /\ live \in [Points -> B!Binding] /\ file \in [Points -> B!Binding]
    /\ call \in B!Calls \cup {None} /\ old \in B!Stores \cup {None}
    /\ call # None => ~call.stale \/ old # None
    /\ saving \in BOOLEAN /\ tells \in BOOLEAN /\ resets \in BOOLEAN /\ reload \in BOOLEAN /\ overlap \in BOOLEAN

\* The names a binding may have, whoever is watching.
Accounted == alive \cup missed \cup {None}

\* As long as no reload has overtaken a write, there is one store of bindings,
\* its file is behind only while it is being written, and the names it has are
\* accounted for.
FollowInv ==
    overlap \/ ( /\ old = None
                 /\ saving \/ file = live
                 /\ entry = "loading" => ~saving /\ call = None
                 /\ \A p \in Points : live[p].camera \in Accounted
                 /\ call # None => ~call.stale )

\* The buttons of a loaded entry are those of the directions, or a reload is
\* due: it waits for its turn, for a write, or for the end of a camera call.
ButtonsInv ==
    /\ call # None => call.given \/ call.binding.mode = "both"
    /\ \/ entry # "loaded" \/ reload \/ resets
       \/ call # None /\ call.given /\ ~call.stale
       \/ \A p \in Points : buttons[p] = B!Offered(live[p].mode) \/ p \in silent

IInv == TypeInv /\ FollowInv /\ ButtonsInv /\ PanelIsTold

-----------------------------------------------------------------------------
(* A step leaves the bindings alone, or is one of their operations.        *)
UserSets == \E p \in Points, b \in B!Binding : B!SetBinding(p, b)
CallBegins ==
    \E S \in SUBSET Points, b \in B!Binding, given \in BOOLEAN : \E p \in S : B!CallStarts(S, p, b, given)
RegistryChanges == \E c \in Cameras : B!Removed(c) \/ \E d \in Cameras : B!Renamed(c, d)
CallProceeds == \E p \in Points : B!CallSets(p)
PointsAppear == \E S : B!Announced(S)

LEMMA BindingSteps ==
    TypeInv /\ [Next]_vars =>
                   \/ UNCHANGED bindingVars
                   \/ UserSets \/ CallBegins \/ RegistryChanges \/ PointsAppear
                   \/ CallProceeds \/ B!CallEnds \/ B!CallCancelled
                   \/ B!Written \/ B!OldWritten
                   \/ B!Unload \/ B!Unloaded \/ B!Loads \/ B!Starts
<1> SUFFICES ASSUME TypeInv, Next
             PROVE  \/ UNCHANGED bindingVars
                    \/ UserSets \/ CallBegins \/ RegistryChanges \/ PointsAppear
                    \/ CallProceeds \/ B!CallEnds \/ B!CallCancelled
                    \/ B!Written \/ B!OldWritten
                    \/ B!Unload \/ B!Unloaded \/ B!Loads \/ B!Starts
  BY DEF vars
<1>1. CASE Fetch
  BY <1>1 DEF Fetch
<1>2. CASE \E i \in PresetIds : DeletePreset(i) \/ \E preset \in Selections : SavePreset(i, preset)
  BY <1>2 DEF DeletePreset, SavePreset
<1>3. CASE ChangeBindings
  <2>1. hub.points \subseteq Points
    BY PointsAssumption DEF TypeInv
  <2>2. \/ \E b \in B!Binding, p \in hub.points : B!SetBinding(p, b)
        \/ \E b \in B!Binding, S \in Targets, given \in BOOLEAN : \E p \in S : B!CallStarts(S, p, b, given)
        \/ RegistryChanges
    BY <1>3 DEF ChangeBindings, RegistryChanges
  <2>3. CASE \E b \in B!Binding, p \in hub.points : B!SetBinding(p, b)
    BY <2>1, <2>3 DEF UserSets
  <2>4. CASE \E b \in B!Binding, S \in Targets, given \in BOOLEAN : \E p \in S : B!CallStarts(S, p, b, given)
    BY <2>4, ChoicesAssumption DEF CallBegins
  <2> QED
    BY <2>2, <2>3, <2>4
<1>4. CASE ReloadByUser \/ Reload
  BY <1>4 DEF ReloadByUser, Reload
<1>5. CASE PresetWritten
  BY <1>5 DEF PresetWritten
<1>6. CASE BindingsWritten \/ CallGoesOn \/ CallEnds \/ CallCancelled \/ EntryGoesOn
  BY <1>6 DEF BindingsWritten, CallGoesOn, CallEnds, CallCancelled, EntryGoesOn, CallProceeds
<1>7. CASE HubLearns
  BY <1>7 DEF HubLearns, PointsAppear
<1> QED
  BY <1>1, <1>2, <1>3, <1>4, <1>5, <1>6, <1>7 DEF Next

-----------------------------------------------------------------------------
(* The parts of the invariant.                                             *)

\* Rebinding changes cameras only, to the new name.
LEMMA ReboundKeeps ==
    ASSUME live \in [Points -> B!Binding], NEW from, NEW to \in Cameras \cup {None}
    PROVE  /\ B!Rebound(from, to) \in [Points -> B!Binding]
           /\ \A p \in Points :
                /\ B!Rebound(from, to)[p].mode = live[p].mode
                /\ B!Rebound(from, to)[p].camera = IF live[p].camera = from THEN to ELSE live[p].camera
  BY DEF B!Rebound, B!Binding

LEMMA BooleanOr ==
    ASSUME NEW a \in BOOLEAN, NEW b
    PROVE  (a \/ b) \in BOOLEAN
  BY Zenon

LEMMA FollowTypes ==
    ASSUME TypeInv, NEW from, NEW to \in Cameras \cup {None}, B!Follow(from, to)
    PROVE  live' \in [Points -> B!Binding] /\ saving' \in BOOLEAN /\ tells' \in BOOLEAN
<1>1. CASE B!Watched
  <2>1. /\ live' = B!Rebound(from, to)
        /\ saving' = (saving \/ live' # live) /\ tells' = (tells \/ live' # live)
    BY <1>1 DEF B!Follow
  <2>2. saving' \in BOOLEAN /\ tells' \in BOOLEAN
    BY <2>1, BooleanOr DEF TypeInv
  <2> QED
    BY <2>1, <2>2, ReboundKeeps DEF TypeInv
<1>2. CASE ~B!Watched
  BY <1>2 DEF B!Follow, TypeInv
<1> QED
  BY <1>1, <1>2

\* A binding that is set keeps its type, whatever the rest of the step does.
LEMMA BindTypes ==
    ASSUME TypeInv, NEW p \in Points, NEW b \in B!Binding, B!Bind(p, b)
    PROVE  /\ live' \in [Points -> B!Binding] /\ saving' \in BOOLEAN
           /\ live'[p] = b /\ \A q \in Points \ {p} : live'[q] = live[q]
  BY DEF TypeInv, B!Bind

\* A call that is woken is the same call.
LEMMA ResumedSame ==
    ASSUME TypeInv, NEW stale
    PROVE  /\ B!Resumed(stale) \in B!Calls \cup {None} /\ (B!Resumed(stale) = None <=> call = None)
           /\ call # None => /\ B!Resumed(stale).stale = call.stale
                             /\ B!Resumed(stale).given = call.given
                             /\ B!Resumed(stale).binding = call.binding
<1>1. CASE call = None
  BY <1>1 DEF B!Resumed
<1>2. CASE call # None
  <2>1. call \in B!Calls
    BY <1>2 DEF TypeInv
  <2>2. [call EXCEPT !.waits = FALSE] \in B!Calls
    BY <2>1 DEF B!Calls
  <2> QED
    BY <1>2, <2>1, <2>2, NamesAssumption DEF B!Resumed, B!Calls
<1> QED
  BY <1>1, <1>2

LEMMA OldWithoutCallType ==
    ASSUME TypeInv PROVE B!OldWithoutCall \in B!Stores \cup {None}
  BY DEF TypeInv, B!OldWithoutCall

LEMMA TypeStep == TypeInv /\ [Next]_vars => TypeInv'
<1> SUFFICES ASSUME TypeInv, [Next]_vars PROVE TypeInv'
  OBVIOUS
<1>1. presets' \in [PresetIds -> P!Preset \cup {Absent}] /\ user' = user
  <2>1. CASE \E i \in PresetIds : DeletePreset(i) \/ \E preset \in Selections : SavePreset(i, preset)
    BY <2>1 DEF TypeInv, DeletePreset, SavePreset, Edit, P!Save, P!Delete, panelVars
  <2>2. CASE UNCHANGED <<presets, user>>
    BY <2>2 DEF TypeInv
  <2> QED
    BY <2>1, <2>2
    DEF Next, Fetch, ChangeBindings, ReloadByUser, HubLearns, Edit, PresetWritten, P!Written,
        BindingsWritten, CallGoesOn, CallEnds, CallCancelled, Reload, EntryGoesOn, Follows, presetVars,
        panelVars, vars
<1>2. hub' \in Answers
  BY DEF TypeInv, Next, Fetch, DeletePreset, SavePreset, ChangeBindings, ReloadByUser, HubLearns, Edit,
         PresetWritten, BindingsWritten, CallGoesOn, CallEnds, CallCancelled, Reload, EntryGoesOn, Follows, vars
<1> DEFINE Typed == /\ live' \in [Points -> B!Binding] /\ file' \in [Points -> B!Binding]
                    /\ call' \in B!Calls \cup {None} /\ old' \in B!Stores \cup {None}
                    /\ call' # None => ~call'.stale \/ old' # None
                    /\ saving' \in BOOLEAN /\ tells' \in BOOLEAN /\ resets' \in BOOLEAN
                    /\ reload' \in BOOLEAN /\ overlap' \in BOOLEAN
<1>3. Typed
  <2>1. CASE UNCHANGED bindingVars
    BY <2>1 DEF TypeInv, bindingVars
  <2>2. CASE UserSets
    <3>1. PICK p \in Points, b \in B!Binding : B!SetBinding(p, b)
      BY <2>2 DEF UserSets
    <3>2. live' \in [Points -> B!Binding] /\ saving' \in BOOLEAN
      BY <3>1, BindTypes DEF B!SetBinding
    <3>3. resets' \in BOOLEAN
      BY <3>1, BooleanOr DEF TypeInv, B!SetBinding
    <3> QED
      BY <3>1, <3>2, <3>3 DEF TypeInv, B!SetBinding
  <2>3. CASE CallBegins
    <3>1. PICK S \in SUBSET Points, p \in Points, b \in B!Binding, given \in BOOLEAN : B!CallStarts(S, p, b, given)
      BY <2>3 DEF CallBegins
    <3>2. call' \in B!Calls /\ ~call'.stale
      BY <3>1 DEF B!CallStarts, B!Calls
    <3>3. live' \in [Points -> B!Binding] /\ saving' \in BOOLEAN
      BY <3>1, BindTypes DEF B!CallStarts, B!CallSetsLive
    <3> QED
      BY <3>1, <3>2, <3>3 DEF TypeInv, B!CallStarts
  <2>4. CASE RegistryChanges
    <3>1. PICK c \in Cameras : B!Removed(c) \/ \E d \in Cameras : B!Renamed(c, d)
      BY <2>4 DEF RegistryChanges
    <3>2. live' \in [Points -> B!Binding] /\ saving' \in BOOLEAN /\ tells' \in BOOLEAN
      BY <3>1, FollowTypes DEF B!Removed, B!Renamed
    <3>3. UNCHANGED <<file, call, old, resets, reload, overlap>>
      BY <3>1 DEF B!Removed, B!Renamed
    <3> QED
      BY <3>2, <3>3 DEF TypeInv
  <2>5. CASE CallProceeds
    <3>1. PICK p \in Points : B!CallSets(p)
      BY <2>5 DEF CallProceeds
    <3>2. call \in B!Calls /\ call' \in B!Calls /\ call'.stale = call.stale
      BY <3>1 DEF TypeInv, B!CallSets, B!Calls
    <3>3. UNCHANGED <<file, tells, resets, reload, overlap>>
      BY <3>1 DEF B!CallSets
    <3>4. CASE call.stale
      <4>1. old' = [old EXCEPT !.bindings[p] = call.binding, !.dirty = TRUE] /\ UNCHANGED <<live, saving>>
        BY <3>1, <3>4 DEF B!CallSets
      <4>2. old \in B!Stores /\ call.binding \in B!Binding
        BY <3>1, <3>2, <3>4 DEF TypeInv, B!Calls, B!CallSets
      <4>3. [old.bindings EXCEPT ![p] = call.binding] \in [Points -> B!Binding]
        BY <4>2 DEF B!Stores
      <4>4. old' \in B!Stores
        BY <4>1, <4>2, <4>3 DEF B!Stores
      <4>5. old' # None
        BY <4>4, NamesAssumption
      <4> QED
        BY <3>2, <3>3, <4>1, <4>4, <4>5 DEF TypeInv
    <3>5. CASE ~call.stale
      <4>1. B!Bind(p, call.binding) /\ old' = old /\ call.binding \in B!Binding
        BY <3>1, <3>2, <3>5 DEF B!CallSets, B!CallSetsLive, B!Calls
      <4>2. live' \in [Points -> B!Binding] /\ saving' \in BOOLEAN
        BY <4>1, BindTypes
      <4> QED
        BY <3>2, <3>3, <3>5, <4>1, <4>2 DEF TypeInv
    <3> QED
      BY <3>4, <3>5
  <2>6. CASE B!CallEnds
    <3>1. (reload \/ call.given) \in BOOLEAN
      BY BooleanOr DEF TypeInv
    <3> QED
      BY <2>6, <3>1, OldWithoutCallType DEF TypeInv, B!CallEnds, B!history
  <2>7. CASE B!CallCancelled
    BY <2>7, OldWithoutCallType DEF TypeInv, B!CallCancelled
  <2>8. CASE B!Written
    <3>1. (reload \/ resets) \in BOOLEAN
      BY BooleanOr DEF TypeInv
    <3> QED
      BY <2>8, <3>1, ResumedSame DEF TypeInv, B!Written, B!history
  <2>9. CASE B!OldWritten
    <3>1. old \in B!Stores
      BY <2>9 DEF TypeInv, B!OldWritten
    <3>2. old' \in B!Stores \cup {None} /\ file' \in [Points -> B!Binding]
      BY <2>9, <3>1 DEF B!OldWritten, B!Stores
    <3>3. reload' \in BOOLEAN
      BY <2>9, BooleanOr DEF TypeInv, B!OldWritten
    <3>4. call # None => ~call.stale \/ old' # None
      BY <2>9, <3>1, NamesAssumption DEF B!OldWritten, B!Stores
    <3>5. UNCHANGED <<live, saving, tells, resets, overlap>> /\ call' = B!Resumed(TRUE)
      BY <2>9 DEF B!OldWritten, B!history
    <3> QED
      BY <3>2, <3>3, <3>4, <3>5, ResumedSame DEF TypeInv
  <2>10. CASE B!Unload
    BY <2>10 DEF TypeInv, B!Unload, B!storeVars, B!history
  <2>11. CASE B!Unloaded
    <3>1. overlap' \in BOOLEAN
      BY <2>11, BooleanOr DEF TypeInv, B!Unloaded
    <3>2. old' \in B!Stores \cup {None} /\ (call # None => old' # None)
      BY <2>11, NamesAssumption DEF TypeInv, B!Unloaded, B!Stores
    <3>3. call' \in B!Calls \cup {None} /\ (call = None => call' = None)
      BY <2>11 DEF TypeInv, B!Unloaded, B!Calls
    <3> QED
      BY <2>11, <3>1, <3>2, <3>3 DEF TypeInv, B!Unloaded
  <2>12. CASE B!Loads \/ B!Starts \/ PointsAppear
    BY <2>12 DEF TypeInv, B!Loads, B!Starts, PointsAppear, B!Announced, B!storeVars, B!history
  <2> QED
    BY <2>1, <2>2, <2>3, <2>4, <2>5, <2>6, <2>7, <2>8, <2>9, <2>10, <2>11, <2>12, BindingSteps
<1> QED
  BY <1>1, <1>2, <1>3 DEF TypeInv

\* A camera that is renamed or removed is followed, or it is missed; so no other
\* name is unaccounted for afterwards.
LEMMA RegistrySteps ==
    ASSUME TypeInv, FollowInv, RegistryChanges PROVE FollowInv'
<1> SUFFICES ASSUME ~overlap PROVE FollowInv'
  BY DEF FollowInv, RegistryChanges, B!Removed, B!Renamed
<1>1. PICK c \in Cameras, to \in Cameras \cup {None} :
         /\ B!Follow(c, to) /\ UNCHANGED <<entry, file, old, call>>
         /\ alive \ {c} \subseteq alive' /\ to \in alive' \cup {None}
  <2>1. PICK c \in Cameras : B!Removed(c) \/ \E d \in Cameras : B!Renamed(c, d)
    BY DEF RegistryChanges
  <2>2. CASE B!Removed(c)
    BY <2>2 DEF B!Removed
  <2>3. ASSUME NEW d \in Cameras, B!Renamed(c, d)
        PROVE  /\ B!Follow(c, d) /\ UNCHANGED <<entry, file, old, call>>
               /\ alive \ {c} \subseteq alive' /\ d \in alive' \cup {None}
    BY <2>3 DEF B!Renamed
  <2> QED
    BY <2>1, <2>2, <2>3
<1>2. missed \subseteq missed' /\ Accounted \ {c} \subseteq Accounted'
  BY <1>1 DEF B!Follow, Accounted
<1>3. /\ old' = None /\ (saving' \/ file' = live')
      /\ entry' = "loading" => ~saving' /\ call' = None
  BY <1>1 DEF B!Follow, B!Watched, FollowInv
<1>4. \A p \in Points : live'[p].camera \in Accounted'
  <2>1. CASE B!Watched
    <3>1. live' = B!Rebound(c, to)
      BY <1>1, <2>1 DEF B!Follow
    <3>2. \A p \in Points : live'[p].camera = IF live[p].camera = c THEN to ELSE live[p].camera
      BY <3>1, ReboundKeeps DEF TypeInv
    <3> QED
      BY <1>1, <1>2, <3>2 DEF FollowInv, Accounted
  <2>2. CASE ~B!Watched
    <3>1. live' = live /\ c \in missed'
      BY <1>1, <2>2 DEF B!Follow
    <3> QED
      BY <1>2, <3>1 DEF FollowInv, Accounted
  <2> QED
    BY <2>1, <2>2
<1>5. call' # None => ~call'.stale
  BY <1>1 DEF FollowInv
<1> QED
  BY <1>3, <1>4, <1>5 DEF FollowInv

\* A name that is bound is accounted for, be it that of no entity.
LEMMA BindAccounts ==
    ASSUME TypeInv, NEW p \in Points, NEW b \in B!Binding, B!Bind(p, b), alive' = alive,
           \A q \in Points : live[q].camera \in Accounted
    PROVE  /\ saving' /\ \A q \in Points : live'[q].camera \in Accounted'
<1>1. b.camera \in Accounted' /\ Accounted \subseteq Accounted' /\ saving'
  BY DEF B!Bind, B!Unknown, Accounted
<1>2. live'[p] = b /\ \A q \in Points \ {p} : live'[q] = live[q]
  BY BindTypes
<1> QED
  BY <1>1, <1>2

LEMMA FollowStep == TypeInv /\ FollowInv /\ [Next]_vars => FollowInv'
<1> SUFFICES ASSUME TypeInv, FollowInv, [Next]_vars PROVE FollowInv'
  OBVIOUS
<1>1. CASE UNCHANGED bindingVars
  BY <1>1 DEF FollowInv, Accounted, bindingVars
<1>2. CASE UserSets
  <2>1. PICK p \in Points, b \in B!Binding : B!SetBinding(p, b)
    BY <1>2 DEF UserSets
  <2>2. B!Bind(p, b) /\ entry' # "loading" /\ UNCHANGED <<old, call, alive, overlap>>
    BY <2>1 DEF B!SetBinding, B!HasRuntime
  <2> QED
    BY <2>2, BindAccounts DEF FollowInv
<1>3. CASE CallBegins
  <2>1. PICK S \in SUBSET Points, p \in Points, b \in B!Binding, given \in BOOLEAN : B!CallStarts(S, p, b, given)
    BY <1>3 DEF CallBegins
  <2>2. /\ B!Bind(p, b) /\ ~call'.stale /\ entry' # "loading" /\ p \in Points
        /\ UNCHANGED <<old, alive, overlap>>
    BY <2>1 DEF B!CallStarts, B!CallSetsLive, B!HasRuntime
  <2> QED
    BY <2>2, BindAccounts DEF FollowInv
<1>4. CASE RegistryChanges
  BY <1>4, RegistrySteps
<1>5. CASE CallProceeds
  <2>1. PICK p \in Points : B!CallSets(p)
    BY <1>5 DEF CallProceeds
  <2>2. CASE overlap
    BY <2>1, <2>2 DEF FollowInv, B!CallSets
  <2>3. CASE ~overlap
    <3>1. ~call.stale /\ call \in B!Calls /\ entry # "loading"
      BY <2>1, <2>3 DEF FollowInv, TypeInv, B!CallSets
    <3>2. B!Bind(p, call.binding) /\ UNCHANGED <<entry, old, alive, overlap>>
      BY <2>1, <3>1 DEF B!CallSets, B!CallSetsLive
    <3>3. call'.stale = call.stale /\ call.binding \in B!Binding
      BY <2>1, <3>1 DEF B!CallSets, B!Calls
    <3> QED
      BY <2>3, <3>1, <3>2, <3>3, BindAccounts DEF FollowInv
  <2> QED
    BY <2>2, <2>3
<1>6. CASE B!CallEnds \/ B!CallCancelled
  BY <1>6 DEF FollowInv, Accounted, B!CallEnds, B!CallCancelled, B!OldWithoutCall, B!history
<1>7. CASE B!Written
  BY <1>7, ResumedSame DEF FollowInv, Accounted, B!Written, B!history
<1>8. CASE B!OldWritten
  BY <1>8 DEF FollowInv, B!OldWritten, B!history
<1>9. CASE B!Unload
  BY <1>9 DEF FollowInv, Accounted, B!Unload, B!storeVars, B!history
<1>10. CASE B!Unloaded
  BY <1>10 DEF FollowInv, Accounted, B!Unloaded
<1>11. CASE B!Loads \/ B!Starts \/ PointsAppear
  BY <1>11
  DEF FollowInv, Accounted, B!Loads, B!Starts, PointsAppear, B!Announced, B!storeVars, B!history
<1> QED
  BY <1>1, <1>2, <1>3, <1>4, <1>5, <1>6, <1>7, <1>8, <1>9, <1>10, <1>11, BindingSteps

\* Without a direction a call changes the mode of no point but of those it silences.
LEMMA CallSetsModes ==
    ASSUME TypeInv, NEW p \in Points, NEW b \in B!Binding, b.mode = "both", B!CallSetsLive(p, b, FALSE)
    PROVE  \A q \in Points : live'[q].mode = live[q].mode \/ q \in silent'
<1>1. live'[p] = b /\ \A q \in Points \ {p} : live'[q] = live[q]
  BY BindTypes DEF B!CallSetsLive
<1>2. live[p].mode # "both" => p \in silent'
  BY DEF B!CallSetsLive
<1> QED
  BY <1>1, <1>2

LEMMA ButtonsStep == TypeInv /\ ButtonsInv /\ [Next]_vars => ButtonsInv'
<1> SUFFICES ASSUME TypeInv, ButtonsInv, [Next]_vars PROVE ButtonsInv'
  OBVIOUS
<1>1. CASE UNCHANGED bindingVars
  BY <1>1 DEF ButtonsInv, bindingVars
<1>2. CASE UserSets
  <2>1. PICK p \in Points, b \in B!Binding : B!SetBinding(p, b)
    BY <1>2 DEF UserSets
  <2>2. live' = [live EXCEPT ![p] = b] /\ UNCHANGED <<entry, call, reload, buttons, silent>>
    BY <2>1 DEF B!SetBinding, B!Bind
  <2>3. CASE b.mode = live[p].mode
    <3>1. resets' = resets
      BY <2>1, <2>3 DEF B!SetBinding, TypeInv
    <3>2. \A q \in Points : live'[q].mode = live[q].mode
      BY <2>2, <2>3 DEF TypeInv
    <3> QED
      BY <2>2, <3>1, <3>2 DEF ButtonsInv
  <2>4. CASE b.mode # live[p].mode
    BY <2>1, <2>2, <2>4 DEF B!SetBinding, ButtonsInv
  <2> QED
    BY <2>3, <2>4
<1>3. CASE CallBegins
  <2>1. PICK S \in SUBSET Points, p \in Points, b \in B!Binding, given \in BOOLEAN : B!CallStarts(S, p, b, given)
    BY <1>3 DEF CallBegins
  <2>2. /\ call = None /\ call' \in B!Calls /\ call'.given = given /\ call'.binding = b /\ ~call'.stale
        /\ (given \/ b.mode = "both") /\ UNCHANGED <<entry, reload, resets, buttons>>
    BY <2>1 DEF B!CallStarts, B!Calls
  <2>3. CASE given
    BY <2>2, <2>3, NamesAssumption DEF ButtonsInv
  <2>4. CASE ~given
    <3>1. \A q \in Points : live'[q].mode = live[q].mode \/ q \in silent'
      BY <2>1, <2>2, <2>4, CallSetsModes DEF B!CallStarts
    <3>2. silent \subseteq silent'
      BY <2>1 DEF B!CallStarts, B!CallSetsLive
    <3> QED
      BY <2>2, <2>4, <3>1, <3>2 DEF ButtonsInv
  <2> QED
    BY <2>3, <2>4
<1>4. CASE RegistryChanges
  <2>1. PICK c \in Cameras, to \in Cameras \cup {None} :
           /\ B!Follow(c, to) /\ UNCHANGED <<entry, reload, resets, buttons, silent, call>>
    BY <1>4 DEF RegistryChanges, B!Removed, B!Renamed
  <2>2. \A p \in Points : live'[p].mode = live[p].mode
    BY <2>1, ReboundKeeps DEF B!Follow, TypeInv
  <2> QED
    BY <2>1, <2>2 DEF ButtonsInv
<1>5. CASE CallProceeds
  <2>1. PICK p \in Points : B!CallSets(p)
    BY <1>5 DEF CallProceeds
  <2>2. call \in B!Calls /\ call # None
    BY <2>1 DEF TypeInv, B!CallSets
  <2>3. /\ call'.given = call.given /\ call'.binding = call.binding /\ call'.stale = call.stale
        /\ call' # None
    BY <2>1, <2>2, NamesAssumption DEF B!CallSets, B!Calls
  <2>4. UNCHANGED <<entry, reload, resets, buttons>>
    BY <2>1 DEF B!CallSets
  <2>5. CASE call.stale
    <3>1. UNCHANGED <<live, silent>>
      BY <2>1, <2>5 DEF B!CallSets
    <3> QED
      BY <2>2, <2>3, <2>4, <3>1 DEF ButtonsInv
  <2>6. CASE call.given /\ ~call.stale
    BY <2>2, <2>3, <2>4, <2>6 DEF ButtonsInv
  <2>7. CASE ~call.stale /\ ~call.given
    <3>1. B!CallSetsLive(p, call.binding, FALSE) /\ call.binding.mode = "both" /\ call.binding \in B!Binding
      BY <2>1, <2>2, <2>7 DEF B!CallSets, B!CallSetsLive, B!Calls, ButtonsInv
    <3>2. \A q \in Points : live'[q].mode = live[q].mode \/ q \in silent'
      BY <3>1, CallSetsModes
    <3>3. silent \subseteq silent'
      BY <3>1 DEF B!CallSetsLive
    <3> QED
      BY <2>2, <2>3, <2>4, <2>7, <3>2, <3>3 DEF ButtonsInv
  <2> QED
    BY <2>5, <2>6, <2>7
<1>6. CASE B!CallEnds
  BY <1>6 DEF ButtonsInv, B!CallEnds, B!history
<1>7. CASE B!Written
  BY <1>7, ResumedSame DEF ButtonsInv, B!Written, B!history
<1>8. CASE B!OldWritten
  BY <1>8, ResumedSame DEF ButtonsInv, B!OldWritten, B!history
<1>9. CASE B!Unload
  BY <1>9 DEF ButtonsInv, B!Unload, B!storeVars, B!history
<1>10. CASE B!Unloaded
  <2>1. call' # None => call # None /\ call'.given = call.given /\ call'.binding = call.binding
    BY <1>10 DEF B!Unloaded, TypeInv, B!Calls
  <2> QED
    BY <1>10, <2>1 DEF ButtonsInv, B!Unloaded
<1>11. CASE B!Loads
  BY <1>11 DEF ButtonsInv, B!Loads, B!history
<1>12. CASE B!Starts
  BY <1>12 DEF ButtonsInv, B!Starts, B!storeVars
<1>13. CASE PointsAppear
  BY <1>13 DEF ButtonsInv, PointsAppear, B!Announced, B!storeVars, B!history
<1>14. CASE B!CallCancelled
  <2>1. CASE call.stale
    BY <1>14, <2>1 DEF ButtonsInv, B!CallCancelled
  <2>2. CASE ~call.stale
    BY <1>14, <2>2 DEF ButtonsInv, B!CallCancelled
  <2> QED
    BY <2>1, <2>2
<1> QED
  BY <1>1, <1>2, <1>3, <1>4, <1>5, <1>6, <1>7, <1>8, <1>9, <1>10, <1>11, <1>12, <1>13, <1>14, BindingSteps

-----------------------------------------------------------------------------
(* What the panel shows.                                                   *)

\* Of one point it is the row, or nothing.
LEMMA ShownIs ==
    ASSUME NEW p PROVE Shown(Data, p) = IF p \in Seen THEN {Row(p)} ELSE {}
<1>1. Data.points = {Row(q) : q \in Seen}
  BY DEF Data
<1>2. \A q : Row(q).id = q
  BY DEF Row
<1> HIDE DEF Data, Row, Seen
<1> QED
  BY <1>1, <1>2 DEF Shown

\* The presets shown depend on the presets alone, and a row on its point too.
LEMMA PresetsSame ==
    ASSUME UNCHANGED <<presets, user>>
    PROVE  Data.presets' = Data.presets /\ Data.restricted' = Data.restricted /\ Access' = Access
<1>1. Access' = Access
  BY DEF Access, P!AccessFor, P!Present
<1> QED
  BY <1>1 DEF Data

LEMMA ShownSame ==
    ASSUME UNCHANGED <<presets, user>>, B!HasRuntime' <=> B!HasRuntime, NEW p,
           B!HasRuntime => (p \in hub.points <=> p \in hub'.points),
           ZoneOf(p)' = ZoneOf(p), live'[p] = live[p], buttons'[p] = buttons[p]
    PROVE  Shown(Data, p)' = Shown(Data, p)
<1>1. Access' = Access
  BY PresetsSame
<1>2. P!Allows(Access, p, ZoneOf(p))' <=> P!Allows(Access, p, ZoneOf(p))
  BY <1>1 DEF P!Allows, P!Covers
<1>3. (p \in Seen)' <=> p \in Seen
  BY <1>2 DEF Seen
<1>4. Row(p)' = Row(p)
  BY DEF Row
<1>5. Shown(Data, p)' = IF (p \in Seen)' THEN {Row(p)'} ELSE {}
  <2>1. Data.points' = {Row(q)' : q \in Seen'}
    BY DEF Data
  <2>2. \A q : Row(q)'.id = q
    BY DEF Row
  <2> HIDE DEF Data, Row, Seen
  <2> QED
    BY <2>1, <2>2 DEF Shown
<1> QED
  BY <1>3, <1>4, <1>5, ShownIs

\* Who promises to tell of a binding.
Telling == tells \/ (call # None /\ ~call.stale)

LEMMA ToldStep == TypeInv /\ PanelIsTold /\ [Next]_vars => PanelIsTold'
<1> SUFFICES ASSUME TypeInv, PanelIsTold, [Next]_vars PROVE PanelIsTold'
  OBVIOUS
<1>1. CASE Fetch
  <2>1. /\ UNCHANGED <<presets, user, live, buttons, hub, entry>> /\ view' = Data
    BY <1>1 DEF Fetch, presetVars, bindingVars
  <2>2. Data.presets' = Data.presets /\ Data.restricted' = Data.restricted
    BY <2>1, PresetsSame
  <2>3. \A p : Shown(Data, p)' = Shown(Data, p)
    BY <2>1, ShownSame DEF ZoneOf, B!HasRuntime
  <2>4. \A p : Shown(view, p)' = Shown(Data, p)
    BY <2>1 DEF Shown
  <2> QED
    BY <2>1, <2>2, <2>3, <2>4 DEF PanelIsTold
<1>2. CASE \E i \in PresetIds : DeletePreset(i) \/ \E preset \in Selections : SavePreset(i, preset)
  BY <1>2 DEF DeletePreset, SavePreset, P!Save, P!Delete, PanelIsTold
<1>3. ASSUME UNCHANGED <<presets, user, view>>, told \/ writing => told' \/ writing',
             \/ told' \/ Telling' \/ Points \subseteq untold'
             \/ /\ Telling => Telling' \/ told'
                /\ B!HasRuntime' <=> B!HasRuntime
                /\ untold \subseteq untold'
                /\ \A p \in Points \ untold' :
                      /\ B!HasRuntime => (p \in hub.points <=> p \in hub'.points)
                      /\ ZoneOf(p)' = ZoneOf(p) /\ live'[p] = live[p] /\ buttons'[p] = buttons[p]
      PROVE  PanelIsTold'
  <2>1. CASE told' \/ writing'
    BY <2>1 DEF PanelIsTold
  <2>2. CASE ~(told' \/ writing')
    <3>1. view.presets = Data.presets /\ view.restricted = Data.restricted
      BY <1>3, <2>2 DEF PanelIsTold
    <3>2. view'.presets = Data.presets' /\ view'.restricted = Data.restricted'
      BY <1>3, <3>1, PresetsSame
    <3>3. CASE Telling' \/ Points \subseteq untold'
      BY <3>2, <3>3 DEF PanelIsTold, Telling
    <3>4. CASE ~(Telling' \/ Points \subseteq untold')
      <4>1. ~Telling /\ \A p \in Points \ untold : Shown(view, p) = Shown(Data, p)
        BY <1>3, <2>2, <3>4 DEF PanelIsTold, Telling
      <4>2. ASSUME NEW p \in Points \ untold' PROVE Shown(view, p)' = Shown(Data, p)'
        <5>1. Shown(Data, p)' = Shown(Data, p)
          BY <1>3, <2>2, <3>4, ShownSame
        <5>2. Shown(view, p)' = Shown(view, p)
          BY <1>3 DEF Shown
        <5> QED
          BY <1>3, <2>2, <3>4, <4>1, <5>1, <5>2
      <4> QED
        BY <3>2, <4>2 DEF PanelIsTold
    <3> QED
      BY <3>3, <3>4
  <2> QED
    BY <2>1, <2>2
<1>4. CASE ChangeBindings
  <2>1. UNCHANGED <<presets, user, view, told, writing, untold, hub>>
    BY <1>4 DEF ChangeBindings, Edit, presetVars, panelVars
  <2>2. ASSUME NEW p, NEW b \in B!Binding, B!SetBinding(p, b) PROVE PanelIsTold'
    BY <1>3, <2>1, <2>2 DEF B!SetBinding, Telling
  <2>3. ASSUME NEW S \in Targets, NEW b \in B!Binding, NEW given \in BOOLEAN, NEW p \in S,
               B!CallStarts(S, p, b, given)
        PROVE  PanelIsTold'
    <3>1. call' \in B!Calls /\ ~call'.stale
      BY <2>3, ChoicesAssumption DEF B!CallStarts, B!Calls
    <3>2. Telling'
      BY <3>1, NamesAssumption DEF Telling
    <3> QED
      BY <1>3, <2>1, <3>2
  <2>4. ASSUME NEW from, NEW to, B!Follow(from, to), UNCHANGED <<entry, call, buttons>>
        PROVE  PanelIsTold'
    <3>1. CASE live' = live
      <4>1. Telling => Telling'
        BY <2>4, <3>1 DEF B!Follow, Telling
      <4> QED
        BY <1>3, <2>1, <2>4, <3>1, <4>1 DEF B!HasRuntime, ZoneOf
    <3>2. CASE live' # live
      BY <1>3, <2>1, <2>4, <3>2 DEF B!Follow, Telling
    <3> QED
      BY <3>1, <3>2
  <2>5. ASSUME NEW c \in Cameras, B!Removed(c) \/ \E d \in Cameras : B!Renamed(c, d)
        PROVE  PanelIsTold'
    BY <2>4, <2>5 DEF B!Removed, B!Renamed
  <2> QED
    BY <1>4, <2>2, <2>3, <2>5 DEF ChangeBindings
<1>5. CASE ReloadByUser \/ Reload
  <2>1. /\ UNCHANGED <<presets, user, live, buttons, hub, view, told, writing, tells, call, untold>>
        /\ entry = "loaded" /\ entry' = "unloading"
    BY <1>5 DEF ReloadByUser, Reload, Edit, Follows, presetVars, panelVars, B!Unload, B!storeVars
  <2> QED
    BY <1>3, <2>1 DEF B!HasRuntime, ZoneOf, Telling
<1>6. CASE HubLearns
  <2>1. /\ UNCHANGED <<presets, user, live, view, told, writing, tells, call, entry>>
        /\ entry # "loading" => hub.points \subseteq hub'.points
        /\ B!Announced(hub'.points \ hub.points)
        /\ untold' = untold \cup {p \in Points : ZoneOf(p) # ZoneOf(p)' \/ p \in hub'.points \ hub.points}
    BY <1>6 DEF HubLearns, presetVars, B!Announced, B!storeVars
  <2>2. ASSUME NEW p \in Points \ untold'
        PROVE  /\ B!HasRuntime => (p \in hub.points <=> p \in hub'.points)
               /\ ZoneOf(p)' = ZoneOf(p) /\ buttons'[p] = buttons[p]
    <3>1. p \notin hub'.points \ hub.points /\ ZoneOf(p)' = ZoneOf(p)
      BY <2>1, <2>2
    <3>2. buttons'[p] = buttons[p]
      BY <2>1, <2>2, <3>1 DEF B!Announced
    <3>3. B!HasRuntime => entry # "loading"
      BY DEF B!HasRuntime
    <3> QED
      BY <2>1, <3>1, <3>2, <3>3
  <2>3. untold \subseteq untold' /\ (B!HasRuntime' <=> B!HasRuntime) /\ (Telling' <=> Telling)
    BY <2>1 DEF B!HasRuntime, Telling
  <2> QED
    BY <1>3, <2>1, <2>2, <2>3
<1>7. CASE PresetWritten \/ CallEnds
  BY <1>7 DEF PresetWritten, CallEnds, PanelIsTold
<1>8. CASE BindingsWritten
  <2>1. /\ UNCHANGED <<presets, user, live, buttons, hub, view, writing, untold, entry>>
        /\ (told => told') /\ (Telling => Telling' \/ told')
    <3>1. CASE B!Written /\ told' = (told \/ tells)
      BY <1>8, <3>1, ResumedSame DEF BindingsWritten, Follows, presetVars, B!Written, B!history, Telling
    <3>2. CASE B!OldWritten /\ told' = (told \/ old.tells)
      BY <1>8, <3>2, ResumedSame DEF BindingsWritten, Follows, presetVars, B!OldWritten, B!history, Telling
    <3> QED
      BY <1>8, <3>1, <3>2 DEF BindingsWritten
  <2>2. CASE told'
    BY <2>2 DEF PanelIsTold
  <2>3. CASE ~told'
    <3>1. (B!HasRuntime' <=> B!HasRuntime) /\ \A p : ZoneOf(p)' = ZoneOf(p)
      BY <2>1 DEF B!HasRuntime, ZoneOf
    <3>2. ~told /\ (Telling => Telling') /\ (told \/ writing => told' \/ writing')
      BY <2>1, <2>3
    <3>3. UNCHANGED <<presets, user, view>> /\ untold \subseteq untold'
      BY <2>1
    <3>4. \A p \in Points \ untold' :
             /\ B!HasRuntime => (p \in hub.points <=> p \in hub'.points)
             /\ ZoneOf(p)' = ZoneOf(p) /\ live'[p] = live[p] /\ buttons'[p] = buttons[p]
      BY <2>1, <3>1
    <3> HIDE DEF Telling, ZoneOf
    <3> QED
      BY <1>3, <3>1, <3>2, <3>3, <3>4
  <2> QED
    BY <2>2, <2>3
<1>9. CASE CallGoesOn
  <2>1. PICK p \in Points : B!CallSets(p)
    BY <1>9 DEF CallGoesOn
  <2>2. UNCHANGED <<presets, user, buttons, hub, view, told, writing, untold, entry, tells>>
    BY <1>9, <2>1 DEF CallGoesOn, Follows, presetVars, B!CallSets
  <2>3. call # None /\ call' # None /\ call'.stale = call.stale
    <3>1. call # None /\ call \in B!Calls
      BY <2>1 DEF B!CallSets, TypeInv
    <3>2. call' \in B!Calls /\ call'.stale = call.stale
      BY <2>1, <3>1 DEF B!CallSets, B!Calls
    <3> QED
      BY <3>1, <3>2, NamesAssumption
  <2>4. CASE call.stale
    <3>1. live' = live
      BY <2>1, <2>4 DEF B!CallSets
    <3> QED
      BY <1>3, <2>2, <2>3, <3>1 DEF B!HasRuntime, ZoneOf, Telling
  <2>5. CASE ~call.stale
    BY <1>3, <2>2, <2>3, <2>5 DEF Telling
  <2> QED
    BY <2>4, <2>5
<1>10. CASE CallCancelled
  <2>1. /\ UNCHANGED <<presets, user, live, buttons, hub, view, told, writing, entry, tells>>
        /\ untold' = IF call.stale THEN untold ELSE Points
    BY <1>10 DEF CallCancelled, B!CallCancelled, Follows, presetVars
  <2>2. CASE call.stale
    BY <1>3, <2>1, <2>2 DEF B!HasRuntime, ZoneOf, Telling
  <2>3. CASE ~call.stale
    BY <1>3, <2>1, <2>3
  <2> QED
    BY <2>2, <2>3
<1>11. CASE EntryGoesOn
  <2>1. UNCHANGED <<presets, user, view, told, writing>> /\ untold' = Points
    BY <1>11 DEF EntryGoesOn, Follows, presetVars
  <2> QED
    BY <1>3, <2>1
<1>12. CASE UNCHANGED vars
  <2>1. UNCHANGED <<presets, user, live, buttons, hub, view, told, writing, tells, call, untold, entry>>
    BY <1>12 DEF vars, presetVars, bindingVars, panelVars
  <2> QED
    BY <1>3, <2>1 DEF B!HasRuntime, ZoneOf, Telling
<1> QED
  BY <1>1, <1>2, <1>4, <1>5, <1>6, <1>7, <1>8, <1>9, <1>10, <1>11, <1>12 DEF Next

-----------------------------------------------------------------------------
(* The theorems.                                                           *)

LEMMA IInvInit == Init => IInv
<1> SUFFICES ASSUME Init PROVE IInv
  OBVIOUS
<1>1. B!Empty \in B!Binding
  BY ChoicesAssumption DEF B!Empty, B!Binding
<1>2. TypeInv
  BY <1>1 DEF Init, P!Init, B!Init, TypeInv
<1>3. FollowInv
  BY <1>1 DEF Init, B!Init, FollowInv, Accounted, B!Empty
<1>4. ButtonsInv
  BY DEF Init, B!Init, ButtonsInv
<1>5. PanelIsTold
  BY DEF Init, PanelIsTold
<1> QED
  BY <1>2, <1>3, <1>4, <1>5 DEF IInv

LEMMA IInvAlways == Spec => []IInv
<1>1. IInv /\ [Next]_vars => IInv'
  BY TypeStep, FollowStep, ButtonsStep, ToldStep DEF IInv
<1> QED
  BY <1>1, IInvInit, PTL DEF Spec

\* An open panel that does not show what presets and bindings were edited to has been
\* told, or will be, however many edits, calls and writes overlap; unless the entry was
\* reloaded, a camera call was cancelled, or the hub learned something about the point.
THEOREM ChangesAreTold == Spec => []PanelIsTold
  BY IInvAlways, PTL DEF IInv

\* However often cameras are renamed and removed while bindings are set and written,
\* a loaded entry names none that is gone, but for names that no entity had when they
\* were bound and for changes that a reload hid.
THEOREM BindingsFollow == Spec => []BindingsFollowRegistry
<1>1. FollowInv => BindingsFollowRegistry
  BY DEF FollowInv, Accounted, BindingsFollowRegistry, B!BindingsFollowRegistry
<1> QED
  BY <1>1, IInvAlways, PTL DEF IInv

\* However direction changes, camera calls, writes and reloads overlap, a loaded entry
\* with nothing pending has the pass buttons of its directions, but for those of
\* directions a call reset silently or was cancelled after it had set.
THEOREM ButtonsMatch == Spec => []ButtonsMatchDirection
<1>1. ButtonsInv => ButtonsMatchDirection
  BY DEF ButtonsInv, ButtonsMatchDirection, B!ButtonsMatchDirection
<1> QED
  BY <1>1, IInvAlways, PTL DEF IInv

\* What a restricted user is allowed is what the presets that name the user consist of.
LEMMA TheirsAllowed ==
    ASSUME TypeInv, Named, ~user.admin
    PROVE  /\ Access.restricted
           /\ Theirs = {p \in Points : P!Allows(Access, p, ZoneOf(p))}
<1> DEFINE mine == {j \in P!Present : user.id \in presets[j].users}
<1>1. Access = [offered |-> mine, restricted |-> TRUE]
  BY DEF Named, Access, P!AccessFor
<1>2. \A i \in mine : presets[i] \in P!Preset
  BY DEF TypeInv, P!Present
<1>3. \A i \in mine, p \in Points :
         P!Covers(presets[i], p, ZoneOf(p)) <=> p \in presets[i].points \/ ZoneOf(p) \in presets[i].zones
  BY <1>2, PointsAssumption DEF P!Covers, P!Preset
<1>4. \A i \in mine : presets[i].points \subseteq Points
  BY <1>2 DEF P!Preset
<1>5. \A p : p \in Theirs <=> p \in Points /\ P!Allows(Access, p, ZoneOf(p))
  BY <1>1, <1>3, <1>4 DEF Theirs, P!Allows
<1> QED
  BY <1>1, <1>5

\* A user whom presets name sees the points of those presets, their events, and no
\* others; everybody else sees all.
THEOREM UsersSee == Spec => []UsersSeeTheirOwn
<1>1. TypeInv => UsersSeeTheirOwn
  <2> SUFFICES ASSUME TypeInv, B!HasRuntime PROVE UsersSeeTheirOwn
    BY DEF UsersSeeTheirOwn
  <2> DEFINE allowed == {p \in Points : P!Allows(Access, p, ZoneOf(p))}
  <2>0. hub.points \subseteq Points
    BY PointsAssumption DEF TypeInv
  <2>1. {r.id : r \in Data.points} = allowed \cap hub.points
    <3>1. Data.points = {Row(p) : p \in Seen}
      BY DEF Data
    <3>2. \A p : Row(p).id = p
      BY DEF Row
    <3>3. Seen = allowed \cap hub.points
      BY <2>0 DEF Seen
    <3> HIDE DEF allowed, Seen, Row
    <3> QED
      BY <3>1, <3>2, <3>3
  <2>2. \A p \in Points : EventAllowed(p) <=> p \in allowed
    BY PointsAssumption DEF EventAllowed, P!Allows
  <2>3. EventAllowed(NoPoint) <=> ~Access.restricted \/ allowed \cap hub.points # {}
    BY <2>0 DEF EventAllowed, SeesSome
  <2>4. CASE Named /\ ~user.admin
    <3>1. Access.restricted /\ allowed = Theirs
      BY <2>4, TheirsAllowed
    <3>2. Theirs \subseteq Points
      BY <3>1
    <3> HIDE DEF allowed
    <3> QED
      BY <2>1, <2>2, <2>3, <2>4, <3>1, <3>2 DEF UsersSeeTheirOwn
  <2>5. CASE ~(Named /\ ~user.admin)
    <3>1. ~Access.restricted
      BY <2>5 DEF Access, P!AccessFor, Named
    <3>2. allowed = Points
      BY <3>1 DEF P!Allows
    <3> HIDE DEF allowed
    <3> QED
      BY <2>1, <2>2, <2>3, <2>5, <3>1, <3>2 DEF UsersSeeTheirOwn
  <2> QED
    BY <2>4, <2>5
<1> QED
  BY <1>1, IInvAlways, PTL DEF IInv
=============================================================================
