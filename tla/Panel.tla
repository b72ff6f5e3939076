-------------------------------- MODULE Panel --------------------------------
(***************************************************************************)
(* websocket_api.py: what one open panel is given and told, composed of the*)
(* presets (Presets) and the bindings of one server (Bindings).            *)
(*                                                                         *)
(* ws_panel_data and the callbacks of ws_panel_subscribe each run in one   *)
(* step once the presets are loaded.                                       *)
(***************************************************************************)
EXTENDS Naturals, FiniteSets

CONSTANTS
    PresetIds, Users, Points, Zones, NoZone, Absent, Cameras, None, Modes,
    Selections, \* bound: the presets administrators save
    Targets,   \* bound: the sets of points a camera call names
    Answers,   \* bound: what the server may answer: [points, zone, status]
    NoPoint,   \* an event of the server itself
    MaxEdits,  \* bound: presets saved or deleted, bindings and cameras changed, and
               \* reloads by hand
    MaxAnswers \* bound: changes of what the server answers

VARIABLES
    presets, writing,
    entry, live, file, saving, tells, resets, old, call, reload, alive, buttons, missed, overlap, silent,
    hub,       \* the hub: points (access_points), zone (zone_a of each point's info),
               \* and one status for the names, the zones, what is available and how
               \* the server is connected
    user,      \* who has the panel open: [id, admin]
    view,      \* what it shows
    told,      \* "changed" has reached it since
    untold,    \* history: points about which something changed, since the panel fetched
               \* its data, that the code tells nobody
    edits, answers  \* counters behind the bounds

P == INSTANCE Presets
B == INSTANCE Bindings

ASSUME PointsAssumption ==
    /\ Points # {} /\ NoPoint \notin Points
    /\ NoZone \notin Zones
    /\ \A a \in Answers : a.points \subseteq Points /\ a.zone \in [Points -> Zones \cup {NoZone}]
ASSUME NamesAssumption == Absent \notin P!Preset /\ None \notin B!Calls \cup B!Stores
ASSUME ChoicesAssumption == "both" \in Modes /\ Targets \subseteq SUBSET Points

presetVars == <<presets, writing>>
bindingVars == <<entry, live, file, saving, tells, resets, old, call, reload, alive, buttons,
                 missed, overlap, silent>>
panelVars == <<user, view, told, untold>>
vars == <<presetVars, bindingVars, hub, panelVars, edits, answers>>

Access == P!AccessFor(user.id, user.admin)

\* _zone_of
ZoneOf(p) == IF p \in hub.points THEN hub.zone[p] ELSE NoZone

\* ws_panel_data: nothing of a server of which the user may see no point.
Seen == {p \in hub.points : B!HasRuntime /\ P!Allows(Access, p, ZoneOf(p))}
Row(p) == [id |-> p, zone |-> ZoneOf(p), camera |-> live[p].camera, mode |-> live[p].mode, buttons |-> buttons[p]]
Data ==
    [points |-> {Row(p) : p \in Seen},
     status |-> IF B!HasRuntime /\ (Access.restricted => Seen # {}) THEN hub.status ELSE None,
     presets |-> {[id |-> i, points |-> presets[i].points, zones |-> presets[i].zones,
                   users |-> IF user.admin THEN presets[i].users ELSE {}] : i \in Access.offered},
     restricted |-> Access.restricted]

Init ==
    /\ P!Init /\ B!Init /\ hub \in Answers
    /\ user \in [id : Users, admin : BOOLEAN]
    /\ view = Data /\ told = FALSE /\ untold = {}
    /\ edits = 0 /\ answers = 0

\* _event_allowed
SeesSome == \E q \in hub.points : P!Allows(Access, q, ZoneOf(q))
EventAllowedAsFetched(p) ==
    \/ ~view.restricted
    \/ B!HasRuntime /\ IF p = NoPoint THEN SeesSome ELSE P!Allows(Access, p, ZoneOf(p))

EventAllowed(p) ==
    \/ ~Access.restricted
    \/ B!HasRuntime /\ IF p = NoPoint THEN SeesSome ELSE P!Allows(Access, p, ZoneOf(p))

-----------------------------------------------------------------------------
(* The panel asks once when it is opened and whenever it is told to.        *)
Fetch ==
    /\ told
    /\ view' = Data /\ told' = FALSE /\ untold' = {}
    /\ UNCHANGED <<presetVars, bindingVars, hub, user, edits, answers>>

-----------------------------------------------------------------------------
(* What users, administrators, the registry and the server change.         *)
Edit == edits < MaxEdits /\ edits' = edits + 1 /\ UNCHANGED <<hub, panelVars, answers>>

SavePreset(i, preset) == Edit /\ P!Save(i, preset) /\ UNCHANGED bindingVars
DeletePreset(i) == Edit /\ P!Delete(i) /\ UNCHANGED bindingVars

\* ws_set_binding knows just the points of the hub, a camera call any that has a
\* device.  Neither looks the camera up: the panel sends the name it has fetched.
ChangeBindings ==
    /\ Edit /\ UNCHANGED presetVars
    /\ \/ \E b \in B!Binding :
            \/ \E p \in hub.points : B!SetBinding(p, b)
            \/ \E S \in Targets, given \in BOOLEAN : \E p \in S : B!CallStarts(S, p, b, given)
       \/ \E c \in Cameras : B!Removed(c) \/ \E d \in Cameras : B!Renamed(c, d)

ReloadByUser == Edit /\ B!Unload /\ UNCHANGED presetVars

\* A poll or a lost or new session; only a new hub forgets points.  The steps are
\* those of AccessPoints and HubSessions; none of them tells a panel.
HubLearns ==
    /\ answers < MaxAnswers /\ answers' = answers + 1
    /\ hub' \in Answers /\ (entry # "loading" => hub.points \subseteq hub'.points)
    /\ B!Announced(hub'.points \ hub.points)
    /\ untold' = untold \cup {p \in Points : ZoneOf(p) # ZoneOf(p)' \/ p \in hub'.points \ hub.points}
    /\ UNCHANGED <<presetVars, user, view, told, edits>>

-----------------------------------------------------------------------------
(* What follows by itself.  Who waits for a write then calls               *)
(* async_notify_panel, a camera call once it is through.                   *)
Follows == UNCHANGED <<hub, user, view, edits, answers>>

PresetWrittenQuietly == P!Written /\ UNCHANGED <<bindingVars, told, untold>> /\ Follows
PresetWritten == P!Written /\ told' = TRUE /\ UNCHANGED <<bindingVars, untold>> /\ Follows

BindingsWritten ==
    /\ \/ B!Written /\ told' = (told \/ tells)
       \/ B!OldWritten /\ told' = (told \/ old.tells)
    /\ UNCHANGED <<presetVars, untold>> /\ Follows

CallGoesOn ==
    /\ \E p \in Points : B!CallSets(p)
    /\ UNCHANGED <<presetVars, told, untold>> /\ Follows

CallEnds == B!CallEnds /\ told' = TRUE /\ UNCHANGED <<presetVars, untold>> /\ Follows

CallCancelled ==
    /\ B!CallCancelled /\ untold' = IF call.stale THEN untold ELSE Points
    /\ UNCHANGED <<presetVars, told>> /\ Follows

Reload == reload /\ B!Unload /\ UNCHANGED <<presetVars, told, untold>> /\ Follows

\* A reload tells no panel.
EntryGoesOn ==
    /\ B!Unloaded \/ B!Loads \/ B!Starts
    /\ untold' = Points
    /\ UNCHANGED <<presetVars, told>> /\ Follows

Next ==
    \/ Fetch
    \/ \E i \in PresetIds : DeletePreset(i) \/ \E preset \in Selections : SavePreset(i, preset)
    \/ ChangeBindings \/ ReloadByUser \/ HubLearns
    \/ PresetWritten \/ BindingsWritten \/ CallGoesOn \/ CallEnds \/ CallCancelled
    \/ Reload \/ EntryGoesOn

Spec == Init /\ [][Next]_vars

-----------------------------------------------------------------------------
(* Properties.                                                             *)
\* The access points the presets that name the user consist of.
Theirs ==
    UNION {presets[i].points \cup {p \in Points : ZoneOf(p) \in presets[i].zones} :
             i \in {j \in P!Present : user.id \in presets[j].users}}
Named == \E i \in P!Present : user.id \in presets[i].users

\* Whenever the panel asks, or an event comes, a non-admin user whom presets
\* name is shown, and sent events of, just the points of presets that name them
\* at that moment, however presets were edited and points moved to other zones
\* since the panel was opened; anybody else is shown every point of the hub and
\* sent every event (access_for, ws_panel_data, ws_panel_subscribe).
UsersSeeTheirOwn ==
    LET limited == Named /\ ~user.admin
        due == IF limited THEN Theirs ELSE Points IN
    B!HasRuntime =>
        /\ {r.id : r \in Data.points} = due \cap hub.points
        /\ {p \in Points : EventAllowed(p)} = due
        /\ EventAllowed(NoPoint) <=> ~limited \/ due \cap hub.points # {}

Shown(data, p) == {r \in data.points : r.id = p}

\* An open panel whose presets are not those ws_panel_data would answer with now,
\* or that shows another zone, camera or direction, or other buttons of a point,
\* has been told so, or the write or the camera call that ends with telling it is
\* under way (async_notify_panel, registry_watch._handle).  The code tells nobody
\* of a reload, of a camera call that is cancelled, and of what the hub learns: not
\* of points that appear or change their zone (`untold`), nor of anything `status`
\* stands for.
PanelIsTold ==
    \/ told \/ writing
    \/ /\ view.presets = Data.presets /\ view.restricted = Data.restricted
       /\ \/ tells
          \/ call # None /\ ~call.stale
          \/ \A p \in Points \ untold : Shown(view, p) = Shown(Data, p)

BindingsFollowRegistry == B!BindingsFollowRegistry
ButtonsMatchDirection == B!ButtonsMatchDirection
=============================================================================
