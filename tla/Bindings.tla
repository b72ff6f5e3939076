------------------------------- MODULE Bindings ------------------------------
(***************************************************************************)
(* bindings.py and registry_watch.py: what the user declared about each    *)
(* access point of one entry, over renames and removals of cameras in the  *)
(* entity registry and over reloads of the entry, with the pass buttons    *)
(* (button.py) that are made from it.                                      *)
(*                                                                         *)
(* Every set-up makes a BindingStore of its own, with its own Store on the *)
(* same file.  A Store writes what its last async_save was given and lets  *)
(* every caller go on once that is written.                                *)
(***************************************************************************)
EXTENDS FiniteSets

CONSTANTS
    Points,   \* access points the server may have
    Cameras,  \* names camera entities have or are given
    None,
    Modes     \* DirectionMode

VARIABLES
    entry,    \* "loading", "starting" once its bindings are loaded, "loaded",
              \* "unloading"
    live,     \* _bindings of the loaded store
    file,     \* the stored bindings
    saving,   \* an async_save of that store is under way
    tells,    \* a ws_set_binding or _handle that waits for it will tell the panel
    resets,   \* a ws_set_binding that waits for it will reload the entry
    old,      \* the store of the set-up before, None when nobody uses it
    call,     \* the sigur.set_access_point_camera that is under way, or None;
              \* no more than one is, which is a bound
    reload,   \* an async_reload waits for the setup_lock
    alive,    \* camera entities in the registry
    buttons,  \* pass buttons each point has, beside the directionless one
    missed,   \* history: cameras renamed or removed while nobody watched, or
              \* bound while no entity has their name
    overlap,  \* history: an entry was unloaded while its store was written
    silent    \* history: points whose direction a camera call changed without a
              \* reload to follow

storeVars == <<live, file, saving, tells, resets, old>>
history == <<missed, overlap, silent>>
vars == <<entry, storeVars, call, reload, alive, buttons, history>>

Binding == [mode : Modes, camera : Cameras \cup {None}]
Calls == [left : SUBSET Points, binding : Binding, given : BOOLEAN, waits : BOOLEAN, stale : BOOLEAN]
Stores == [bindings : [Points -> Binding], dirty : BOOLEAN, tells : BOOLEAN, resets : BOOLEAN]
Empty == [mode |-> "both", camera |-> None]
\* DirectionMode.allows
Offered(mode) == IF mode = "both" THEN {"in", "out"} ELSE {mode}
HasRuntime == entry \in {"starting", "loaded", "unloading"}
Watched == entry \in {"loaded", "unloading"}

Init ==
    /\ alive \in SUBSET Cameras
    /\ file = [p \in Points |-> Empty]
    /\ live = file /\ saving = FALSE /\ tells = FALSE /\ resets = FALSE /\ old = None
    /\ entry = "loaded" /\ call = None /\ reload = FALSE
    /\ buttons = [p \in Points |-> Offered(live[p].mode)]
    /\ missed = {} /\ overlap = FALSE /\ silent = {}

-----------------------------------------------------------------------------
(* Changes by the user.                                                    *)
\* Any name may be given for the camera.
Unknown(camera) == {camera} \ (alive \cup {None})
\* What async_set does before it waits for the write, which it does not do for one
\* that is already under way; a binding that is empty is dropped.
Bind(p, b) == live' = [live EXCEPT ![p] = b] /\ saving' = TRUE /\ missed' = missed \cup Unknown(b.camera)

\* ws_set_binding replaces the whole binding.
SetBindingComparingAfter(p, b) ==
    /\ HasRuntime /\ Bind(p, b) /\ tells' = TRUE
    /\ resets' = (resets \/ live'[p].mode # b.mode)
    /\ UNCHANGED <<entry, file, old, call, reload, alive, buttons, overlap, silent>>

SetBinding(p, b) ==
    /\ HasRuntime /\ Bind(p, b) /\ tells' = TRUE
    /\ resets' = (resets \/ b.mode # live[p].mode)
    /\ UNCHANGED <<entry, file, old, call, reload, alive, buttons, overlap, silent>>

\* _async_set_camera takes the store once and sets its points one after the other.
\* Without a direction_mode the mode becomes "both".
CallSetsLive(p, b, given) ==
    /\ Bind(p, b)
    /\ silent' = IF ~given /\ live[p].mode # "both" THEN silent \cup {p} ELSE silent

CallStarts(points, p, b, given) ==
    /\ HasRuntime /\ call = None /\ p \in points
    /\ given \/ b.mode = "both"
    /\ call' = [left |-> points \ {p}, binding |-> b, given |-> given, waits |-> TRUE, stale |-> FALSE]
    /\ CallSetsLive(p, b, given)
    /\ UNCHANGED <<entry, file, tells, resets, old, reload, alive, buttons, overlap>>

CallSets(p) ==
    /\ call # None /\ ~call.waits /\ p \in call.left
    /\ call' = [call EXCEPT !.left = @ \ {p}, !.waits = TRUE]
    /\ IF call.stale
       THEN /\ old' = [old EXCEPT !.bindings[p] = call.binding, !.dirty = TRUE]
            /\ UNCHANGED <<live, saving, missed, silent>>
       ELSE CallSetsLive(p, call.binding, call.given) /\ UNCHANGED old
    /\ UNCHANGED <<entry, file, tells, resets, reload, alive, buttons, overlap>>

\* The store of the set-up before, once neither a write nor a call needs it.
OldWithoutCall == IF call.stale /\ ~old.dirty THEN None ELSE old

\* It tells the panel, and reloads the entry when it was given a direction.
CallEnds ==
    /\ call # None /\ ~call.waits /\ call.left = {}
    /\ reload' = (reload \/ call.given) /\ call' = None /\ old' = OldWithoutCall
    /\ UNCHANGED <<entry, live, file, saving, tells, resets, alive, buttons, history>>

\* The script that made the call is stopped while the call waits for a write: the
\* bindings stay as they are, nobody is told and nothing reloaded.
CallCancelled ==
    /\ call # None /\ call.waits
    /\ call' = None /\ old' = OldWithoutCall
    /\ silent' = IF call.stale THEN silent
                 ELSE silent \cup {p \in Points : buttons[p] # Offered(live[p].mode)}
    /\ UNCHANGED <<entry, live, file, saving, tells, resets, reload, alive, buttons, missed, overlap>>

Resumed(stale) == IF call # None /\ call.stale = stale THEN [call EXCEPT !.waits = FALSE] ELSE call

\* The file is written; a ws_set_binding that changed the direction reloads.
Written ==
    /\ saving /\ saving' = FALSE /\ file' = live
    /\ reload' = (reload \/ resets) /\ resets' = FALSE /\ tells' = FALSE
    /\ call' = Resumed(FALSE)
    /\ UNCHANGED <<entry, live, old, alive, buttons, history>>

OldWritten ==
    /\ old # None /\ old.dirty /\ file' = old.bindings
    /\ reload' = (reload \/ old.resets)
    /\ call' = Resumed(TRUE)
    /\ old' = IF call # None /\ call.stale
              THEN [old EXCEPT !.dirty = FALSE, !.tells = FALSE, !.resets = FALSE] ELSE None
    /\ UNCHANGED <<entry, live, saving, tells, resets, alive, buttons, history>>

-----------------------------------------------------------------------------
(* The entity registry.  _handle changes the bindings in the step that      *)
(* fires the event, and saves them if it changed any.                      *)
Rebound(from, to) ==
    [p \in Points |-> IF live[p].camera = from THEN [live[p] EXCEPT !.camera = to] ELSE live[p]]

\* Rebound to None, a binding that is left empty is dropped.
FollowFirst(from, to) ==
    LET bound == {p \in Points : live[p].camera = from} IN
    IF Watched
    THEN /\ live' = IF bound = {} THEN live
                    ELSE [live EXCEPT ![CHOOSE p \in bound : TRUE].camera = to]
         /\ saving' = (saving \/ live' # live) /\ tells' = (tells \/ live' # live)
         /\ UNCHANGED missed
    ELSE missed' = missed \cup {from} /\ UNCHANGED <<live, saving, tells>>

Follow(from, to) ==
    IF Watched
    THEN /\ live' = Rebound(from, to)
         /\ saving' = (saving \/ live' # live) /\ tells' = (tells \/ live' # live)
         /\ UNCHANGED missed
    ELSE missed' = missed \cup {from} /\ UNCHANGED <<live, saving, tells>>

Renamed(from, to) ==
    /\ from \in alive /\ to \in Cameras \ alive
    /\ alive' = (alive \ {from}) \cup {to}
    /\ Follow(from, to)
    /\ UNCHANGED <<entry, file, resets, old, call, reload, buttons, overlap, silent>>

Removed(camera) ==
    /\ camera \in alive /\ alive' = alive \ {camera}
    /\ Follow(camera, None)
    /\ UNCHANGED <<entry, file, resets, old, call, reload, buttons, overlap, silent>>

-----------------------------------------------------------------------------
(* The entry: unloading, and the set-up that follows.                      *)
Unload ==
    /\ entry = "loaded" /\ entry' = "unloading" /\ reload' = FALSE
    /\ UNCHANGED <<storeVars, call, alive, buttons, history>>

\* A save or a camera call of the store outlives it; no more than one store
\* does, which is a bound.
Unloaded ==
    /\ entry = "unloading" /\ entry' = "loading"
    /\ LET used == saving \/ (call # None /\ ~call.stale) IN
       /\ used => old = None
       /\ overlap' = (overlap \/ used)
       /\ old' = IF used THEN [bindings |-> live, dirty |-> saving, tells |-> tells, resets |-> resets]
                 ELSE old
       /\ call' = IF call = None THEN None ELSE [call EXCEPT !.stale = TRUE]
    /\ saving' = FALSE /\ tells' = FALSE /\ resets' = FALSE
    /\ UNCHANGED <<live, file, reload, alive, buttons, missed, silent>>

Loads ==
    /\ entry = "loading" /\ entry' = "starting" /\ live' = file
    /\ UNCHANGED <<file, saving, tells, resets, old, call, reload, alive, buttons, history>>

\* The button platform offers what each point's mode allows and removes the
\* rest from the registry; the watch on the registry starts last.
Starts ==
    /\ entry = "starting" /\ entry' = "loaded"
    /\ buttons' = [p \in Points |-> Offered(live[p].mode)]
    /\ silent' = {}
    /\ UNCHANGED <<storeVars, call, reload, alive, missed, overlap>>

\* The platform's listener makes the buttons of points a poll has discovered.
Announced(points) ==
    /\ buttons' = [p \in Points |-> IF p \in points THEN Offered(live[p].mode) ELSE buttons[p]]
    /\ UNCHANGED <<entry, storeVars, call, reload, alive, history>>

-----------------------------------------------------------------------------
(* Properties.                                                             *)
\* A binding of a loaded entry names a camera that exists, whatever is renamed
\* or removed and however often the entry is reloaded; unless it was bound when no
\* entity had the name (which the panel does that has not fetched a rename yet),
\* the camera's change fell into a reload, or a reload overtook a write of the
\* bindings (async_watch_entity_registry).
BindingsFollowRegistry ==
    entry = "loaded" /\ ~overlap =>
        \A p \in Points : live[p].camera \in alive \cup missed \cup {None}

\* When its changes are done and no reload is due, a loaded entry offers the
\* pass buttons of each point's direction, unless a camera call without a
\* direction_mode took the direction away, which reloads nothing, or one that was
\* given a direction was cancelled before it asked for the reload (ws_set_binding,
\* _async_set_camera, button.async_setup_entry).
ButtonsMatchDirection ==
    entry = "loaded" /\ ~reload /\ ~resets /\ call = None /\ old = None =>
        \A p \in Points : buttons[p] = Offered(live[p].mode) \/ p \in silent
=============================================================================
