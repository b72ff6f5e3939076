------------------------------- MODULE Entries -------------------------------
(***************************************************************************)
(* Config entries over their lives: __init__.py (setting up and unloading  *)
(* an entry, purging devices), panel.py (the count of entries behind the   *)
(* one sidebar panel) and config_flow.py (the dialogs that create entries  *)
(* and change their address and options).                                  *)
(*                                                                         *)
(* Home Assistant runs set up and unload of one entry under its            *)
(* setup_lock, those of different entries concurrently.  A value of pc is  *)
(* an await, or several between which the entry shares nothing with the    *)
(* others; a dialog suspends only while it validates a connection or lists *)
(* the access points.                                                      *)
(***************************************************************************)
EXTENDS Naturals, FiniteSets

CONSTANTS
    Entries,    \* slots for config entries
    Addresses,  \* host:port, the unique id of an entry
    Free,       \* the address of an empty slot
    Dialogs,    \* open config or options flows
    Points,     \* access points the server may list
    MaxFlows,   \* bound: dialogs that are opened, or saved in one step
    MaxSetups,  \* bound: set-ups begun
    MaxFaults   \* bound: errors, and listings that miss a point

ASSUME FreeAssumption == Free \notin Addresses
ASSUME EntriesAssumption == IsFiniteSet(Entries)

VARIABLES
    address,    \* [Entries -> Addresses \cup {Free}]
    options,    \* entry.options by section: "points" is OPT_ACCESS_POINTS, {}
                \* for every point; of the others, the number of the last save
    pc,         \* where the entry is: "unloaded", an await of async_setup_entry
                \* or async_unload_entry, "loaded", or one of Stuck
    hubOptions, \* hub.options: the options as SigurHub.__init__ read them
    runtime,    \* entry.runtime_data is set
    known,      \* hub.access_points
    available,  \* those whose state is available
    devices,    \* access points that have a device in the registry
    reload,     \* an async_reload of the entry waits for its setup_lock
    static,     \* hass.data[_STATIC_REGISTERED]
    route,      \* the static route exists
    count,      \* hass.data[_REFCOUNT]
    panel,      \* the panel is in the sidebar
    dialog,     \* what each dialog is at
    flows, setups, faults,  \* counters behind the bounds
    unwanted,   \* history: points the user was shown and left out of a filter, or
                \* that one of the two listings behind a filter missed
    early,      \* history: options saved after this hub had read its own, with
                \* no update listener yet
    overlap,    \* history: a reconfiguration ended on an address another dialog
                \* was validating or had taken since the reconfiguration's check
    replaced    \* history: a new entry replaced one with the same unique id

filterVars == <<known, available, devices>>
panelVars == <<static, route, count, panel>>
flowVars == <<dialog, flows, unwanted, overlap, replaced>>
vars == <<address, options, pc, hubOptions, runtime, filterVars, reload, panelVars,
          flowVars, setups, faults, early>>

Sections == {"general", "points", "events", "webhook"}
SettingUp == {"connecting", "binding", "refreshing", "platforms", "static", "hashing"}
Registering == {"static", "hashing"}
\* SETUP_ERROR and FAILED_UNLOAD: Home Assistant does not set the entry up again.
Stuck == {"failed", "unloadFailed"}
Closed == [kind |-> "closed"]
NoOptions == [s \in Sections |-> IF s = "points" THEN {} ELSE 0]

\* SigurOptions.includes
Includes(o, p) == o["points"] = {} \/ p \in o["points"]
Included(o, S) == {p \in S : Includes(o, p)}

Init ==
    /\ address \in [Entries -> Addresses \cup {Free}]
    /\ \A e, f \in Entries : e # f /\ address[e] = address[f] => address[e] = Free
    /\ options = [e \in Entries |-> NoOptions]
    /\ pc = [e \in Entries |-> "unloaded"]
    /\ hubOptions = options
    /\ runtime = [e \in Entries |-> FALSE] /\ reload = runtime /\ early = runtime
    /\ known = [e \in Entries |-> {}] /\ available = known /\ devices = known /\ unwanted = known
    /\ static = FALSE /\ route = FALSE /\ count = 0 /\ panel = FALSE
    /\ dialog = [d \in Dialogs |-> Closed]
    /\ flows = 0 /\ setups = 0 /\ faults = 0
    /\ overlap = FALSE /\ replaced = FALSE

\* A listing of the server's points; one that misses a point is a fault.
Listing(S) ==
    /\ S \subseteq Points
    /\ faults + (IF S = Points THEN 0 ELSE 1) <= MaxFaults
    /\ faults' = faults + (IF S = Points THEN 0 ELSE 1)
Fault == faults < MaxFaults /\ faults' = faults + 1

At(e, from, to) == pc[e] = from /\ pc' = [pc EXCEPT ![e] = to]

-----------------------------------------------------------------------------
(* async_setup_entry: hub.async_setup, the bindings, the first refresh, the *)
(* platforms and the panel.                                                *)
SetUp(e) ==
    /\ address[e] # Free /\ setups < MaxSetups /\ setups' = setups + 1
    /\ At(e, "unloaded", "connecting")
    /\ hubOptions' = [hubOptions EXCEPT ![e] = options[e]]
    /\ known' = [known EXCEPT ![e] = {}] /\ available' = [available EXCEPT ![e] = {}]
    /\ reload' = [reload EXCEPT ![e] = FALSE] /\ early' = [early EXCEPT ![e] = FALSE]
    /\ UNCHANGED <<address, options, runtime, devices, panelVars, flowVars, faults>>

\* connect() or the discovery raises.  After the latter the command session
\* stays open, and no hub refers to it any more.
HubFails(e) ==
    /\ At(e, "connecting", "unloaded") /\ Fault
    /\ UNCHANGED <<address, options, hubOptions, runtime, filterVars, reload, panelVars, flowVars, setups, early>>

Discovered(e) ==
    /\ At(e, "connecting", "binding")
    /\ \E S \in SUBSET Points :
        /\ Listing(S)
        /\ known' = [known EXCEPT ![e] = Included(hubOptions[e], S)]
        /\ available' = [available EXCEPT ![e] = Included(hubOptions[e], S)]
    /\ UNCHANGED <<address, options, hubOptions, runtime, devices, reload, panelVars, flowVars, setups, early>>

BindingsLoaded(e) ==
    /\ At(e, "binding", "refreshing")
    /\ runtime' = [runtime EXCEPT ![e] = TRUE]
    /\ UNCHANGED <<address, options, hubOptions, filterVars, reload, panelVars, flowVars, setups, faults, early>>

\* async_shutdown of a hub that has just started; runtime_data keeps the hub.
RefreshFails(e) ==
    /\ At(e, "refreshing", "unloaded") /\ Fault
    /\ UNCHANGED <<address, options, hubOptions, runtime, filterVars, reload, panelVars, flowVars, setups, early>>

Polled(e, S) ==
    /\ Listing(S)
    /\ known' = [known EXCEPT ![e] = @ \cup Included(hubOptions[e], S)]
    /\ available' = [available EXCEPT ![e] = known'[e] \cap S]

\* The devices _async_purge_excluded_devices removes when the server lists S.
PurgedMissing(o, S) == IF o["points"] = {} THEN {} ELSE {p \in Points : ~Includes(o, p) \/ p \notin S}
Purged(o, S) == IF o["points"] = {} THEN {} ELSE {p \in S : ~Includes(o, p)}

Refreshed(e) ==
    /\ At(e, "refreshing", "platforms")
    /\ \E S \in SUBSET Points :
        /\ Polled(e, S)
        /\ devices' = [devices EXCEPT ![e] = @ \ Purged(hubOptions[e], S)]
    /\ UNCHANGED <<address, options, hubOptions, runtime, reload, panelVars, flowVars, setups, early>>

\* Only the entry that finds a count of 0 goes on to register the panel.
CountLate(e, from) ==
    /\ At(e, from, IF count = 0 THEN "hashing" ELSE "loaded")
    /\ count' = IF count = 0 THEN 0 ELSE count + 1

Count(e, from) ==
    /\ At(e, from, IF count = 0 THEN "hashing" ELSE "loaded")
    /\ count' = count + 1

\* The platforms add their entities; async_register_panel starts with the
\* static route, whose flag is set before it is there.
PlatformsForwarded(e) ==
    /\ devices' = [devices EXCEPT ![e] = @ \cup known[e]]
    /\ static' = TRUE
    /\ IF static THEN Count(e, "platforms")
                 ELSE At(e, "platforms", "static") /\ UNCHANGED count
    /\ UNCHANGED <<address, options, hubOptions, runtime, known, available, reload, route, panel, flowVars, setups, faults, early>>

RouteAdded(e) ==
    /\ Count(e, "static") /\ route' = TRUE
    /\ UNCHANGED <<address, options, hubOptions, runtime, filterVars, reload, static, panel, flowVars, setups, faults, early>>

PanelRegistered(e) ==
    /\ At(e, "hashing", "loaded") /\ panel' = TRUE
    /\ UNCHANGED <<address, options, hubOptions, runtime, filterVars, reload, static, route, count, flowVars, setups, faults, early>>

\* The module cannot be read: the entry fails with its hub running and its
\* count taken.
PanelFails(e) ==
    /\ At(e, "hashing", "failed") /\ Fault
    /\ UNCHANGED <<address, options, hubOptions, runtime, filterVars, reload, panelVars, flowVars, setups, early>>

-----------------------------------------------------------------------------
(* A loaded entry.                                                         *)
\* A poll; the points it adds are announced and get their devices.
Polls(e) ==
    /\ pc[e] = "loaded"
    /\ \E S \in SUBSET Points :
        /\ Polled(e, S)
        /\ devices' = [devices EXCEPT ![e] = @ \cup (known'[e] \ known[e])]
    /\ UNCHANGED <<address, options, pc, hubOptions, runtime, reload, panelVars, flowVars, setups, early>>

\* async_remove_config_entry_device
RemoveDevice(e, p) ==
    /\ pc[e] = "loaded" /\ p \in devices[e] \ available[e]
    /\ devices' = [devices EXCEPT ![e] = @ \ {p}]
    /\ UNCHANGED <<address, options, pc, hubOptions, runtime, known, available, reload, panelVars, flowVars, setups, faults, early>>

\* async_unload_entry; an async_reload takes its turn here.
Unload(e) ==
    /\ At(e, "loaded", "unloading")
    /\ UNCHANGED <<address, options, hubOptions, runtime, filterVars, reload, panelVars, flowVars, setups, faults, early>>

\* The platforms refuse, or async_shutdown raises (Webhook!ShutdownRaises).
UnloadFails(e) ==
    /\ At(e, "unloading", "unloadFailed") /\ Fault
    /\ UNCHANGED <<address, options, hubOptions, runtime, filterVars, reload, panelVars, flowVars, setups, early>>

\* async_unregister_panel
Unregister ==
    /\ count' = IF count = 0 THEN 0 ELSE count - 1
    /\ panel' = (panel /\ count > 1)

\* Home Assistant drops runtime_data and the update listener with it.
Unloaded(e) ==
    /\ At(e, "unloading", "unloaded") /\ Unregister
    /\ runtime' = [runtime EXCEPT ![e] = FALSE]
    /\ UNCHANGED <<address, options, hubOptions, filterVars, reload, static, route, flowVars, setups, faults, early>>

-----------------------------------------------------------------------------
(* Dialogs that create an entry or change its address or its password.     *)
Moves(d, from, to) == dialog[d] = from /\ dialog' = [dialog EXCEPT ![d] = to]
Idle(d) == dialog[d] = Closed
Counts == flows < MaxFlows /\ flows' = flows + 1
Validating(kind, e, a) == [kind |-> kind, entry |-> e, address |-> a]
\* Dialogs other than d that validate a connection to a.
Rivals(d, a) ==
    {o \in Dialogs \ {d} : dialog[o].kind \in {"user", "reconfigure"} /\ dialog[o].address = a}
Taken(a) == {e \in Entries : address[e] = a}
FlowChanges == UNCHANGED <<options, pc, hubOptions, runtime, filterVars, panelVars, unwanted, setups, early>>

\* async_set_unique_id aborts when another user dialog has the same unique id,
\* _abort_if_unique_id_configured when an entry has it.
UserSubmitsUnchecked(d, a) ==
    /\ Idle(d) /\ Counts /\ \A o \in Rivals(d, a) : dialog[o].kind # "user"
    /\ Moves(d, Closed, Validating("user", Free, a))
    /\ UNCHANGED <<address, reload, faults, overlap, replaced>> /\ FlowChanges

UserSubmits(d, a) ==
    /\ Idle(d) /\ Counts /\ \A o \in Rivals(d, a) : dialog[o].kind # "user"
    /\ Taken(a) = {}
    /\ Moves(d, Closed, Validating("user", Free, a))
    /\ UNCHANGED <<address, reload, faults, overlap, replaced>> /\ FlowChanges

\* Home Assistant replaces an entry that has got the unique id meanwhile.
UserCreates(d, a) ==
    /\ Moves(d, Validating("user", Free, a), Closed)
    /\ IF Taken(a) # {}
       THEN /\ replaced' = TRUE /\ reload' = [e \in Entries |-> reload[e] \/ e \in Taken(a)]
            /\ UNCHANGED address
       ELSE /\ \E e \in Taken(Free) : address' = [address EXCEPT ![e] = a]
            /\ UNCHANGED <<replaced, reload>>
    /\ UNCHANGED <<faults, overlap>> /\ UNCHANGED flows /\ FlowChanges

\* The duplicate check comes before the await, the update after it.
Reconfigures(d, e, a) ==
    /\ Idle(d) /\ Counts /\ address[e] # Free
    /\ Taken(a) \subseteq {e}
    /\ Moves(d, Closed, Validating("reconfigure", e, a))
    /\ UNCHANGED <<address, reload, faults, overlap, replaced>> /\ FlowChanges

Reconfigured(d, e, a) ==
    /\ Moves(d, Validating("reconfigure", e, a), Closed)
    /\ address' = [address EXCEPT ![e] = a] /\ reload' = [reload EXCEPT ![e] = TRUE]
    /\ overlap' = (overlap \/ Rivals(d, a) # {} \/ ~ Taken(a) \subseteq {e})
    /\ UNCHANGED <<faults, replaced>> /\ UNCHANGED flows /\ FlowChanges

Reauthenticates(d, e) ==
    /\ Idle(d) /\ Counts /\ address[e] # Free
    /\ Moves(d, Closed, Validating("reauth", e, Free))
    /\ UNCHANGED <<address, reload, faults, overlap, replaced>> /\ FlowChanges

Reauthenticated(d, e) ==
    /\ Moves(d, Validating("reauth", e, Free), Closed)
    /\ reload' = [reload EXCEPT ![e] = TRUE]
    /\ UNCHANGED <<address, faults, overlap, replaced>> /\ UNCHANGED flows /\ FlowChanges

\* _async_validate returns an error: the form is shown again.
ValidationFails(d) ==
    /\ dialog[d].kind \in {"user", "reconfigure", "reauth"} /\ Fault
    /\ dialog' = [dialog EXCEPT ![d] = Closed]
    /\ UNCHANGED <<address, reload, overlap, replaced>> /\ UNCHANGED flows /\ FlowChanges

-----------------------------------------------------------------------------
(* Options dialogs.  _save merges one section into the stored options; the *)
(* update listener, registered by the last step of the set-up, reloads.    *)
HasListener(e) == pc[e] \in {"loaded", "unloading", "unloadFailed"}
SaveUnnoticed(e, section, value) ==
    /\ options' = [options EXCEPT ![e][section] = value]
    /\ early' = [early EXCEPT ![e] = @ \/ pc[e] \in SettingUp]
    /\ UNCHANGED reload

Save(e, section, value) ==
    /\ options' = [options EXCEPT ![e][section] = value]
    /\ reload' = [reload EXCEPT ![e] = @ \/ HasListener(e)]
    /\ early' = [early EXCEPT ![e] = @ \/ pc[e] \in SettingUp]

OptionChanges == UNCHANGED <<address, pc, hubOptions, runtime, filterVars, panelVars, setups, overlap, replaced>>

\* A form whose step saves what it is given; async_step_webhook first shows the form
\* again until an enabled webhook has an address and a secret it accepts.
SaveForm(e, section) ==
    /\ address[e] # Free
    /\ Counts /\ Save(e, section, flows + 1)
    /\ UNCHANGED <<dialog, unwanted, faults>> /\ OptionChanges

SaveGeneral(e) == SaveForm(e, "general")
SaveEvents(e) == SaveForm(e, "events")
SaveWebhook(e) == SaveForm(e, "webhook")

\* async_step_access_points asks the hub of runtime_data, whatever became of it,
\* for the list; each point whose GETAPINFO fails is left out.
PointsAsked(d, e) ==
    /\ Idle(d) /\ Counts /\ runtime[e]
    /\ dialog' = [dialog EXCEPT ![d] = [kind |-> "listing", entry |-> e]]
    /\ UNCHANGED <<address, reload, faults, overlap, replaced>> /\ FlowChanges

PointsShown(d) ==
    /\ dialog[d].kind = "listing"
    /\ \E S \in SUBSET Points :
        /\ Listing(S)
        /\ dialog' = [dialog EXCEPT ![d] = [kind |-> "shown", entry |-> dialog[d].entry, shown |-> S]]
    /\ UNCHANGED <<address, reload, overlap, replaced>> /\ UNCHANGED flows /\ FlowChanges

\* Submitted, the step lists the points once more before it looks at the choice;
\* an entry that is not loaded aborts it.
PointsSubmitted(d, chosen) ==
    /\ dialog[d].kind = "shown" /\ chosen \subseteq dialog[d].shown /\ chosen # {}
    /\ dialog' = [dialog EXCEPT ![d] =
           IF runtime[dialog[d].entry]
           THEN [kind |-> "submitted", entry |-> dialog[d].entry, shown |-> dialog[d].shown, chosen |-> chosen]
           ELSE Closed]
    /\ UNCHANGED <<address, reload, faults, overlap, replaced>> /\ UNCHANGED flows /\ FlowChanges

\* Choosing all of the second list stores no filter.
PointsSaved(d) ==
    /\ dialog[d].kind = "submitted"
    /\ LET e == dialog[d].entry  chosen == dialog[d].chosen IN
       \E S \in SUBSET Points :
        /\ Listing(S)
        /\ Save(e, "points", IF chosen = S THEN {} ELSE chosen)
        /\ unwanted' = IF chosen = S THEN unwanted
                       ELSE [unwanted EXCEPT ![e] =
                               @ \cup (dialog[d].shown \ chosen) \cup (Points \ (S \cap dialog[d].shown))]
    /\ dialog' = [dialog EXCEPT ![d] = Closed]
    /\ UNCHANGED flows /\ OptionChanges

\* Closed by the user, or aborted because the list could not be fetched.
DialogEnds(d) ==
    /\ dialog[d].kind \in {"listing", "shown", "submitted"}
    /\ dialog' = [dialog EXCEPT ![d] = Closed]
    /\ UNCHANGED <<address, reload, faults, overlap, replaced>> /\ UNCHANGED flows /\ FlowChanges

-----------------------------------------------------------------------------
SettingUpNext(e) ==
    \/ SetUp(e) \/ HubFails(e) \/ Discovered(e) \/ BindingsLoaded(e)
    \/ RefreshFails(e) \/ Refreshed(e) \/ PlatformsForwarded(e)
    \/ RouteAdded(e) \/ PanelRegistered(e) \/ PanelFails(e)
RunningNext(e) ==
    \/ Polls(e) \/ Unload(e) \/ UnloadFails(e) \/ Unloaded(e)
    \/ \E p \in Points : RemoveDevice(e, p)
EntryDialogs(d) ==
    \/ \E a \in Addresses :
        \/ UserSubmits(d, a) \/ UserCreates(d, a)
        \/ \E e \in Entries : Reconfigures(d, e, a) \/ Reconfigured(d, e, a)
    \/ \E e \in Entries : Reauthenticates(d, e) \/ Reauthenticated(d, e)
    \/ ValidationFails(d)
OptionDialogs ==
    \/ \E e \in Entries : SaveGeneral(e) \/ SaveEvents(e) \/ SaveWebhook(e)
    \/ \E d \in Dialogs :
        \/ \E e \in Entries : PointsAsked(d, e)
        \/ PointsShown(d) \/ PointsSaved(d) \/ DialogEnds(d)
        \/ \E chosen \in SUBSET Points : PointsSubmitted(d, chosen)

Next ==
    \/ \E e \in Entries : SettingUpNext(e) \/ RunningNext(e)
    \/ \E d \in Dialogs : EntryDialogs(d)
    \/ OptionDialogs

Spec == Init /\ [][Next]_vars

-----------------------------------------------------------------------------
(* Properties.                                                             *)
Wanting == {e \in Entries : pc[e] \in {"loaded", "unloading", "unloadFailed"}}

\* While no set-up is on its way through async_register_panel, the panel is in
\* the sidebar, with its route, just when an entry is loaded, however set-ups,
\* unloads and reloads of several entries interleave; unless registering it has
\* failed once, whose count nobody gives back (async_register_panel,
\* async_unregister_panel).
PanelFollowsEntries ==
    (\A e \in Entries : pc[e] \notin Registering) =>
        \/ \E e \in Entries : pc[e] = "failed"
        \/ (panel <=> Wanting # {}) /\ (panel => route)

\* A loaded entry whose reloads are done runs with the options that are stored,
\* unless they were saved while it was being set up, where no listener sees it
\* (async_setup_entry, async_reload_entry).
OptionsReachHub ==
    \A e \in Entries :
        pc[e] = "loaded" /\ ~reload[e] /\ ~early[e] => hubOptions[e] = options[e]

\* The integration takes a device away only when the user was shown its point
\* and left it out of a filter, or a listing behind that filter missed it; a
\* point that GETAPLIST does not return keeps its device until the user removes
\* it (_async_purge_excluded_devices, async_remove_config_entry_device).
DevicesKept ==
    [][\A e \in Entries : \A p \in devices[e] \ devices'[e] :
          p \in unwanted[e] \/ (pc[e] = "loaded" /\ p \notin available[e])]_devices

\* Two entries get one address, or a new entry replaces another, only when a
\* reconfiguration ended between another dialog's check and its own end
\* (async_step_user, async_step_reconfigure).
ServersKeptApart ==
    \/ overlap
    \/ ~replaced /\ \A e, f \in Entries : e # f /\ address[e] = address[f] => address[e] = Free
=============================================================================
