------------------------------- MODULE Presets -------------------------------
(***************************************************************************)
(* presets.py: PresetStore, and what a preset lets a user of the panel see.*)
(* Store.async_save returns when the file is written; until then memory    *)
(* holds the new presets and nobody has been told.                         *)
(***************************************************************************)
EXTENDS FiniteSets

CONSTANTS
    PresetIds,
    Users,    \* the user ids a preset may name
    Points,   \* access points, by ap_key
    Zones,    \* zones, by zone_key
    NoZone,   \* None
    Absent    \* no preset has this id

VARIABLES
    presets,  \* _presets: [PresetIds -> Preset or Absent]
    writing   \* an _async_save is under way

vars == <<presets, writing>>

Preset == [points : SUBSET Points, zones : SUBSET Zones, users : SUBSET Users]
Present == {i \in PresetIds : presets[i] # Absent}

Init == presets = [i \in PresetIds |-> Absent] /\ writing = FALSE

-----------------------------------------------------------------------------
Covers(preset, point, zone) ==
    point \in preset.points \/ (zone # NoZone /\ zone \in preset.zones)

\* access_for: an administrator is offered every preset, a user whom presets
\* name only those, any other the presets that name nobody.
AccessFor(user, isAdmin) ==
    LET assigned == {i \in Present : user \in presets[i].users} IN
    IF isAdmin THEN [offered |-> Present, restricted |-> FALSE]
    ELSE IF assigned # {} THEN [offered |-> assigned, restricted |-> TRUE]
    ELSE [offered |-> {i \in Present : presets[i].users = {}}, restricted |-> FALSE]

Allows(access, point, zone) ==
    \/ ~access.restricted
    \/ \E i \in access.offered : Covers(presets[i], point, zone)

-----------------------------------------------------------------------------
\* ws_save_preset: a new id, or the id of a preset that is there.
Save(i, preset) ==
    /\ preset \in Preset
    /\ presets' = [presets EXCEPT ![i] = preset] /\ writing' = TRUE

Delete(i) ==
    /\ i \in Present
    /\ presets' = [presets EXCEPT ![i] = Absent] /\ writing' = TRUE

Written == writing /\ writing' = FALSE /\ UNCHANGED presets
=============================================================================
