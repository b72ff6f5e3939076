------------------------------- MODULE Events --------------------------------
(***************************************************************************)
(* api/event_codes.py and models.py: what an event becomes inside Home     *)
(* Assistant, whichever form it arrived in, and what each outlet shows of  *)
(* it: the bus, the webhook, the event entity, the sensors of the access   *)
(* point and the diagnostics.                                              *)
(***************************************************************************)
EXTENDS Messages

\* EVENT_CODES; what the code table does not list is "unknown".
Table ==
    [break_in |-> {1}, pass_registered |-> 2..6,
     access_denied |-> 8..15 \cup 45..64 \cup {67, 69, 71, 73, 79, 83, 84, 87, 92},
     fire_alarm |-> {16, 17}, tamper |-> {18, 19}, link_lost |-> {20}, link_restored |-> {21},
     gate |-> {22, 23}, access_granted |-> {24}, door_held_open_start |-> {25}, power_mains |-> {28},
     power_battery |-> {29}, mode_changed |-> 30..32, door_closed |-> {36}, door_opened |-> {37},
     door_held_open_end |-> {38}, waiting |-> {39, 40, 42, 43, 44, 70, 75, 80, 93},
     other |-> {41, 72, 86}, lock_fault |-> {65, 66}, face |-> {68, 74, 88, 89, 90},
     power_quality |-> {76, 77, 78}, temperature |-> {81, 82, 85, 91}]
\* OPS_RANGES, each OPS_RANGE_SIZE codes wide.
Panels == [sigur |-> 256, bolid |-> 512, rubezh_security |-> 768, rubezh_fire |-> 1024]
CLASSIC_CATEGORIES ==
    [OBJECTPASS |-> "pass_registered", FREEPASS |-> "pass_registered", MANUALPASS |-> "pass_registered",
     OPENDOOR |-> "pass_registered", BREAKINGPASS |-> "break_in", DENY |-> "access_denied"]

\* The table first, then the ranges of alarm panels; a code in neither is kept.
resolve_event_code(code) ==
    LET listed == {c \in DOMAIN Table : code \in Table[c]}
        panels == {p \in DOMAIN Panels : code \in Panels[p]..(Panels[p] + 255)}
    IN
    IF listed # {} THEN LET c == CHOOSE c \in listed : TRUE IN [category |-> c, type |-> <<c>>]
    ELSE IF panels # {} THEN
        LET p == CHOOSE p \in panels : TRUE IN
        [category |-> "alarm_panel", type |-> <<"ops", p, ToString(code - Panels[p])>>]
    ELSE [category |-> "unknown", type |-> <<"unknown">>]

resolve_classic(kind) ==
    LET c == IF kind \in DOMAIN CLASSIC_CATEGORIES THEN CLASSIC_CATEGORIES[kind] ELSE "unknown" IN
    [category |-> c, type |-> <<c>>]

\* CredentialKey.masked: the format and the last two digits.
LastTwo == [DEADBEEF |-> "EF"]
masked(key) ==
    CASE key.format = "W26" -> <<"W26", ToString(key.number % 100)>>
      [] key.format = "W34" -> <<"W34", LastTwo[key.hex_value]>>
      [] OTHER -> <<"UNKNOWN">>

\* normalize_event, after the worker has looked the name up when it is to.  `line` is
\* what the event was read from, a reply with all of its events; the parsers only
\* pass it on.
normalize_event(raw, line, options, directory) ==
    LET resolved == IF raw.code # None THEN resolve_event_code(raw.code) ELSE resolve_classic(raw.classic)
        name == IF raw.name = None /\ raw.object # None /\ options.resolve THEN directory ELSE raw.name
    IN
    [time |-> raw.time, code |-> raw.code, type |-> resolved.type, category |-> resolved.category,
     description |-> IF raw.code # None THEN <<raw.code>> ELSE <<raw.classic>>,
     point |-> raw.point, object |-> raw.object, name |-> IF options.personal THEN name ELSE None,
     direction |-> raw.direction, key |-> masked(raw.key), reason |-> raw.reason, raw_message |-> line]

fingerprint_by_code(event) ==
    <<event.time, event.code, event.point, event.object, event.direction, event.key>>
fingerprint(event) ==
    <<event.time, event.category, event.point, event.object, event.direction, event.key>>

-----------------------------------------------------------------------------
(* What is shown of an event.                                              *)
Public(event) == [time |-> event.time, code |-> event.code, type |-> event.type, category |-> event.category,
                  description |-> event.description, point |-> event.point,
                  direction |-> event.direction, key |-> event.key, reason |-> event.reason]

bus_payload_with_object(event, include_raw, include_personal) ==
    [public |-> Public(event), object |-> event.object,
     name |-> IF include_personal THEN event.name ELSE None,
     raw_message |-> IF include_raw THEN event.raw_message ELSE None]
as_bus_payload(event, include_raw, include_personal) ==
    [public |-> Public(event), object |-> IF include_personal THEN event.object ELSE None,
     name |-> IF include_personal THEN event.name ELSE None,
     raw_message |-> IF include_raw THEN event.raw_message ELSE None]

\* What _async_process_event fires; open panels are sent the same.
BusEvent(event, options) == as_bus_payload(event, options.raw, options.personal)

webhook_payload(event, options) ==
    [as_bus_payload(event, FALSE, options.personal) EXCEPT !.name = IF options.webhookNames THEN @ ELSE None]

\* The sensors that may show a person exist only with personal data enabled.
Sensors(event, options) ==
    [last_pass_time |-> event.time, last_pass_direction |-> event.direction, last_event_type |-> event.type,
     person |-> IF options.personal THEN <<event.object, event.name>> ELSE <<>>]

EventEntity(event, options) ==
    [public |-> Public(event), person |-> IF options.personal THEN <<event.object, event.name>> ELSE <<>>]

Diagnostics(event, options) ==
    [time |-> event.time, category |-> event.category, code |-> event.code, direction |-> event.direction,
     person |-> IF options.personal THEN <<event.object>> ELSE <<>>]

Shown(event, options) ==
    [bus |-> BusEvent(event, options), webhook |-> webhook_payload(event, options), sensors |-> Sensors(event, options),
     entity |-> EventEntity(event, options), diagnostics |-> Diagnostics(event, options)]
=============================================================================
