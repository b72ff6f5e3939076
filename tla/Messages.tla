------------------------------- MODULE Messages ------------------------------
(***************************************************************************)
(* api/parser.py, its grammars: how the tokens of a reply or an event      *)
(* become records.  A parser that raises SigurProtocolError returns Fails, *)
(* or a list that has Fails in it.                                         *)
(* Keywords are taken to be in upper case, where the code converts them.   *)
(***************************************************************************)
EXTENDS Lines

CONSTANTS
    Times,   \* the timestamps, each one symbol
    None     \* neither a number nor a text

ASSUME TimesAssumption == Times \subseteq Symbols
ASSUME NoneAssumption == None \notin Numbers \cup Symbols

Fails == [ok |-> FALSE]
HasTime(t, i) == HasValue(t, i) /\ \E time \in Times : t[i].value = <<time>>
Time(t, i) == Head(t[i].value)

\* split_reply: the keyword, and the tokens after it.
split_reply(line) ==
    LET t == tokenize(line) IN
    IF HasValue(t, 1) THEN [ok |-> TRUE, keyword |-> t[1].value, body |-> Tail(t)] ELSE Fails

-----------------------------------------------------------------------------
(* The loops of the parsers.  A turn starts at a token and `after` is the  *)
(* rest of the stream at which the next one starts, if any.                *)
Turn(after) == [s \in [rest : Seq(Token), starts : Seq(Seq(Token))] |->
    IF s.rest = <<>> THEN s
    ELSE [rest |-> after[s.rest], starts |-> Append(s.starts, s.rest)]]
Starts(after, t) == Loop(Turn(after), [rest |-> t, starts |-> <<>>]).starts

-----------------------------------------------------------------------------
(* Discovery: zones, access points and objects.                            *)
AtZone(t) == Is(t, 1, "ID") /\ HasNumber(t, 2) /\ Is(t, 3, "NAME") /\ HasValue(t, 4)
AfterZone == [t \in Seq(Token) |-> IF AtZone(t) /\ AtComma(Rest(t, 5)) THEN Rest(t, 6) ELSE <<>>]
parse_zoneinfo(t) ==
    LET at == Starts(AfterZone, t) IN
    [i \in DOMAIN at |->
       IF AtZone(at[i]) THEN [id |-> Number(at[i], 2), name |-> at[i][4].value] ELSE Fails]

\* Ids with or without commas before them, or EMPTY; a comma at the end is skipped.
NoComma(t) == IF AtComma(t) THEN Tail(t) ELSE t
AfterId == [t \in Seq(Token) |-> IF HasNumber(NoComma(t), 1) THEN Tail(NoComma(t)) ELSE <<>>]
parse_aplist(t) ==
    IF t # <<>> /\ Head(t).value = <<"EMPTY">> THEN <<>>
    ELSE LET at == Starts(AfterId, t) IN
         [i \in {j \in DOMAIN at : NoComma(at[j]) # <<>>} |->
            IF HasNumber(NoComma(at[i]), 1) THEN Number(NoComma(at[i]), 1) ELSE Fails]

ApStates == {"OFFLINE", "ONLINE_NORMAL", "ONLINE_LOCKED", "ONLINE_UNLOCKED"}
ApOpenStates == {"UNKNOWN", "OPENED", "CLOSED"}

parse_apinfo(t) ==
    IF ~( /\ Is(t, 1, "ID") /\ HasNumber(t, 2) /\ Is(t, 3, "NAME") /\ HasValue(t, 4)
          /\ Is(t, 5, "ZONEA") /\ HasNumber(t, 6) /\ Is(t, 7, "ZONEB") /\ HasNumber(t, 8)
          /\ Is(t, 9, "STATE") /\ \E s \in ApStates : Is(t, 10, s)
          /\ Len(t) > 10 => HasValue(t, 11)) THEN Fails
    ELSE [id |-> Number(t, 2), name |-> t[4].value, zone_a |-> Number(t, 6), zone_b |-> Number(t, 8),
          state |-> Head(t[10].value),
          open |-> IF \E s \in ApOpenStates : Is(t, 11, s) THEN Head(t[11].value) ELSE "UNKNOWN"]

\* Fields until a comma or the end, of which a last one without a value and those
\* with other names are left out.
FieldNames == {"NAME", "POSITION", "TABNUMBER", "NUMBER", "MODEL"}
Field == [f \in [rest : Seq(Token), values : [FieldNames -> {None} \cup Text], ok : BOOLEAN] |->
    LET t == f.rest IN
    IF t = <<>> \/ AtComma(t) THEN f
    ELSE IF Len(t) = 1 THEN [rest |-> <<>>, values |-> f.values, ok |-> TRUE]
    ELSE IF ~HasValue(t, 2) THEN [rest |-> <<>>, values |-> f.values, ok |-> FALSE]
    ELSE [rest |-> Rest(t, 3), ok |-> TRUE,
          values |-> [name \in FieldNames |->
                        IF t[1].value = <<name>> THEN t[2].value ELSE f.values[name]]]]
Fields(t) == Loop(Field, [rest |-> t, values |-> [name \in FieldNames |-> None], ok |-> TRUE])

AtObject(t) == HasValue(t, 1) /\ Is(t, 2, "ID") /\ HasNumber(t, 3) /\ Fields(Rest(t, 4)).ok
AfterObject == [t \in Seq(Token) |->
    LET rest == Fields(Rest(t, 4)).rest IN
    IF AtObject(t) /\ AtComma(rest) THEN Tail(rest) ELSE <<>>]
parse_objectinfo(t) ==
    LET at == Starts(AfterObject, t) IN
    [i \in DOMAIN at |->
       IF AtObject(at[i])
       THEN [kind |-> Head(at[i][1].value), id |-> Number(at[i], 3), fields |-> Fields(Rest(at[i], 4)).values]
       ELSE Fails]

-----------------------------------------------------------------------------
(* Events.                                                                 *)
UnknownKey == [format |-> "UNKNOWN"]

\* parse_key; a stream that has ended gives UNKNOWN where events are parsed.
parse_key(t) ==
    IF t = <<>> THEN [ok |-> TRUE, key |-> UnknownKey, rest |-> <<>>]
    ELSE IF ~HasValue(t, 1) THEN Fails
    ELSE IF Is(t, 1, "W26") THEN
        IF HasNumbers(t, 2, 3)
        THEN [ok |-> TRUE, rest |-> Rest(t, 4),
              key |-> [format |-> "W26", facility |-> Number(t, 2), number |-> Number(t, 3)]]
        ELSE Fails
    ELSE IF Is(t, 1, "W34") THEN
        IF HasValue(t, 2)
        THEN [ok |-> TRUE, rest |-> Rest(t, 3), key |-> [format |-> "W34", hex_value |-> Head(t[2].value)]]
        ELSE Fails
    ELSE [ok |-> TRUE, key |-> UnknownKey, rest |-> Tail(t)]

\* Object 0 is nobody.
Object(n) == IF n = 0 THEN None ELSE n

normalize_direction_code(code) ==
    CASE code = 0 -> "none" [] code = 1 -> "out" [] code = 2 -> "in" [] OTHER -> "unknown"
normalize_direction_text(text) ==
    CASE text = "IN" -> "in" [] text = "OUT" -> "out" [] OTHER -> "unknown"

\* classic_type, and the numeric code a classic event has not.
RawEvent(time, point, object, direction, key) ==
    [time |-> time, point |-> point, object |-> object, code |-> None, classic |-> None, reason |-> None,
     direction |-> direction, name |-> None, key |-> key]

\* _CLASSIC_PASS_SHAPES: the kinds with an object and a key, and those without.
Identified == {"OBJECTPASS", "OPENDOOR"}
Anonymous == {"BREAKINGPASS", "FREEPASS", "MANUALPASS"}

\* [ok, event, rest]: `rest` is where the event ends.
parse_classic_event(t) ==
    IF ~(HasTime(t, 1) /\ HasValue(t, 2)) THEN Fails
    ELSE LET kind == Head(t[2].value) IN
    IF kind = "DENY" THEN
        LET last == parse_key(Rest(t, 7)) IN
        IF HasNumbers(t, 3, 4) /\ HasValue(t, 5) /\ HasValue(t, 6) /\ last.ok
        THEN [ok |-> TRUE, rest |-> last.rest,
              event |-> [RawEvent(Time(t, 1), Number(t, 3), Object(Number(t, 4)),
                                  normalize_direction_text(Head(t[5].value)), last.key)
                         EXCEPT !.classic = kind, !.reason = Head(t[6].value)]]
        ELSE Fails
    ELSE IF kind \notin Identified \cup Anonymous THEN
        [ok |-> TRUE, rest |-> Rest(t, 3),
         event |-> [RawEvent(Time(t, 1), None, None, "unknown", UnknownKey) EXCEPT !.classic = kind]]
    ELSE
        LET at == IF kind \in Identified THEN 5 ELSE 4   \* where the direction is
            last == IF kind \in Identified THEN parse_key(Rest(t, at + 1))
                    ELSE [ok |-> TRUE, key |-> UnknownKey, rest |-> Rest(t, at + 1)]
        IN
        IF HasNumbers(t, 3, at - 1) /\ (Len(t) >= at => HasValue(t, at)) /\ last.ok
        THEN [ok |-> TRUE, rest |-> last.rest,
              event |-> [RawEvent(Time(t, 1), Number(t, 3),
                                  IF kind \in Identified THEN Object(Number(t, 4)) ELSE None,
                                  normalize_direction_text(IF Len(t) >= at THEN Head(t[at].value) ELSE "UNKNOWN"),
                                  last.key)
                         EXCEPT !.classic = kind]]
        ELSE Fails

\* [ok, events]: the events up to the first after which no comma stands.
AfterEvent == [t \in Seq(Token) |->
    LET first == parse_classic_event(t) IN
    IF first.ok /\ AtComma(first.rest) THEN Tail(first.rest) ELSE <<>>]
parse_history(t) ==
    LET at == Starts(AfterEvent, t) IN
    IF \A i \in DOMAIN at : parse_classic_event(at[i]).ok
    THEN [ok |-> TRUE, events |-> [i \in DOMAIN at |-> parse_classic_event(at[i]).event]]
    ELSE Fails

parse_event_ce(t) ==
    LET last == parse_key(Rest(t, 6)) IN
    IF HasTime(t, 1) /\ HasNumbers(t, 2, 5) /\ last.ok
    THEN [ok |-> TRUE,
          event |-> [RawEvent(Time(t, 1), Number(t, 3), Object(Number(t, 4)),
                              normalize_direction_code(Number(t, 5)), last.key)
                     EXCEPT !.code = Number(t, 2),
                            !.name = IF last.rest # <<>> /\ Head(last.rest).type = "string"
                                     THEN Head(last.rest).value ELSE None]]
    ELSE Fails
=============================================================================
