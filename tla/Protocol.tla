------------------------------ MODULE Protocol -------------------------------
(***************************************************************************)
(* What crosses the wire, there and back: the server writes texts and      *)
(* events into the messages of the OIF protocol, the integration reads     *)
(* them (Lines, Messages, Events).  The server's side is not in this       *)
(* repository; it is as tests/fake_oif_server.py and tests/test_parser.py  *)
(* write it.                                                               *)
(***************************************************************************)
EXTENDS Events

CONSTANTS
    Chars,      \* characters of names, users and passwords
    MaxText,    \* bound: characters of a text
    MaxEvents,  \* bound: events of a reply
    MaxBoth,    \* bound: characters, and twice the events
    Kinds,      \* kinds of event: [classic, code]
    Objects, Keys, DirectionCodes

\* A keyword or a hexadecimal number is a symbol that is none of the special ones.
Plain == Symbols \ Special
Keywords ==
    {"LOGIN", "1.8", "ZONEINFO", "ID", "NAME", "APINFO", "ZONEA", "ZONEB", "STATE", "ONLINE_LOCKED", "CLOSED",
     "OBJECTINFO", "EMP", "POSITION", "CAR", "NUMBER", "EVENT_CE", "HISTORY", "W26", "W34", "UNKNOWN",
     "IN", "OUT", "RULEDENY"}
ASSUME KeywordsAssumption == Keywords \subseteq Plain
ASSUME CharsAssumption == Chars \subseteq Symbols
ASSUME WhoAssumption ==
    /\ Objects \subseteq Numbers
    /\ Keys \subseteq [format : {"W26"}, facility : Numbers, number : Numbers]
                     \cup [format : {"W34"}, hex_value : Plain]
ASSUME CodesAssumption == {0, 1, 2} \cup DirectionCodes \subseteq Numbers
\* The server tells an event in the classic form by a kind of the category that its
\* code has (CLASSIC_CATEGORIES), or by a kind that is not documented.
ASSUME KindsAssumption ==
    /\ Kinds \subseteq [classic : Plain, code : Numbers]
    /\ \A kind \in Kinds :
          kind.classic \in DOMAIN CLASSIC_CATEGORIES =>
              kind.code \in Table[CLASSIC_CATEGORIES[kind.classic]]

VARIABLES
    text,      \* a name, a user or a password
    happened   \* events, in the order they happened

vars == <<text, happened>>

Point == 1
Anybody == [object : Objects, key : Keys]
Nobody == [object |-> 0, key |-> UnknownKey]

Init == text = <<>> /\ happened = <<>>

Writes(char) ==
    /\ happened = <<>> /\ Len(text) < MaxText
    /\ text' = Append(text, char)
    /\ UNCHANGED happened

\* An event without an object names nobody.
Happens(kind, time, direction, who) ==
    /\ Len(happened) < MaxEvents /\ Len(text) + 2 * (Len(happened) + 1) <= MaxBoth
    /\ kind.classic \in Anonymous => who = Nobody
    /\ happened' = Append(happened, [kind |-> kind, time |-> time, direction |-> direction, who |-> who])
    /\ UNCHANGED text

Next ==
    \/ \E char \in Chars : Writes(char)
    \/ \E kind \in Kinds, time \in Times, direction \in DirectionCodes, who \in Anybody \cup {Nobody} :
          Happens(kind, time, direction, who)

Spec == Init /\ [][Next]_vars

-----------------------------------------------------------------------------
(* The server's messages, each a sequence of pieces with spaces between.    *)
Line(pieces) == FlattenSeq([i \in DOMAIN pieces |-> pieces[i] \o <<" ">>])
\* It may escape more than it must.
ServerQuotes(s) == {Quoted(s, {Mark, "#", "\n"}), Quoted(s, DOMAIN Hex)}
KeyPieces(key) ==
    CASE key.format = "W26" -> <<<<"W26">>, <<Digits[key.facility]>>, <<Digits[key.number]>>>>
      [] key.format = "W34" -> <<<<"W34">>, <<key.hex_value>>>>
      [] OTHER -> <<<<"UNKNOWN">>>>

\* CE, and CE_WITH_NAMES when a name is given.
Ce(e, name) ==
    Line(<<<<"EVENT_CE">>>> \o <<quote(<<e.time>>), <<Digits[e.kind.code]>>, <<Digits[Point]>>,
                                 <<Digits[e.who.object]>>, <<Digits[e.direction]>>>>
         \o KeyPieces(e.who.key) \o name)

Direction(code) == CASE code = 1 -> "OUT" [] code = 2 -> "IN" [] OTHER -> "UNKNOWN"
Classic(e) ==
    LET kind == e.kind.classic IN
    IF kind \in Anonymous
    THEN Line(<<quote(<<e.time>>), <<kind>>, <<Digits[Point]>>, <<Direction(e.direction)>>>>)
    ELSE IF kind = "DENY"
    THEN Line(<<quote(<<e.time>>), <<kind>>, <<Digits[Point]>>, <<Digits[e.who.object]>>,
                <<Direction(e.direction)>>, <<"RULEDENY">>>> \o KeyPieces(e.who.key))
    ELSE Line(<<quote(<<e.time>>), <<kind>>, <<Digits[Point]>>, <<Digits[e.who.object]>>,
                <<Direction(e.direction)>>>> \o KeyPieces(e.who.key))
History(events) ==
    <<"HISTORY", " ">> \o FlattenSeq([i \in DOMAIN events |->
        IF i = 1 THEN Classic(events[i]) ELSE <<",">> \o Classic(events[i])])

Zone(n, quoted) == <<<<"ID">>, <<Digits[n]>>, <<"NAME">>, quoted>>
Zones(quoted) == Line(<<<<"ZONEINFO">>>> \o Zone(1, quoted \o <<",">>) \o Zone(2, quoted))
ApInfo(quoted, open) ==
    Line(<<<<"APINFO">>>> \o <<<<"ID">>, <<Digits[1]>>, <<"NAME">>, quoted, <<"ZONEA">>, <<Digits[1]>>,
                               <<"ZONEB">>, <<Digits[2]>>, <<"STATE">>, <<"ONLINE_LOCKED">>>> \o open)
ObjectInfo(quoted) ==
    Line(<<<<"OBJECTINFO">>>>
         \o <<<<"EMP">>, <<"ID">>, <<Digits[1]>>>> \o <<<<"NAME">>, quoted>> \o <<<<"POSITION">>, quoted \o <<",">>>>
         \o <<<<"CAR">>, <<"ID">>, <<Digits[2]>>>> \o <<<<"NUMBER">>, quoted>>)

-----------------------------------------------------------------------------
(* What the integration makes of them.                                     *)
Read(line) == split_reply(line).body
\* enable_personal_data, resolve_object_names, webhook_include_names, debug_raw_events
Options == [personal : BOOLEAN, resolve : BOOLEAN, webhookNames : BOOLEAN, raw : BOOLEAN]
Live(e, name) == parse_event_ce(Read(Ce(e, name))).event
Reply(events) == parse_history(Read(History(events)))
Pushed(e, name, options, directory) == normalize_event(Live(e, name), Ce(e, name), options, directory)
Backfilled(events, i, options, directory) ==
    normalize_event(Reply(events).events[i], History(events), options, directory)
Private == {options \in Options : ~options.personal}
Filled(names, s) == [name \in FieldNames |-> IF name \in names THEN s ELSE None]
Default == [personal |-> FALSE, resolve |-> FALSE, webhookNames |-> FALSE, raw |-> FALSE]

Login(user, password) == Line(<<<<"LOGIN">>, <<"1.8">>, quote(user), quote(password)>>)

-----------------------------------------------------------------------------
(* Properties.                                                             *)
\* A text survives every message that carries one, whatever characters it has
\* and whichever of them the server escapes: credentials reach the server, in
\* one line; names of zones, access points, objects and the holder of an event
\* are read as they are, and so are the fields around them (quote, tokenize and
\* the parsers).
TextsArrive ==
    /\ tokenize(Login(text, text)) = <<Word(<<"LOGIN">>), Word(<<"1.8">>), String(text), String(text)>>
    /\ \A i \in DOMAIN Login(text, text) : Login(text, text)[i] # "\n"
    /\ \A quoted \in ServerQuotes(text) :
         /\ parse_zoneinfo(Read(Zones(quoted))) = <<[id |-> 1, name |-> text], [id |-> 2, name |-> text]>>
         /\ \A open \in {<<>>, <<<<"CLOSED">>>>} :
              parse_apinfo(Read(ApInfo(quoted, open))) =
                [id |-> 1, name |-> text, zone_a |-> 1, zone_b |-> 2, state |-> "ONLINE_LOCKED",
                 open |-> IF open = <<>> THEN "UNKNOWN" ELSE "CLOSED"]
         /\ parse_objectinfo(Read(ObjectInfo(quoted))) =
              <<[kind |-> "EMP", id |-> 1, fields |-> Filled({"NAME", "POSITION"}, text)],
                [kind |-> "CAR", id |-> 2, fields |-> Filled({"NUMBER"}, text)]>>
         /\ \A i \in DOMAIN happened :
              LET event == Live(happened[i], <<quoted>>) IN
              /\ event.name = text
              /\ [event EXCEPT !.name = None] = Live(happened[i], <<>>)

\* An event that comes twice, pushed in its EVENT_CE form and again in a HISTORY
\* reply, has one fingerprint, so that the second is recognised; unless it has
\* no direction, which the classic form cannot say.  No event of the reply
\* before one of an undocumented kind is lost (SigurEvent.fingerprint).
TwinsAgree ==
    LET documented(i) == happened[i].kind.classic \in Identified \cup Anonymous \cup {"DENY"}
        reported == {i \in DOMAIN happened : \A j \in 1..(i - 1) : documented(j)}
        reply == Reply(happened)
    IN
    /\ reply.ok /\ DOMAIN reply.events = reported
    /\ \A i \in {j \in reported : documented(j) /\ happened[j].direction # 0} :
         fingerprint(Backfilled(happened, i, Default, text)) =
         fingerprint(Pushed(happened[i], <<>>, Default, text))

\* The line an event was read from, which the option for debugging puts on the bus.
ButLine(shown, options) == IF options.raw THEN [shown EXCEPT !.bus.raw_message = None] ELSE shown

\* Without the option for personal data, two events that differ in nothing but
\* who passed cannot be told apart from anything that is shown of them, in
\* either form and whether or not the server sends names or they are looked up:
\* not on the bus, by the webhook, in entities or in diagnostics; apart from the
\* last two digits of the key, and from the line they were read from, which holds
\* all the server said and which the bus carries, and nothing but the bus, while
\* debug_raw_events is set (SigurEvent.as_bus_payload).
NobodyNamed ==
    \A i, j \in DOMAIN happened :
        LET e == happened[i]
            f == happened[j]
            quoted == <<quote(text)>>
        IN
        e.kind = f.kind /\ e.time = f.time /\ e.direction = f.direction /\ masked(e.who.key) = masked(f.who.key) =>
            \A options \in Private :
                LET same(event, other) == ButLine(Shown(event, options), options) = ButLine(Shown(other, options), options)
                IN
                /\ same(Pushed(e, quoted, options, text), Pushed(f, <<>>, options, <<>>))
                /\ same(Backfilled(<<e>>, 1, options, text), Backfilled(<<f>>, 1, options, <<>>))
=============================================================================
