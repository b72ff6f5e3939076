# Verification of the Sigur integration for Home Assistant

TLA+ models of `src/custom_components/sigur`, the Home Assistant integration for
the Sigur access control system, with the TLC runs that check them on small
instances and the TLAPS proofs that establish the most important properties for
every instance. File and line numbers refer to `src/custom_components/sigur/`
unless they start with another directory.

Run from this directory:

    tlc -workers 2 -config <cfg> <MC module>     # a run of the table below
    tlapm <module>_proofs.tla                    # the proofs of a module

`PROJECT.json` lists for every modelled definition the lines it translates
(`map`), for every checked property a plausible bug that breaks it (`mutants`,
the definitions commented "Faulty variant"), and everything in the code that is
hard to test (`hazards`).

## 1. The system

The integration is one asyncio program: tasks interleave only at `await`. One
`SigurHub` (runtime.py) exists per config entry, that is per Sigur server.

| Component | State | Operations | Made correct by |
|---|---|---|---|
| OIF connection, api/client.py | transport, reader task, reply queue, command lock, `disconnected` | connect, close, _execute_lines, _read_loop, wait_disconnected | a reply reaches the command that asked for it; no command and no loss goes unnoticed |
| OIF transport, api/transport.py | stream reader and writer | connect, send_line, read_line, close | limits and TLS; used as steps that succeed or fail |
| OIF commands, api/commands.py | none | one function per command | the request asks for what the caller wants, the right reply ends it |
| Message parser, api/parser.py | none | quote, tokenize, one parser per message | a text or an event means what was sent, whatever characters it has |
| Event codes and models, api/event_codes.py, models.py | none | normalize_event, fingerprint, as_bus_payload | both forms of an event become one; personal data stays where the options allow it |
| Backoff, api/client.py | `attempt` | next_delay, reset | goes on growing to its cap |
| Hub sessions, runtime.py 300-400, 730-805 | `_command`, `_event_connection`, `_command_lock`, the two tasks, the shutdown event | async_ensure_command_connection, _event_supervisor, async_shutdown | two sessions, reopened once each when lost, both closed at the end |
| Event pipeline, runtime.py 520-650, 806-850 | event queue, fingerprint window, `last_event_at` and its stored copy | _on_raw_event, _event_worker, _async_backfill | each event published once; none missed |
| Access points, runtime.py 405-515, 650-700, 895-925; coordinator.py | `access_points`, listeners | async_poll, _apply_event_to_state, _async_refresh_one, async_set_mode | shows what the server has; each point announced once |
| Marker and repair issues, runtime.py 855-880; repairs.py | `unavailable_since`, issue registry | _mark_unavailable, _clear_unavailable | an issue exists exactly while there is something to repair |
| Object name cache, runtime.py | LRU with a time to live | async_get_object_name | bounded, no stale name beyond its time |
| Entry lifecycle, \_\_init\_\_.py | runtime_data, listeners, devices | async_setup_entry, async_unload_entry, async_reload_entry, the purge and removal of devices | runs with the stored options; no device disappears that the user did not deselect |
| Webhook, webhook.py | bounded queue, worker, wake-up, counters | enqueue, _worker, _async_deliver, async_shutdown | in order, each event counted once; nothing waits behind a missed wake-up |
| Bindings, bindings.py, registry_watch.py | point to camera and direction, in a Store per set-up | async_set, async_rename_entity, async_forget_entity | follows the entity registry; the pass buttons follow the direction |
| Presets, presets.py | presets and the users they name, in a Store | async_save, async_delete, access_for | what a user may see |
| Panel, panel.py, websocket_api.py | static route, reference count; subscriptions | async_register_panel, async_unregister_panel, ws_panel_data, ws_panel_subscribe | shown while an entry is loaded; an open panel learns of edited presets and bindings |
| Config and options flows, config_flow.py | the dialog's answers, the entry's data and options | steps of three config dialogs and four options dialogs | servers are not confused; the filter means what the user chose |
| Entities, services, diagnostics, panel JS | next to none | views and argument checks | no person is shown without the option |

How they interact:

- The hub owns two OIF connections: the *command* session, used by polls,
  services, name lookups and the backfill, and the *event* session, which only
  subscribes and listens. The reader task of the event session calls
  `_on_raw_event`, which puts events on a bounded queue; the event worker takes
  them off, may look a name up on the command session, and publishes.
- The event supervisor keeps the event session, runs the backfill after every
  subscription, and reports outages. Whoever finds the command session dead
  reopens it, one at a time under a lock.
- Polls (DataUpdateCoordinator), the worker's event patches, refresh tasks and
  `set_mode` all write `access_points`.
- The worker hands each published event to the bus, the entities and the webhook
  forwarder, whose own worker posts it.
- Home Assistant sets entries up and unloads them, each under its setup_lock but
  several entries at once; dialogs and services reload them. All entries share one
  sidebar panel, one store of presets and the services; each set-up makes a new
  hub and a new store of bindings on the same file.
- `async_shutdown` cancels the worker and the supervisor, waits for them, closes
  both sessions and persists `last_event_at`; everything in memory is then gone.

What is hard to test here: replies without request numbers after a timeout;
cancellation arriving at any await, also inside `close()`; several tasks finding
one session dead; live events overtaking a backfill; a restart between two
awaits; stale replies patched over newer events; a poll that stops half-way; an
exception of a kind the caller does not expect ending the one task that retries;
entries that are set up together and share one panel; a dialog that checks, awaits
and then stores; writes that suspend while an entry reloads and reads the file; the
same event in two forms; texts with the characters that delimit them.

## 2. Modules

| Module | Models | Runs | Proofs |
|---|---|---|---|
| `OifConnection` | api/client.py (one connection), with transport and commands as it uses them | `MCOifConnection` | `OifConnection_proofs` |
| `HubSessions` | the hub's two sessions, supervisor, reconnection, shutdown | `MCHubSessions` | `HubSessions_proofs` |
| `EventPipeline` | queue, worker, window, backfill, persistence | `MCEventPipeline` | `EventPipeline_proofs` |
| `AccessPoints` | polling, patches, refreshes, modes, announcements | `MCAccessPoints` | `AccessPoints_proofs` |
| `ConnectionIssues` | marker and repair issues over outages and reloads | `MCConnectionIssues` | `HubSessions_proofs` |
| `Forwarding` | abstract: what the webhook forwarder promises | refined by `Webhook` | |
| `Webhook` | webhook.py | itself | `Webhook_proofs` |
| `Entries` | \_\_init\_\_.py, panel.py, config_flow.py: several entries, their dialogs and their panel | `MCEntries` | `Entries_proofs` |
| `Presets` | presets.py | in `Panel` | |
| `Bindings` | bindings.py, registry_watch.py, the camera service, the pass buttons | in `Panel` | |
| `Panel` | websocket_api.py; composes `Presets` and `Bindings` | `MCPanel` | `Panel_proofs` |
| `Lines` | quoting and tokenizing, api/parser.py | in `Protocol` | in `Protocol_proofs` |
| `Messages` | the parsers of api/parser.py; extends `Lines` | in `Protocol` | in `Protocol_proofs` |
| `Events` | api/event_codes.py, models.py, and what each outlet shows; extends `Messages` | in `Protocol` | in `Protocol_proofs` |
| `Protocol` | the server's side of the wire; extends `Events` | `MCProtocol` | `Protocol_proofs` |

Each component is modelled on its own and meets the next one as a promise: what
`OifConnection` shows of one connection (every command ends, every loss is
noticed: `CallsReturn`, `LossIsNoticed`) is what the fairness of the other
modules rests on; there a session is only a name that is up or down, and a
command a step that succeeds or fails.

### OifConnection

State: `epoch` counts connect() calls and numbers the reply queues (connect()
makes a new queue; a command that waits keeps the old one). `transport`, `reader`
and `disconnected` are the attributes behind `connected`. `holder` and `waiters`
are the asyncio.Lock, first come first served. `pc` says at which await of
`_execute_lines` a task is. `toServer`, `fromServer`, `peerOpen` are the socket.
`results` is a history variable: which reply line ended which command.

Actions: `Call`, `SendRefused`, `Send`, `Sent`, `SendFailed`, `Receive`,
`Timeout`, `CancelWaiting`, `CancelSent` are the segments of `_execute_lines`
between awaits, with the drain of stale replies in `Send`; `ReadLine` and
`ReadEof` are one turn of `_read_loop`; `Connect`, `Close`, `AbortConnect`,
`CloseEnds`, `Dial`, `DialFails`, `DialOk` are connect() and close(); `Serve`,
`Push`, `PeerCloses`, `ConnectionLost` are the server and the network. The server
answers in order, may answer with the wrong keyword, an error, an unparsable or
an over-long line, or never.

Abstracted: request and reply texts are a keyword each; the socket buffers are
unbounded sequences. `drain()` may take any time, or never return when the peer
stops reading: no fairness is assumed of `Sent` and `SendFailed`. Closing what is
closed already is left out.

### HubSessions

State: the open sockets and which of them still work (`sockets`, `up`), which one
each attribute of the hub refers to (`command`, `event`), the reconnect lock, and
for every task the await it is suspended in (`pc`), the session it has dialled
(`opening`) and whether a cancellation is pending. async_shutdown cancels the
worker, the supervisor and the refreshes; Home Assistant may cancel a script or a
service call at any await, also while the entry is loaded. A cancellation is thrown
at the next step of its task, except in `close()`, which suppresses it
(`ReaderClosed`).

Actions: `Begin`, `ConnectCommand`, `DialOk`, `DialFails`, `LoginOk`,
`LoginFails`, `ReaderClosed`, `SocketClosed`, `CommandInstalled`, `UseEnds` follow
async_ensure_command_connection and connect(); `SubscribeOk`, `SubscribeFails`,
`EventInstalled`, `NoticeLoss`, `WakeUp` the supervisor; `Shutdown`,
`TasksEnded`, `WebhookStopped`, `ShutdownFails`, `EventClosed`, `CommandClosed`
async_shutdown, which waits for the webhook forwarder between its tasks and its
sessions; `CancelOther` and `TakeCancellation` cancellation; `PeerCloses` and
`OrphanCollected` the network and Python's garbage collector, which closes a
session nobody refers to only once its reader has ended: until then the event loop
keeps the reader, and the reader the session.

Abstracted: the model starts after async_setup; the length of a delay is left
out; `OverflowAttempt` stands for 1024, the first attempt for which
`2.0 ** attempt` overflows. A task that has ended is known to have ended at once
(the done callbacks that clear `_tasks` are not separate steps).

### EventPipeline

State: the server's `log` with a `clock` in seconds, the subscription, the wire,
`queue`, the event the worker is busy with, the window as deque and set,
`lastEventAt`, `stored`, and history variables that say what became of each event
(`published`, `merged`, `dropped`, `lost`).

Actions: `Tick`, `Occur`, `Drop` are the server; `ReadEvent` is `_on_raw_event`;
`TakeEvent`, `Process`, `ProcessRaises` the worker before and after its name
lookup; `Subscribe`, `Swapped`, `HistoryAnswers`, `HistoryFails`,
`HistoryRaises`, `NoticeDrop` the supervisor with the backfill; `Shutdown`,
`Crash`, `Start` a reload, a death of the host, and a new hub.

The kinds of event differ in where they appear. A subscriber is sent all of them,
a HISTORY reply has passes and denials (`ClassicKinds`), may have kinds the parser
does not know (`UndocumentedKinds`), behind which it stops, and never has those only
EVENT_CE can tell, doors, links and modes (`LiveKinds`).

Abstracted: server and Home Assistant share one clock; `kind` stands for every
fingerprint field but the time, and both forms of an event have the same one, which
`TwinsAgree` of `Protocol` shows for documented kinds with a direction; name lookups
have no result.

### AccessPoints

State: `truth`, what the server has; `known`, `info`, `available`, what the hub
shows; the poll's position, the points it has discovered, the command in flight
with the reply the server will give, the queue of events, refresh tasks, and how
often each point was announced.

Actions: one for each request and each reply of async_poll, `_async_refresh_one`
and async_set_mode, with a failure for each; `ProcessEvent` is
`_apply_event_to_state`; `EventsDrop`, `EventsResume`, `MissedArrive` are the
subscription and its backfill; `DoorMoves`, `LinkLost`, `LinkRestored`,
`ModeChanges`, `PointRemoved`, `PointAdded` are the server.

Abstracted: one command is in flight at a time, which is the lock of
`OifConnection`; one poll at a time, which is the coordinator's doing; events
from the history carry no code, so none of them tells a mode; the server leaves
points that are offline alone when it sets a mode, and its list has no order.

### ConnectionIssues

State: what a new session would meet (`server`), where the supervisor is, the age
of the marker (`since`), the registry's `issues`, and as history the age of the
last success and the issues that were there before this hub.

Actions: `OpenFails`, `Opened`, `EventsLost` (supervisor), `PollSucceeds`,
`Unload`, `SetUp` (a reload), `Tick`, `ServerChanges`. `IssueAfter` stands for
the 900 seconds of UNAVAILABLE_ISSUE_AFTER; ages stop there because nothing
compares them beyond it. A server that is not "served" may be so for one session
and not for one that was opened before, so a poll may succeed meanwhile.

### Webhook and Forwarding

State: where the worker is suspended (`task`), the queue, `_wakeup`, the event
being delivered with its attempt, the three counters, and where async_shutdown is.
`Enqueue`, `Runs`, `Delivered`, `AttemptFails`, `Retries` and `Crashes` are the
worker's segments between awaits, `Shutdown`, `TakesCancel`, `ShutdownEnds` and
`ShutdownRaises` async_shutdown. `Forwarding` is the abstract specification: a
first-in first-out line of bounded length in which every event is served or
displaced once. `Webhook!Lined` maps the event on its way and the queue to that
line, and `ForwardsInOrder` says that every behaviour of the forwarder is one of
the line's.

Abstracted: whether a refused attempt was a timeout, an answer or a connection
error; the delay between attempts; signature and nonce.

### Entries

State: per entry its address, stored options, the options its hub read, the await
of set-up or unload it is at, its known and available points and its devices; the
static route, the count and the panel; per dialog what it has checked or shown.
Actions: `SetUp`, `HubFails`, `Discovered`, `BindingsLoaded`, `RefreshFails`,
`Refreshed`, `PlatformsForwarded`, `RouteAdded`, `PanelRegistered`, `PanelFails`
are async_setup_entry with async_register_panel; `Unload`, `UnloadFails`,
`Unloaded` async_unload_entry; `UserSubmits`/`UserCreates`,
`Reconfigures`/`Reconfigured`, `Reauthenticates`/`Reauthenticated` and
`ValidationFails` the config dialogs before and after their await;
`SaveGeneral`, `SaveEvents`, `SaveWebhook`, `PointsAsked`, `PointsShown`,
`PointsSubmitted`, `PointsSaved` the options dialogs. `unwanted`, `early`,
`overlap` and `replaced` are history variables.

Abstracted: of a form that only stores its fields, that it was saved; entries are
not removed; services and websocket commands register once and have no state.

### Presets, Bindings and Panel

`Bindings` has the live store of the loaded entry, the file, the store of the
set-up before while something still uses it, the camera service's call between
its awaits, the registry's cameras and the pass buttons that exist. Any name may be
bound, also one no camera has. `Presets` has the presets and whether a write is
under way. `Panel` composes the two with one open panel: what it fetched (`view`),
and whether "changed" has reached it (`told`), and with what the hub knows of the
server (`hub`): its points, their zones, and one `status` for the names, the zones,
what is available and how the server is connected, which ws_panel_data answers with
as well. How the hub comes to know it is the matter of `AccessPoints` and
`HubSessions`; here `HubLearns` takes one answer after the other. `missed`,
`overlap`, `silent` and `untold` are history variables that name the situations in
which the code gives no promise (section 3).

Abstracted: a binding is a camera and a direction (the RTSP address behaves as the
camera does); at most one store outlives a reload and one camera call is made at a
time; names and icons of presets. The panel's JavaScript fetches also when it sees
any change of the entity registry (panel/sigur-panel.js:308), a second way to learn
of a renamed camera that is left out: with it the panel is only told more often.

### Lines, Messages, Events and Protocol

A line is a sequence of symbols. Each character the tokenizer treats specially is
a symbol of its own, one letter stands for the others, and a keyword, number or
timestamp, which has none of them, is one symbol. `Lines` translates `quote`,
`decode_quoted`, `tokenize` and the token stream; `Messages` the parsers;
`Events` the table of codes, `normalize_event`, `fingerprint` and what the bus,
the webhook, the event entity, the sensors and the diagnostics show of an event;
the raw line goes along with it (`raw_message`), for the bus alone.
`Protocol` writes texts and events as the server does (the messages of
tests/fake_oif_server.py) and states what must come back. These are functions;
the two variables of `Protocol` enumerate their inputs, texts and short histories.

A `while` loop of the code is a function that makes one turn (`Decode`, `Scan`,
`Field`, or `Turn` with the place where the next item starts) and `Loop`, which
takes as many turns as there is input: a turn that is not at the end reads
something, so no more are needed. What the symbols are is a constant: TLC takes
the strings, and the proofs any set that has the special characters in it.

Abstracted: bytes outside ASCII, which have no meaning to the tokenizer;
timestamps; the numbers are those that occur.

## 3. Runs

A run either finishes without an error or, where it says so, finds its one
property violated: there the code differs from what its own documentation says.

| Run | cfg | What it shows |
|---|---|---|
| oif_contention | OifConnection_contention | `AnsweredAfterAsked`: no reply that had arrived before a command was written answers it. `StrayOnlyFromGone`: the reply of another command is taken only from one of the same session that had timed out or been cancelled, and once. `FailureMeansDown`: draining stale replies never hides a loss |
| oif_liveness | OifConnection_liveness | `CallsReturn`, `LossIsNoticed`: every command ends unless a `drain()` never does, every loss reaches wait_disconnected() |
| ep_backfill | EventPipeline_backfill | de-duplication (`NoReplayInWindow`, `MergedHasTwin`), `LastCoversPublished`, `StoredNeverRewinds`, `EveryEventAccounted`, `NoGapInWindow`, and a worker that survives a failing event (`WorkerGoesOn`); with events of a history, of an undocumented kind and of a kind no history has |
| hs_sessions | HubSessions_sessions | `LiveCommandKept`: tasks that find the command session dead together reopen it once. `NoOrphanWhileRunning`: no socket is forgotten while the entry is loaded, but that of a refused SUBSCRIBE or of a task cancelled in connect(). `LockIsGranted`, `ShutdownReturns`, `Resubscribes` |
| hs_backfill_ends_supervisor | HubSessions_backfill | violation of `KeepsSubscribing` |
| hs_swallowed_cancel | HubSessions_stops | violation of `StopsEveryTask` |
| ap_polls | AccessPoints_polls | `AnnouncedOnce`; `Converges`: polling repairs whatever stale replies, reordered or lost events and optimistic patches left; `NewPointsAppear`, also when their GETAPINFO fails |
| ci_outages | ConnectionIssues_outage | `IssuesCanBeCleared`, `OutageIsLong`, `LongOutageIsReported` |
| wh_forwarding | Webhook_forwarding | `EveryEventCounted`; `ForwardsInOrder`, the refinement of `Forwarding`; `QueueDrains`: no wake-up is lost; `WebhookStops` |
| en_lives | Entries_lives | `PanelFollowsEntries`, `OptionsReachHub`, `ServersKeptApart`, `DevicesKept`: over every interleaving of two set-ups, unloads and dialogs with one failure |
| pn_edits | Panel_edits | `UsersSeeTheirOwn`; `PanelIsTold` of each edit of presets and bindings; `BindingsFollowRegistry`, `ButtonsMatchDirection`: over writes that suspend, cancelled calls, reloads, and points that appear and move |
| pr_messages | Protocol_messages | `TextsArrive`: texts survive quoting and every message; `TwinsAgree`: an event read live and from the history has one fingerprint; `NobodyNamed`: two events that differ in the person look the same at every outlet unless the option is on, but for the raw line that debug_raw_events puts on the bus |

### What the violations show

- **hs_backfill_ends_supervisor.** The backfill runs outside the supervisor's try
  block, and reopening the command session raises Home Assistant's exceptions, not
  a SigurError: the supervisor ends and the event session is never replaced.
- **hs_swallowed_cancel.** `close()` suppresses CancelledError while it waits for
  the reader task. If the worker is cancelled there, it goes back to its queue and
  async_shutdown waits for it for ever.

### Differences without a run

The models show these too. Where a property excuses one, the excuse is a history
variable named in brackets.

Sessions and events:

- A late reply is taken by the next command when it arrives after that command has
  drained the queue; docs/adr-001-architecture.md:41 says late replies are drained.
  `StrayOnlyFromGone` states exactly how far this goes.
- A refused dial leaves `disconnected` cleared (client.py:178, `DialFails`).
- Two kinds of session are neither kept nor closed: one whose SUBSCRIBE fails
  (runtime.py:776), and one whose task is cancelled inside connect(), which closes
  only on a SigurError (client.py:187-191). The second takes no shutdown: a script
  that is stopped while its call reopens the command session leaves one in a loaded
  entry. Both are `abandoned`, the exception in `NoOrphanWhileRunning`: the session
  stays open until its peer closes it. The same becomes of the command session when
  the discovery of async_setup raises (`Entries!HubFails`), and a poll or a service
  call may open one after the shutdown has begun.
- `2.0 ** attempt` overflows after 1024 failures in a row, which also ends the
  supervisor (`Fail`).
- The backfill window starts at `last_event_at` as it is when `_async_backfill`
  runs (runtime.py:825). A live event of the new subscription handled before moves
  it past the events of the outage, which its docstring (810) promises to replay.
  What holds is `NoGapInWindow`, of what a history can tell.
- Door, link and mode events of an outage stay missing: GETHISTORY answers passes
  and denials only (event_codes.py:751-758), while the same docstring speaks of the
  events missed. Passes behind an event of an undocumented kind stay missing too
  (see Messages). Both are exceptions of `NoGapInWindow` (`OutOfReach`).
- The fingerprints are not persisted: after a restart the events of the last second
  are published again (runtime.py:285). `NoReplayInWindow` is about one run.
- A poll that discovers a point and then loses the session never announces it
  (runtime.py:500); `Discovered` and `PollFails` of `AccessPoints` are these steps
  (`forgotten`).
- A point whose GETAPINFO fails in the poll that discovers it is announced without
  its data (runtime.py:500-515), while the docstring at 415-420 says that listeners
  are told only once new points have them. The models follow the code: the point
  gets its entities, under a placeholder's name.
- An issue raised before a reload is never removed: the new hub has no marker, and
  only a marker leads to deleting issues (runtime.py:872; `left`).
- A worker that crashed makes WebhookForwarder.async_shutdown raise, and
  SigurHub.async_shutdown with it, before the sessions are closed
  (runtime.py:327-336; `ShutdownRaises`, `UnloadFails`).

Entries and dialogs:

- Options saved while the entry is being set up reach no listener and wait for the
  next reload (\_\_init\_\_.py:68; `early`).
- A registration of the panel that fails keeps the count it took (panel.py:61): the
  panel stays away until Home Assistant restarts (`PanelFollowsEntries` excuses it).
- A reconfiguration checks for duplicates, awaits the connection and then stores the
  address without a second check: two entries can get one address, or a new entry
  replaces one (config_flow.py:271; `overlap`, `replaced`).
- The options dialog compares the choice with a list fetched after the form: when
  the second listing misses a point or has one more, "all" becomes a filter, and the
  points outside it lose their devices (config_flow.py:390; `unwanted`).
- After a first refresh that failed, runtime_data keeps a hub that was shut down,
  and the dialog asks that hub for the points (config_flow.py:370; `PointsAsked`).
- The webhook form accepts a public http address with insecure delivery confirmed
  (config_flow.py:474-537), which async_setup then refuses (webhook.py:89-108).

Panel:

- A camera call without direction_mode resets the direction to both ways without a
  reload (services.py:226), while README.md:225 of the repository says a change of
  the mode reloads the entry (`silent`).
- A camera renamed or removed while its entry is unloaded or named by a running
  call keeps its old name in the binding; and ws_set_binding stores any name
  (websocket_api.py:263, 293), so a panel that has not fetched a rename yet, in
  which only the direction is edited, binds the old one again
  (panel/sigur-panel.js:996, 1067, 1077). Both are `missed`. A write of the bindings
  that a reload overtakes is lost to the new store (`overlap`).
- A camera call cancelled while it waits for a write keeps the bindings it has set,
  tells no panel and does not reload (services.py:218-225; `silent`, `untold`).
- Much of what an open panel shows changes with nobody told: everything by a reload,
  the points a poll adds and the zones it moves (runtime.py:428-430, 513-515), all of
  which are `untold`; and how the server is connected and subscribed, what is
  available and the names of points and zones (websocket_api.py:158-200), for which
  `status` stands, and of which `PanelIsTold` promises nothing. The panel shows the
  old ones until something else makes it fetch.

Messages:

- The classic form has no "no direction": the server writes UNKNOWN where EVENT_CE
  has direction code 0, normalize_direction_text gives "unknown" and
  normalize_direction_code "none", so the twin of a live event with code 0 is not
  recognised (models.py:120 says both forms carry the direction verbatim;
  `TwinsAgree` leaves code 0 out).
- An event of an undocumented kind in a HISTORY reply ends the parsing: its fields
  are not skipped, so no comma follows and the events after it are lost
  (parser.py:565, whose comment says the batch does not fail). Read from a history it
  has another category than its code gives it live, hence another fingerprint.
- With debug_raw_events the line an event was read from goes on the bus, and from
  there to every open panel (runtime.py:617-622, models.py:172-173), with the id, the
  key and, if the server sends it, the name. README.md:439-441 of the repository says
  that neither name nor id gets on the bus while the option for personal data is off;
  only the form of the options says that the raw message may have them
  (translations/en.json:121). `NobodyNamed` makes the exception (`ButLine`).

### Bounds

- **oif_contention**: three callers, so that two wait while one holds the lock;
  three commands, so that a late reply can reach the command after the next; two
  connect() calls, so that replies and waiters of a dead session meet a new one.
  Pushed events only interleave with replies in the reader, so they are left to
  oif_liveness. The two callers that do not connect are symmetric.
- **oif_liveness**: three callers, two commands, one session, one event.
- **ep_backfill**: a queue and a window of two places with three events, so that
  both overflow; histories that reach one second back against two that pass, so that
  they can miss events; one drop, one restart, one failure. Events differ in their
  second and in their kind, of which there is one of each sort; at most one of the
  three events is neither a pass nor a denial, which is enough to be missing and to
  hide what is behind it.
- **hs_sessions**: the supervisor, with its backfill, and one script contend for the
  lock; the theorems are about any number of tasks. Three names for sessions: one
  installed, and one being opened by the lock holder and by the supervisor; a name is
  free again once its socket is closed.
  `OverflowAttempt` is 1, so both a first retry and an overflow occur. The two runs
  that look for a violation have the names, the attempts and the refresh task or the
  name lookups it takes.
- **ap_polls**: two points, of which the server starts with one, two changes of
  the server, one drop, one failed command. The queue has one place, so that it
  overflows; a backfilled event is still handled after a newer one.
- **ci_outages**: an outage is long after three steps.
- **wh_forwarding**: the code's three attempts; a queue of three places, so that
  the oldest event, the one behind the event on its way and the newest differ;
  eight events, so that the queue fills, overflows and drains again.
- **en_lives**: two entries that share the panel, two addresses, two dialogs, two
  points. Two dialogs may be opened and three set-ups started, one of which fails
  at any await: enough for a reload between the steps of a dialog, for two dialogs
  over one entry or one address, and for the count to be taken by one entry while
  the other registers.
- **pn_edits**: two presets and one user; a server that answers with one point or
  with two, one of which is in a zone in either case; two cameras. Two edits, each
  with its write, and one new answer: enough for an edit of one thing while another
  is written, for a rename and a binding to the old name, and for a reload or a new
  point between the two. A camera call names both points, so that it can be
  overtaken or cancelled between them. One call and one store that outlives a reload
  at a time.
- **pr_messages**: every text of up to three of seven symbols, in which each
  special character meets itself, the hash and a digit; every history of up to two
  events of seven kinds (each shape of the classic form, an undocumented kind and a
  code of an alarm panel), two objects, four keys, three directions.

Deadlock is not checked where the bounds end the behaviours. `ConnectionIssues` has
no such bound and `Webhook` says where it has stopped (`Stopped`): both are checked.

### Fairness

asyncio runs every ready task and its timers fire. So each module assumes weak
fairness of a task's own steps and of whatever ends an await: in `OifConnection`
the steps after the lock, the timeout and the reader, but not `writer.drain()`,
which no timer bounds: that it returns is the premise of `CallsReturn`
(`DrainEnds`). In `Webhook` it is assumed of a post, which ClientTimeout bounds, and
of asyncio.sleep; in the other modules of the end of a dial or a command, which
`CallsReturn` justifies as long as the server reads. The coordinator polls again
and again.
Nothing is assumed of callers, cancellations, or the server,
with two exceptions. `Resubscribes` is an implication: a server that recovers
for good (`ServerRecovers`) is assumed there only. `AccessPoints` assumes that a
dropped subscription comes back. Without the first a hub may fail for ever, as
it should; the second is `Resubscribes`, and holds while the supervisor lives.
In `HubSessions` every task goes on and async_shutdown does, nothing more:
`ServerRecovers` says for `Resubscribes` also that sessions nobody holds end at
last and that the supervisor is not refused a name for ever, both of which are about
the model's few names for sessions. `Entries`, `Panel` and `Protocol` state safety
only and assume no fairness.

## 4. Proofs

Proved by TLAPS for every value of the constants that satisfies the modules'
assumptions, hence for any number of callers, commands, events, drops, restarts
and queue sizes.

- **OifConnection_proofs**: `TypeCorrect`, `DrainIsComplete` (`FailureMeansDown`),
  `AnswersAreRecent` (`AnsweredAfterAsked`) and `StrayRepliesAreLate`
  (`StrayOnlyFromGone`). `FailureMeansDown` is not
  inductive alone: connect() makes a session usable, so its queue must be known to
  be empty from the moment it is created until the dial succeeds, and the queues of
  later connect() calls must not exist yet (`QueueInv`; `BaseInv` adds the types).
  `AnsweredAfterAsked` speaks of finished commands; `AnswerInv` follows a command
  from the drain on: what the queue it waits on holds was read after it was
  written. The drain establishes that, and needs `FailureMeansDown` to be complete.
  `StrayInv` follows the answers instead: each is in one place only (`WireInv`), is
  owed to the session whose command asked for it (`OwedInv`), and while a command
  is being exchanged no later session has any (`HolderInv`), so a task that waits on
  the queue of a newer connect() call cannot be given a reply there.
- **EventPipeline_proofs**: `TypeCorrect`; `DedupCorrect`, from `DedupInv`:
  deque and set agree (`WindowConsistent`), the deque is a suffix of what this run
  has published (`WindowIsSuffix`), so an event within the window of an equal one
  is found in it (`NoReplayInWindow`); `MergedAreTwins` (`MergedHasTwin`) from the
  same; `LastEventTimeIsRight` and `StoredMovesForward`, from
  `TimeInv`: stored <= last_event_at <= clock, and events are not from the future.
  `NoEventDisappears` (`EveryEventAccounted`) is inductive with the types: each
  action hands an event on to a place that counts. `NoGap` (`NoGapInWindow`) needs
  two facts about time: the log of events is in order of their seconds (`SortedInv`),
  so a history is what an interval of it has of passes and denials up to the first
  event of an undocumented kind, and while a subscription is live nothing that follows
  it is lost (`GapInv`); a window is kept only as long as its subscription.
- **HubSessions_proofs**: `TypeCorrect`, `NoSocketForgotten` (`NoOrphanWhileRunning`)
  and `LiveSessionKept` (`LiveCommandKept`). That every open socket has an owner
  is not inductive alone: a task that opens a session is the only one to name it
  (`OpeningInv`), at most one task is inside the reconnect lock and only that one
  opens or installs a command session (`LockInv`), the event session being replaced
  is the one the supervisor closes (`SwapInv`). With these every socket is installed,
  being opened, being closed, or abandoned by a refused SUBSCRIBE or by a task that
  was cancelled at any await of connect() (`SessionsInv`).
  Of `ConnectionIssues`, in the same module: `IssuesTypeCorrect`,
  `RaisedIssuesAreCleared` (`IssuesCanBeCleared`) and `OutageReportsAreEarned`
  (`OutageIsLong`), from `MarkerInv`: the marker is never older than the last success,
  and without a marker every issue is older than the hub.
- **AccessPoints_proofs**: `PointsAnnouncedOnce` (`AnnouncedOnce`), from
  `AnnouncedInv`: the list of known points has none twice, and a point that was
  announced is in the list and not among those a poll has just added.
  `TypeCorrect`, from `KindsInv`: who asked decides the kind of the reply, a poll
  never runs off its list, a refresh in flight is counted.
- **Entries_proofs**: `PanelFollows` (`PanelFollowsEntries`), `OptionsReach`
  (`OptionsReachHub`), `ServersApart` (`ServersKeptApart`) and `DevicesStay`
  (`DevicesKept`), for any number of entries and dialogs. `PanelInv` says what the
  count counts: the entries past the panel's first `if` and not yet unloaded, also
  one that failed afterwards; the first of them registers the panel and no other
  does meanwhile. `OptionsInv` extends `OptionsReachHub` to entries being set up,
  `ServersInv` adds that a dialog validating a new server still has its address to
  itself, and `FilterInv` that a filter, stored or in use, leaves out unwanted
  points only, so the purge does.
- **Panel_proofs**: `ChangesAreTold` (`PanelIsTold`), `BindingsFollow`
  (`BindingsFollowRegistry`), `ButtonsMatch` (`ButtonsMatchDirection`) and `UsersSee`
  (`UsersSeeTheirOwn`). `FollowInv` adds to the second what a reload reads and a
  camera call, whatever name it was given, is about to write: the file is behind the
  store only while it is being written, and never while the next store is loading.
  `ButtonsInv` names the promise
  of a reload wherever it is held: by the waiting reload, by a write, or by a call.
- **Webhook_proofs**: `TypeCorrect`, `EventsAreCounted` (`EveryEventCounted`) and
  `ForwarderKeepsOrder`, the refinement `ForwardsInOrder`. Counting is not inductive
  alone: an event that leaves must have been on its way, and one on its way must not
  be waiting too, which `BusyInv` says of each await of the worker. With it the
  initial states of `Webhook` map to those of `Forwarding`, and each action to one
  of the line or to a stutter: `Enqueue` to `Accept` or `Displace`, `Delivered` and
  the last `AttemptFails` to `Serve`, `Shutdown` to `Close`, `ShutdownEnds` to
  `Discard`; taking an event off the queue, retries and cancellation stutter.

- **Protocol_proofs**: `TextsAlwaysArrive` (`TextsArrive`), `TwinsAlwaysAgree`
  (`TwinsAgree`) and `NobodyIsNamed` (`NobodyNamed`), for texts of any length over
  any characters, any names, keys and histories. `TypeOK` is all the invariant they
  need; the work is in what the functions compute. It goes in five steps.
  1. Induction: a set of naturals that is not empty has a least element (`Least`,
     from the library's well-foundedness of <), so a set that has 0 and n + 1 with
     each n is Nat (`Induction`). With it two runs of a loop from one state agree,
     and `Leads`, that turns of a loop lead from one state to another, composes; a
     loop whose turns lead to the end of the input has that result.
  2. Quoting: by induction over the characters of a text, `decode_quoted` undoes
     `Quoted` for every set of escaped characters with the hash and the quotation mark
     in it (`Decoded`; the faulty `QuoteWithPlainHash` has no hash). A quoted text has
     no quotation mark inside, so the tokenizer finds its end where it is.
  3. Reading: `Reads(p, k)` says that the tokenizer reads the tokens `k` from the
     symbols `p`, whatever follows and whatever it has read before. Words before a
     space, commas and quoted texts do, concatenation keeps it, and so a whole line
     reads as its pieces do.
  4. The parsers, on the tokens of each message: the turns of `parse_zoneinfo`,
     `parse_objectinfo` and its fields one by one, `parse_apinfo`, `parse_event_ce`
     and `parse_classic_event` for each shape. For `parse_history` by induction over
     the events: as long as they are documented, turn i starts at event i; an
     undocumented one ends the loop.
  5. The properties: the record of a live event and that of its twin have the same
     category, time, point, object, direction and key, which is all that `fingerprint`
     looks at; and what is shown without the option depends on nothing else but the
     masked key, once the raw line is taken out of what the bus carries.

Assumptions are the named ASSUMEs of the modules: constants have their types,
sizes are positive, the names for "none" are not tasks, sessions or addresses, and
the sets of access points and of entries are finite; there is an access point, and
each answer of the server gives every point a zone or none.

Those of `Protocol` are about its symbols: the characters that mean something, the
keywords and the digits are symbols, a number or a timestamp has a symbol of its own
with no special character, no two numbers are written alike, "none" is neither a
number nor a symbol (`SymbolsAssumption`, `NumbersAssumption`, `TimesAssumption`,
`NoneAssumption`, `KeywordsAssumption`, `CharsAssumption`); objects and key numbers
are numbers (`WhoAssumption`), direction codes too (`CodesAssumption`); and the
server's classic kind of an event belongs to the category of its code
(`KindsAssumption`), which is what CLASSIC_CATEGORIES in event_codes.py says.

Every invariant, step property and refinement that the passing runs check is
proved. Only model-checked are the liveness properties, which need fairness and
ENABLED and so are beyond the prover.

## 5. Not modelled

- The object name cache: its await, its failure and whether it is asked at all are
  modelled where events are; which names it keeps, and for how long, are not. A name
  may be up to its time to live old by design.
- The panel's JavaScript and the descriptions, translations, icons and logs, which
  no state depends on. TLS, HMAC signatures, nonces and JSON.
- LOCATION and ERROR replies in their details: get_location has no caller, and an
  error is a command that failed.
- The limits on the length of a line sent.
- Two polls of one hub at the same time: Home Assistant's coordinator (from the
  version hacs.json asks for) runs scheduled and requested refreshes under one lock.
  The options dialog uses a call of its own (`async_list_all_access_points`), whose
  commands are like any other to `OifConnection`.
- Removing an entry for good, and what Home Assistant does with registries then.
- Views without state: most entities, diagnostics but for the events, services that
  only check arguments and call the hub.

## 6. Plan

What is left, in the order of its worth:

- `NameCache`: the LRU with its time to live and two lookups of one name at once.
- Two commands at a time in `AccessPoints`, by composing it with `OifConnection`'s
  lock and a promise of request and reply (`RequestReply`), which `OifConnection`
  implements but for stray replies.
- A promise of the other modules that does not need a server that reads: what
  becomes of polls and of the supervisor behind a `drain()` that never returns.
