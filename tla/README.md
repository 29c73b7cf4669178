# bozo_cc in TLA+

Specifications, model checks and proofs for bozo_cc: `bozod`, a daemon that
holds one BLE connection to a pair of Bose headphones and caches their state,
and `bozo`, a terminal client that draws this state and changes it.

    tlc -config SystemSync.cfg MCBozoSystem      # and so on, see "Runs"
    tlapm BozoSystemProofs.tla                   # and so on, see "Proofs"

## 1. The system

| Component | Code | State | Operations |
|---|---|---|---|
| main | `bozod/src/main.rs` | where it is in start-up | scan, connect, spawn, initial queries, `select!`, clean up |
| event bus | `main.rs:43`, `event.rs` | per receiver, the events not received yet | `send` (never waits, drops the oldest for a slow receiver), `recv`, `Lagged`, `subscribe` |
| command channel | `main.rs:46` | up to 32 commands | `send` (waits for room, fails when the receiver is gone), `recv` |
| state manager | `state.rs`, `main.rs:53-80` | `Arc<RwLock<HeadphoneState>>` | apply a packet and broadcast the update; write the connected flag |
| connection manager | `ble/connection.rs` | peripheral, characteristic, reassembler | `connect`; `run`: a notification, a command, the end of the stream |
| socket server | `server.rs` | socket file, one task per client | bind, accept + subscribe, serve a request, push an event |
| scanner | `ble/scanner.rs` | - | find the adapter, scan, pick a device by name or UUID |
| segmentation | `bozo-proto/bmap/segment.rs` | `Reassembler {segments, expected_count}` | `segment`, `feed` |
| packet codec, payloads | `bmap/packet.rs`, `protocol/*.rs` | - | conversions |
| IPC messages, transport | `ipc/message.rs`, `ipc/transport.rs` | a line buffer | read and write a JSON line |
| IPC client | `bozo/src/client.rs` | writer, reader task | connect or spawn the daemon, GetState, send |
| App, input, UI | `bozo/src/app.rs`, `input.rs`, `main.rs`, `ui.rs` | the drawn state, focus, dialog | drain responses, apply an update, a key press, draw |

How they interact. A notification goes from the connection manager through the
reassembler and the parser onto the event bus as `PacketReceived`; the state
manager takes it, writes the field, releases the lock, and broadcasts
`StateUpdated`; every client handler takes that and writes it on its client's
stream. A request goes from the client's stream to its handler, which answers
`GetState` from the shared state, and turns everything else but `Reconnect`
into a command that it awaits room for in the command channel. `Connected` and
`Disconnected` take the bus too, but there the handlers push the event itself
and the state manager writes the flag when it gets to it.

What is hard. Five kinds of tasks share a lock, a lossy bus, a blocking queue
and sockets that block; a client's snapshot and its update stream come from
different places; replies carry no id; the state is broadcast after the lock is
released; `connect` subscribes on the device before `run` opens the stream; the
process exits while handlers still have something to push; a lost notification
leaves a half-filled reassembler behind; an event drops a line that is half
read; daemons that know nothing of each other share one path; a key acts on a
view that is out of date. `PROJECT.json` lists each of these hazards at its
line, with the properties that cover it.

What makes each part correct:

- update pipeline (state manager, bus, handlers, clients): a client never settles
  on a stale value of a field, unless a lag has lost its last update; replies
  match requests one to one;
- cache: once everything is drained the daemon holds what the headphones hold;
- queues: nobody waits for ever, whatever is full;
- life cycle: the flag follows the connection, a lost connection ends the
  daemon;
- packet path: without losses, every packet comes out once, whole and in order,
  and writes one cell of the state; with losses, bounded damage;
- rendezvous: a daemon that is alone can be reached; a client that spawned one
  finds it, or has a reason to give up;
- lines: no request is lost and the next one served, whatever interrupts a read;
- keys: they ask for something the headphones have, and reach everything they
  offer; the screen ends up true.

## 2. Modules

| Module | Models |
|---|---|
| `BozoTypes` | the vocabulary of the composition: states, updates, packets, events, commands, requests, responses |
| `EventBus` | `tokio::sync::broadcast` as the daemon uses it, and a history of what lags have lost |
| `Headphones` | the device and the BLE link (external) |
| `IpcSocket` | the two streams of each client's Unix socket |
| `Bozod` | the daemon: main, server, handlers, state manager, connection manager |
| `TuiClient` | `IpcClient` and `App::poll_ipc` |
| `BozoSystem` | their composition, fairness and properties |
| `Segmentation` | `segment`, the header byte, `is_last_segment` |
| `BleLink` | packets of the headphones cut, lost, garbled, broken off, and fed to the daemon's `Reassembler` |
| `PacketCodec` | `to_bytes`, `from_bytes`, `parse_many`, on bytes |
| `Protocol` | the packets the daemon sends and the payloads it parses |
| `StateStore` | `HeadphoneState` with its types, `parse_and_update`, `apply_update`; the same state as cells |
| `PacketPath` | `BleLink`, `PacketCodec` and `StateStore` composed: from the headphones' bytes to the published update |
| `PacketStream` | abstract: a stream of messages |
| `CellStore` | abstract: the state as `Bozod` has it, cells that are set one at a time |
| `TuiApp` | `input.rs`, `App`, what `ui.rs` draws, and the headphones behind it |
| `Scanner` | `find_bose_device`, `find_bmap_characteristic` |
| `Rendezvous` | daemons and clients that meet at `/tmp/bozod.sock` |
| `IpcLines` | `transport.rs` under the two readers of a connection |
| `BozoSystemProofs`, `BozodProofs` | the theorems about `BozoSystem`: the pipeline to the clients; the connected flag, the cache and the replies |
| `BleLinkProofs`, `PacketCodecProofs`, `RendezvousProofs`, `IpcLinesProofs`, `TuiAppProofs` | the theorems about the modules they are named after |
| `SequenceFacts` | lemmas about numbers and sequences that several of the proofs cite |
| `MC*` | constants for TLC |
| `DocumentedClaims` | what documentation says and `BozoSystem` does not do |

How they fit together. `BozoSystem` is the system at the level of whole
messages and abstract values. The other modules look at one joint of it in
detail, where it takes something for granted:

- `Bozod` lets a packet come out of `feed` and write a cell in one action each:
  `PacketPath` starts from bytes and implements `PacketStream` and `CellStore`;
- `IpcSocket` carries whole messages: `IpcLines` has lines in pieces, and
  implements `PacketStream` in the direction to the client. In the other
  direction it shows what is true instead: a request can be lost, and then the
  connection ends;
- `BozoSystem` lets the user send any request: `TuiApp` has the keys;
- `BozoSystem` has one daemon: `Rendezvous` has several.

### Correspondence

Composition. A `HeadphoneState` is a function from fields to values. Every field
a packet can set is a *cell*: `battery`, `cnc`, `product_name`,
`audio_mode_index`, `standby_timer_minutes`, and one cell for each index of
`audio_modes`, a vector the code keys by `mode_index`. `connected` is the one
field that no packet sets. A payload is a member of `Values`, or `Malformed` if
the typed parser rejects it. A packet is its operator, the field it is about
(`other` for what the daemon does not handle) and a payload. All arms of
`parse_and_update` have one shape, so they are one action, `SMPacket`.

Atomicity. An action is what a task does between two await points at which
another task can make a difference:

- `SMPacket` is parse and write under the lock, `SMPublish` the broadcast after
  it;
- a handler that awaits `command_tx.send` holds its command in `pending`; it
  serves neither requests nor events until `SendPending`;
- a handler whose socket is full (`~Writable`) does nothing else either. The
  message above `SockCap` is the one it is still writing;
- `connect()` up to its broadcast is one action, `OpenStream` (the
  `notifications()` call of `run`) another: what is announced between them is
  lost;
- one notification may carry several packets; they are published one by one,
  in order, so `Bozod` has several notifications (`PacketPath` has the bundle);
- the client's reader task, its unbounded channel and `poll_ipc` are one
  action, `ReadResponse`. `toClient` is the socket together with that channel;
- in `Rendezvous`, `exists`, `remove_file` and `bind` of `run_server` are three
  actions: other processes act between them.

Lag. `missed[r]` is a history variable: no action reads it. It holds the fields
whose last news to receiver r was in an event the ring buffer dropped; later news of
the same field in r's inbox takes it out again (`StillMissed`), subscribing again
clears it. News (`News`) is what a receiver learns a field's value from: packets
for the state manager, updates for the handlers, `Connected` and `Disconnected`
for both. So a property can say exactly which cells a lag excuses.

Failure. The process can be killed at any time (`Killed`), fail to scan or to
connect, end by Ctrl+C, or shut down because `run` returned. A characteristic
write can fail, a requested disconnect can fail unnoticed, the link can be lost at
any time, the notification stream may fail to open, a client can quit at any time, either end of a socket may be killed
in the middle of a line. Dropping the tasks with the process is `ProcessEnds`:
what was written to a client can still be read, the rest is gone.

Directions. `segment` is used by the daemon for commands, `Reassembler` for
notifications. `BleLink` and `PacketPath` are the notifications; the headphones are
taken to cut their packets as `segment` does (`Send`; `SendFails` is a packet they
break off). For the commands `TuiApp` shows that they are one segment
(`CommandsWhole`), so a failing write leaves nothing half-written.

Bytes. A byte string is a sequence of 0..255; `as u8` is `% 256`, `as i8` is
`AsI8`. An `Option` is a sequence of at most one element. In `BleLink` byte j of
packet i is `<<i, j>>`, so that what is delivered tells where it comes from;
`PacketPath` looks it up in the bytes that were sent.

Lines. A line is how many pieces it arrives in and how many are not read yet; a
line whose writer was killed has fewer left than it has pieces. A buffer is a
number of pieces: a line parses if the buffer holds all of them.

Mutants. Operators with a comment that starts with "Mutant" are not part of the
model. Each is a plausible bug in the definition that follows it; putting it in
the place of that one breaks the property `PROJECT.json` names.

## 3. Runs

| Run | Shows |
|---|---|
| `system_sync` | `ViewConverges`, `DeviceMirrored`: over every interleaving of start-up, a set request, a change on the device or a stray packet, a failed write, lag, link loss and shutdown |
| `system_requests` | `TypeOK`, `SyncInv`, `ConnectedFlag`, `OneReplyPerRequest`: over every kind of request and a failed write |
| `system_live` | `RequestsAnswered`, `LinkLossShutsDown`, `EventuallyMirrors` under the fairness below |
| `link_lossless` | `ImplementsStream`, `ImplementsCells`: with the real segment size and the real bytes, the packet path implements `PacketStream` (safety and liveness) and `CellStore` |
| `link_lossy` | `SinglesDelivered`, `Recovers`: what a loss can cost; `OffsetsKept`, `OneLossNeverMixes`: what it cannot do |
| `tui_keys` | `ScreenTrue`, `CommandsWhole`, `PanicHasCause`, `AskedModesExist`, `PlusTours`, `StandbyTours`: any keys at any time, discovery under way, and the mode button |
| `rendezvous` | `LoneDaemonReachable`, `GaveUpHasCause`, `SpawnedIsReached`: daemons that start, crash, stop and take the path from each other |
| `ipc_lines` | `ServedInOrder`, `ServedOrClosed`, `StreamToTui`, `AllHeard`: events that drop reads, writers that are killed |
| `claim_*` | four sentences of the documentation or of comments that the code does not keep (section 6) |

Bounds, and why they are enough:

- `system_sync`: 1 client, 1 cell, 2 values, capacity 2 of the bus, 1 of the
  socket and the command queue, one change or stray packet from the device, one
  failed write, one set request after GetState. One client: handlers share only the state, which
  they read, and the command queue, which main fills as well; the theorems hold
  for any number. One cell: cells do not influence each other; what matters is
  that two updates of the same cell race. Two values (and None) tell a stale
  value from a new one; they are symmetric. Capacity 1 makes the queues full at
  the first chance, and three events overrun the bus.
- `system_requests`: any request, one failed write, bus capacity 3, so that
  Connected, a packet and its update pile up before the lag; nothing announced
  by the device.
- `system_live`: one value (None against a value tells loaded from not loaded),
  bus capacity 2, a set request, Disconnect or Reconnect, nothing announced by
  the device. GetState is always sent first, and PowerOff takes the same path
  as a set request.
- `link_lossless`: two transmissions out of: a packet of every kind the daemon
  handles, well-formed and malformed, with every accepted and rejected operator;
  packets of every size around one, two and three segments and of the largest
  payload; bundles of two (mode configs in either order and twice the same; one
  that does not parse before one that does; a rest that is too short for its
  header or for its length; sixteen full segments, the last index the header can
  number). Nothing the path keeps outlives a transmission but the state, and
  two writes of one cell or of two show its order.
- `link_lossy`: four packets of 0 to 5 bytes in segments of 2 bytes (one, two or
  three segments, full or not), two losses: one to break the packet before, one
  in the packet itself.
- `tui_keys`: two headphones. One has modes with gaps between their indices, is
  in a mode that discovery never asks about, and has a standby time between two
  options; the other has no mode that can be discovered, only 127, the end of an
  `i8`, and 200, which is negative as an `i8`, and its standby time is above all
  options. Two commands
  and one answer may be on their way, so a key is pressed one or two answers too
  early. The number of keys is not bounded.
- `rendezvous`: three daemons and one client: one daemon that has died and left
  its file, and two that meet; every process may die at every step. Clients do
  not see each other, but for the daemons they start, which anybody may start.
- `ipc_lines`: two requests, two events, lines of up to three pieces: an event
  can come before, in and after a line, twice in one line, and the request after
  the lost one is there to be taken for it.

Deadlock is not checked: a daemon that has exited, a link with nothing left to
send, a TUI that has quit and a client that has given up have no step left.

Fairness. One weak fairness condition per task of the daemon: a tokio task that
can go on is polled again. Nothing is assumed of the branch a `select!` takes,
so a handler that prefers events to requests as long as there are events is
allowed, and the properties hold because there are finitely many of them. The
client's reader task reads. Scanning and connecting may never succeed, the
headphones may keep silent, the socket server may never start, signals and users
need not act. `EventuallyMirrors` assumes, in its antecedent, that the
connection stays up from some time on, that no write fails, and that neither
receiver has lost the last news of the cell.

In `TuiApp` the daemon, the headphones and `poll_ipc` go on; what the user does is
in the antecedent: `PlusTours` and `StandbyTours` speak of one who presses the
key again and again when the last press has come through, and of headphones that
stay on. In `Rendezvous` daemons that were started take the path, and clients go
on polling; daemons need not find headphones, stop or stay alive. The one
assumption about time is in `GiveUp`: 15 seconds (`DAEMON_STARTUP_TIMEOUT`) are
long enough for the child to get from its start through `bind`, which it does
before it scans.

## 4. Properties

- `ViewConverges`. When nothing about a cell is under way to a served client, the
  client draws the daemon's value. A lagging handler is no exception, but for the
  cells in `missed`: there nothing resynchronises the client (server.rs:100).
- `DeviceMirrored`. When the initial queries are sent and queue, stream and the
  state manager's inbox are empty, the cache equals the headphones, whatever
  crossed on the way. A lag excuses the cells in `missed`; a failed write (whose
  client was told Ok) allows a cell that is unknown still, never one that is wrong.
  Assumed of the headphones and of btleplug, which are not in the repository:
  `Processing` carries the value the device takes and is followed by `Result`, as
  `docs/BMAP.md:105-108` describes it (were it refused after that, the cache would
  keep a value the device never had); and an open stream loses no notification
  (`BleLink` has what a loss does to the reassembler; what it does to the cache is
  plain, the value is not repeated).
- `ConnectedFlag`. When the state manager has caught up and did not lose the last
  change of the flag, the flag agrees with the connection manager. It says nothing
  of what a client draws (section 6), nor of a link that was lost, after which main
  exits; after a stream that could not be opened (`StreamFails`, no broadcast) the
  flag stays up until then.
- `EventuallyMirrors`. The device's value gets to the screen at all. With the one
  value of its run it tells loaded from not loaded; that what is drawn is not
  stale is `ViewConverges` and `DeviceMirrored`.
- `OneReplyPerRequest`, and its liveness counterpart `RequestsAnswered`: with no
  request id on the wire, counting is the only correlation a client has.
- `LinkLossShutsDown`. However `run` ended, main gets through its remaining
  queries and exits.
- `ImplementsStream`. Every packet that `enums.rs` knows reaches the bus once,
  unchanged and in order, whatever shares its transmission: `parse_many` goes on
  after a packet it cannot read, at the offset its length gives.
- `ImplementsCells`. Each packet writes the one cell it is about and publishes
  what the cell then holds: an upsert touches no other mode than its own. (A mode is
  a cell, so that the vector stays sorted is not said here: `TuiApp`'s `TypeOK` and
  `ScreenTrue` say it.)
- `SinglesDelivered`. A packet in one segment that arrives is delivered, whatever
  the reassembler was in the middle of.
- `Recovers`. A longer one is, if the packet before it arrived and was delivered
  or had as many segments.
- `OffsetsKept`. What is delivered has no gap, no shifted byte and nothing that
  was delivered before, even when it mixes two packets.
- `OneLossNeverMixes`. It takes two damaged packets to make a mixed one.
- `ScreenTrue`. Once nothing is under way, the screen shows what the headphones
  are and each discoverable mode once, whatever was pressed where and when.
- `CommandsWhole`. No packet the daemon sends is segmented, so a failing write
  leaves nothing half-written.
- `AskedModesExist`. With a mode discovered, + and - ask for a mode the
  headphones have, also when the current one is not in the list.
- `PanicHasCause`. A key press ends the TUI (an `i8` that overflows where overflow
  is checked) only when no mode has been discovered and the current one is 127 or 128.
- `PlusTours`, `StandbyTours`. Pressing + or t long enough reaches everything
  again and again, from wherever one starts, presses on a stale view included.
- `LoneDaemonReachable`. A daemon that has never run beside another one gets the
  path and keeps it until it shuts down. For daemons that meet there is no such
  property: the one that binds last has the path, and any that stops removes it.
- `GaveUpHasCause`, `SpawnedIsReached`. A client gives up only if its child ended
  or met another daemon, and in every other case it gets through.
- `ServedInOrder`. A dropped read never makes the handler go on past a request.
- `ServedOrClosed`. It ends the connection instead (the beginning of a line is
  missing, so the rest does not parse, and `handle_client` returns the error).
- `StreamToTui`, `AllHeard`. The reader of the TUI is never dropped: it gets
  every whole line, once and in order, also those written by a daemon that has
  ended.

## 5. Proofs

All theorems hold for every value of the constants that the named ASSUMEs allow.

`BozoSystemProofs` (any set of clients and cells, any values, any capacities
above 0): `TypeCorrect` (`TypeOK`), `SyncInvariant` (`SyncInv`), `Convergence`
(`ViewConverges`). `ViewConverges` is not inductive: that nothing is under way
says nothing about the step before. `SyncInv` follows a value down the pipeline.

1. `UpdateWritten`: the update about to be broadcast is what the state holds.
2. `EventsCurrent(c, k)`: unless such an update is pending, the last event about
   cell k in handler c's inbox, if any, carries the state's value. A write to
   the state makes one pending; the broadcast appends it. A lag takes from the
   front of the inbox, so it leaves this alone.
3. `PipelineCurrent(c, k)`: if the inbox holds nothing about k and k was not missed,
   the last response about k in the stream carries the value; if there is none, the
   view has it. `PushEvent` moves the value from 2 to 3, `HandleGetState` puts a
   snapshot at the end, `ReadResponse` moves it into the view. A lag that takes the
   last event about k out of the inbox makes k missed.
4. `LoadFirst(c)`: the first request a handler reads is GetState, so before the
   client is loaded nothing has to hold, and once it is a snapshot is in the
   stream.

The proof has lemmas about what appending to and taking from a queue does to
`Silent` and `Carries`, and about what a broadcast leaves of `missed`
(`NewsTouches`), then one step per action of `Next`.

`BozodProofs` (the same constants): `FlagFollows` (`ConnectedFlag`). The flag lags behind the
connection manager by the events in the state manager's inbox, so the invariant
(`Settles`) speaks of those: before `connect` there is none about the flag; while
`run` goes on none is `Disconnected`, and if there is none at all the flag is up,
or `Connected` was lost (`FlagLost`); after a requested disconnect every `Connected`
has a `Disconnected` behind it. `Stage` adds what the other tasks contribute: main connects once.

`BozodProofs`: `Mirroring` (`DeviceMirrored`). For every cell the headphones serve,
the last news of its value is in one of four places, each counting only if the
later ones are empty of it (`Mirrored`): the initial query, still in main's hands
or in the command queue; the notification stream; the state manager's inbox; the
state. Of the last (`Right`) it is said what is still missing: news that was lost,
or, while the cell is unknown, an answer that is outstanding or that a failed
write has prevented (`Waiting`). A change on the device or a command announces a new value at the end of
the stream, so the device and the last news change together; `OpenStream` loses
what was announced before it, and the queries, which cannot have been sent yet,
make up for that. `QueriesAssumption` is that main asks for every cell in
`Supported`; headphones with a mode above the ten that `initial_queries` asks about
(state.rs:36) have it outside that set, and are mirrored in the rest.

`BozodProofs`: `Replied` (`OneReplyPerRequest`). The count is inductive once it is
stated from the connection on instead of from the acceptance on. The replies in a
stream are counted as a set of positions: taking the first response shifts them.

`BleLinkProofs` (any segment size and number of packets, losses, lengths up to what
sixteen segments hold): `TypeCorrect` (`LinkTypeOK`), `Singles` (`SinglesDelivered`),
`Recovery` (`Recovers`), `Offsets` (`OffsetsKept`), `NoMix` (`OneLossNeverMixes`).
The proof separates bytes from order. `LinkTypes` bounds the slots `feed` makes and
addresses; `Cutting` says that what is on the air and in the slots is cut from
packets that were sent, and `SegmentCut`, `CutFacts` and `Flattened` what that
means: the header tells the segment's number, and segments 1 to n of one packet,
in their slots, flatten to its bytes. So of each place on the air and of each slot
only a packet and a segment number matter. `Numeric` is the invariant of those
numbers, and `NumericStep` that the steps in numbers (`Sending`, `Losing`,
`Garbling`, `Receiving`) keep it; the lemmas `...View` show every action to be one of
them. In it

1. packets are on the air one after the other, and each from the segment on that is
   next; a packet that is not damaged is there to its end (`InOrder`);
2. the slots hold segments of packets with as many, older than what is on the air
   (`InSlots`), and of a packet that was damaged one is missing for good (`Lacking`),
   so that it is never delivered whole;
3. a packet that is half fed has all it was fed in the slots, its first segment
   perhaps excepted (`InStep`): that one is lost with the slots when it meets a
   count that is not its own. It is there if the packet before came through and was
   delivered or has as many segments (`Follows`, which rests on `Ready`).

`Recovered`, from which `Recovers` and `SinglesDelivered` follow, is then kept by the
last segment of a packet. `Deliveries` orders the packets of the bytes: all of one
delivery are older than all of the next and than everything pending, so no byte
comes twice. While at most one packet is damaged, what completes in the slots is one
packet (`NoMixture`), which `Sources` keeps as the witness of `OneLossNeverMixes`.

`RendezvousProofs` (any sets of daemons and clients): `TypeCorrect`,
`LoneReachable` (`LoneDaemonReachable`), `GivingUpHasCause` (`GaveUpHasCause`).
The inductive invariant says of a daemon that is alone where its server is *and*
what the path is then: binding only when the path is free, listening only with
the path its own (`PathInv`). It rests on `Meetings`, that two living daemons
have both met somebody, so that nobody else touches the path while one is alone,
and on `TaskInv`, that a server task lives as long as its process; `ChildInv` ties a
waiting client to a daemon that was really started.

`IpcLinesProofs` (any number of requests, events and pieces): `TypeCorrect`,
`Served` (`ServedInOrder`), `StreamImplemented` (`StreamToTui`, a refinement: initial
states map to initial states, every step to `Send`, `Deliver` or a stutter). While the
handler serves, the lines it has not read are the requests from the next one on, all
of them or all and one unfinished that only a killed TUI leaves last (`Pending`);
what is on its way to the TUI continues what was heard, and every line of it that
was written whole still has all its pieces, read or to be read (`Coming`).

`PacketCodecProofs`: `RoundTrip`, `from_bytes(to_bytes(p)) = Ok(p)` for every packet
with a payload of at most 255 bytes (`to_bytes` takes the length modulo 256, so no
more can hold), and `ParsedIsPacket`, what `from_bytes` returns is well-formed and
its payload as long as byte 3 of the header says.

`TuiAppProofs` (any headphones, any number of keys, any bounds on the queues, any
segment that holds a header and two bytes, `TuiAssumption`): `AppTypes` (`TypeOK`),
`ScreenShowsHeadphones` (`ScreenTrue`), `NoHalfCommand` (`CommandsWhole`),
`PanicCause` (`PanicHasCause`, inductive together with `AppInv`: the headphones' modes
are fixed and a TUI that has ended reads nothing), `AskedExist` (`AskedModesExist`).
That the screen is true when all is quiet follows
from what is true before: `AppInv` says of every field of the view where the truth
about it is (`NameComes`, `BatteryComes`, `ModesCome`, `CurrentComes`,
`StandbyComes`). What is not asked yet will be; what was asked is in the command
queue, or its answer is under way, or the view has it. The current mode and the
standby time change, so of those the *last* answer under way counts (`Ends`), and
only if there is none the view. A command that changes the headphones puts its answer
behind all others, so the last answer and the headphones change together. A mode can
be announced twice: `Upserted` is the lemma that the vector stays sorted and without
doubles and keeps every mode it had, whichever order of the places `sort_by_key` picks.

`SequenceFacts` has the step all proofs about recursive functions take: a nonempty
set of numbers has a least element (`Least`, from the well-founded order of the
numbers), so what a function computes element by element is shown by the first
element at which it would not.

Only model-checked: liveness (fairness and ENABLED are out of the prover's
reach), and `PacketPath`'s two refinements. `ImplementsStream` ends in a liveness
property, too; of both, the safety part rests on filtered sequences (`SelectSeq` in
`Parsed`, `KnownIn` and `ValueIn`), which the provers know nothing of. What they rest
on below is proved: the link (`NoMix`, `Recovery`) and the codec (`RoundTrip`,
`ParsedIsPacket`).

## 6. What the code does not do as documented

Each is a run that ends in a counterexample.

- `claim_connection_flag`: a client can keep `connected = false` while the
  daemon has it true. `Connected` is broadcast while only the state manager
  listens to the bus; then the client is accepted (its handler subscribes behind
  the event), and its GetState is answered with `connected = false`, since the state
  manager has not got to the event yet. When it writes the flag, nothing is
  broadcast, and no later update mentions it.
- `claim_dropped`: a packet all of whose segments were received is dropped when
  an earlier packet of another length was left incomplete.
- `claim_live_socket`: "Remove stale socket file" removes the socket of a daemon
  that is listening. The clients of both daemons go on, but only one daemon can
  be found, and the path is gone as soon as either stops.
- `claim_scan`: the documented service UUID and name prefix are not the ones the
  scanner looks for; headphones whose name has neither "bose" nor "adjuster" in
  it are not found.

Seen while modelling, without a run of their own: the process may exit before the
handlers have pushed `Disconnected` (main.rs:129); after `Lagged` nothing
resynchronises a client (server.rs:100); `Reconnect` only answers Ok
(server.rs:171); a `Processing` packet updates the cache although the comment above
the guard says that it does not (state.rs:53-54).

## 7. Not modelled

- The layout, colours, status line and key list of `ui.rs`, logging, packaging,
  `build.rs`, the BLE example, command-line handling, the output of `--scan-only`:
  no state and no order of steps that a property could be about.
- JSON itself. `serde` is taken to read back what it wrote, and not to read a
  line of which the beginning is missing.
- Names that are valid UTF-8 beyond ASCII: `from_utf8_lossy` is modelled on ASCII
  and on bytes that are never valid.
- What the headphones do with half a packet. `CommandsWhole` says that they never
  get one.
- An error of `accept`, which is logged and tried again; a file descriptor limit
  would make it a busy loop.
- Permissions: `remove_file` fails only when the file is gone.
- An IPC stream that cannot be read for another reason than its end: to the handler
  it is one and the same (`HandlerEof`); a line that does not parse is in `IpcLines`.
- Real time, but for the order it imposes: the 15 seconds of `GiveUp`; the sleeps
  of main are delays during which everything may happen.
