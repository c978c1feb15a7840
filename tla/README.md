# A verification development for puddle

`puddle` is the controller of a linear-motor machine. One process talks to a
LinMot drive over UDP at real-time priority, serves any number of WebSocket
clients and one USB handheld, lets exactly one of them command the machine at a
time, and executes a list of motion commands in a loop. This directory models
that process in TLA+: what its threads promise each other, what it promises its
clients and its operator, and what happens when a client, a datagram or an error
comes at the wrong moment.

Paths below are relative to the repository (`src/main.rs` is
`src/src/main.rs` in the map of `PROJECT.json`, and so on).

## 1. The system

| Part | Source | State | Operations |
|---|---|---|---|
| Core manager | `src/main.rs` | writer, last drive state, active set and version, saved sets | four kinds of events, twelve client messages |
| Drive interface | `src/drive.rs:18-51` | power, motion and commands behind a mutex; a set of one-off actions | written by the core, copied (`try_lock`) and taken by the drive thread |
| Drive thread | `src/drive.rs` | connection, control flags, copy of the commands, index, arrival tracking | one tick: exchange, feedback, actions, copy, compute |
| Wire format | `linmot/src/udp*`, `linmot/src/mci.rs`, `linmot/src/mci/commands.rs` | none | requests to bytes, bytes to responses, state words, motion command blocks |
| Drive | external, `linmot/src/mci.rs` names its states | state machine, position, current motion command | answers each request with its status |
| Metrics thread | `src/metrics.rs` | queue, buffer of rows, connection | takes a record, adds a row, flushes, reconnects |
| WebSocket server | `src/websocket.rs` | clients by token, handshakes | accept, read, write, drop, report |
| HID I/O thread | `src/hid.rs` | the open device | open, read, write, give up, retry |
| HID UI manager | `src/hid/ui_manager.rs` | two commands, `holding_start`, what was sent | turns input reports into client messages and display variables |
| Command line client | `src/bin/puddle-cli.rs`, a program of its own | eight inputs, what it was told of the core, a dialog | turns keys into client messages, follows the broadcasts |
| Units, host statistics | `linmot/src/mci/units.rs`, `src/bin/puddle-rpi-stats.rs` | none that the machine depends on | not modelled, section 8 |

**Interaction.** Every producer of events (WebSocket thread, HID thread, drive
thread) has the sending end of one unbounded channel; the core is its only
receiver and handles one event to the end before the next. The core answers the
WebSocket thread through a second channel and a waker, the HID thread through a
third channel that is read only after the device has sent something. It runs the
UI manager on its own thread, as a function from an input report to client
messages, which it then handles one after the other as if a client had sent them.
It commands the drive thread through shared memory, never through a channel. The
drive thread sends a record of each exchange to the metrics thread and never waits
for it.

**What is hard.**

- Events describe a world that has moved on: a session is closed while its
  messages are still in the channel; a request is judged by a drive state that
  was reported before the last command.
- The drive thread skips its copy when the mutex is taken, and the core sends
  one-off actions only after it has released the mutex.
- A failed exchange throws away everything the drive thread knows, while the
  commands it works from survive.
- Nothing ties a response to its request, and a connection that is given up leaves
  its late answers to the socket that takes its place.
- Motion is kept smooth by handing over to the next command before the last one is
  finished, from predictions made of feedback that is a cycle old; the same
  arithmetic has to keep the drive within its stroke.
- The command line client edits a copy that it shows before the core has agreed.
- Readiness of sockets is edge triggered, wakes coalesce, and both reading and
  writing can notice the end of a session.
- Three copies of the motion commands (active set, drive interface, handheld)
  and two of the display have to stay in step without ever being compared.

**What makes each part correct.**

- *Core*: one live writer, who alone changes what the machine does; every change
  announced; a refusal without effect; versions that identify lists.
- *Drive thread*: travels only to its active target, with current permission;
  obeys at the next tick; switches on, off and homes to the end; stops.
- *Motion*: whatever is commanded, the drive overshoots by no more than the
  margin, and every leg ends.
- *Exchange*: both sides read a datagram as it was written; answers do not lag more
  and more; a command that stays wanted takes effect.
- *Metrics*: each record becomes a row, in order, unless it cannot be added, and rows
  that are due are stored.
- *Command line client*: once everything has been heard, it shows what the core has;
  leaving it gives up write access.
- *WebSocket server*: tells the core of each session once, in order, and loses
  nothing.
- *UI manager*: its copy is the active set when it edits it; it is never refused;
  the stroke stays ordered; the display is never stale.

The hazards behind these, each at its line, are in `PROJECT.json`.

## 2. Modules

| Module | Models | Extends |
|---|---|---|
| `MotionTypes` | drive states, motion actions, commands, partial updates, clamping | |
| `DesignatedWriter` | abstract: the rules of write access and of losing it | |
| `CoreManager` | the core, and as much of the threads around it as it can tell apart | `MotionTypes` |
| `CoreReader` | the core with a client that keeps what it read of one set | `CoreManager` |
| `DriveLink` | core and drive thread at the grain of the mutex, and the drive | `MotionTypes` |
| `MotionMath` | predictions, arrival, `clamp_deceleration`, legs of a list, as operators | |
| `MotionLoop` | the drive thread's computation in a loop with a braking drive | `MotionMath` |
| `LinUdp` | requests, responses and motion command blocks as words, as operators | |
| `UdpExchange` | thread, network and drive: losses, late answers, reconnections | `LinUdp` |
| `Metrics` | the metrics thread and the database | |
| `CommandLine` | the core with the command line client | `CoreManager` |
| `WebSocketServer` | the event loop, its peers, the core as far as it owes answers | |
| `HidUi` | the core with the actual UI manager | `CoreManager` |
| `HidDisplay` | the way back: display variables, the queue, the I/O thread | `HidUi` |
| `CoreManagerProofs` | theorems about `CoreManager`: types, the drive's copy, versions | `CoreManager` |
| `WriteAccessProofs` | theorems about write access, answers and broadcasts, and that the core obeys `DesignatedWriter` | `CoreManagerProofs` |
| `ClientProofs` | theorems about the two clients, `CoreReader` and `CommandLine` | `WriteAccessProofs` and both |
| `HidUiProofs` | theorems about the UI manager, the core and the display | `WriteAccessProofs`, `HidDisplay` |
| `DriveThreadProofs` | theorems about `MotionMath` and `UdpExchange` | both |
| `DriveLinkProofs`, `MetricsProofs`, `WebSocketServerProofs` | theorems about the module each is named for | that module |
| `MC*` | small instances for TLC | the module they instantiate |

### Correspondence

**`CoreManager`.** A step is one event (`HandleConnected`,
`HandleDisconnected`, `HandleDriveState`, `HandleHidReport`) or one client message
(`RequestWriteAccess` to `AcknowledgeError`, one action for each branch of
`handle_message`; the two halves of `UpsertCommandSet` and `DeleteCommandSet`
that work on the active and on a saved set are separate actions). Messages of one
input report are handled one at a time, from `work`; the core takes no event
meanwhile (`Receives`). `shared` is `DriveCommands`, `pending` the one-off
actions. Here the mutex is not visible, because the core is alone in writing;
`DriveLink` takes it apart. `sent` holds what the step sends, in order, so that
properties can speak of replies and broadcasts. `seq` numbers are left out: a
reply goes to the sender of the message being handled. Telemetry is reduced to
the drive state, the only part of it that the core reads.

**`DriveLink`.** `phase` is where the thread is in its loop: `Connect`,
`Exchange` (or `ExchangeFails`), `TakeActions`, `Compute`. The core's operations
are `Write` (lock and assign), `Unlock` and `SendActions`; the thread may run
between any two of them. `Compute` copies the commands unless the mutex is taken
and then follows `compute_next_request` in order: flags by state, `SWITCH_ON` off
without power, no motion unless operational, homed and with commands, arrival,
request. A command is its target. Whether the predictions of the code see the
drive cross its target, or stop short of it, is a free choice, but one that a
drive at rest does not get. The drive (`Reactions`, `Travel`) is external and
does what the thread expects of the states; it may be slow, and it may fault.

**`MotionMath`.** One operator for each function and each named intermediate of
`compute_next_request` from the arrival detection on, and for each case of
`clamp_deceleration`; `Quotient` is Rust's division. Directions `None` and
`Some(0)`, which the code treats alike, are 0. The 64-bit intermediates cannot
overflow for 32-bit feedback and the limits of the system, and are integers.

**`MotionLoop`.** `Tick` is an exchange and what is computed from its answer, by
the definitions of `MotionMath`, in one step; the core may replace the list, switch
motion or reset the index between two ticks, which are the ways in which the
variables of the thread change otherwise. `Exchange` is the drive, external: it
does what the code relies on (it accelerates and brakes at the given rates, stops
at its target if it can, and carries on past it if it cannot), exactly, without a
controller's error. The time of a tick and the units are small whole numbers, so
that positions are.

**`LinUdp`.** A datagram is its flags and the words of its parts; `Put` and `Get`
are the writer and the reader, with the overflow of the one and the underflow of the
other. All fourteen motion commands have their identifiers and numbers of
parameters.

**`UdpExchange`.** `link` is where the thread is: `down`, in the request of
`Connection::new` (`probing`), between ticks (`idle`) or in the `recv` of a tick
(`waiting`). A timeout is `AnswerIsLost` or `AnswerIsLate`, as nothing or something
is still under way; both drop socket and connection. `age` counts the requests
sent after the one that a datagram is, or answers; it is not in the code, and no
guard reads it.

**`Metrics`.** The two nested loops of the thread as steps: `Take`, `Connect` or
`ConnectFails`, `Add`, then `Keep`, `Flush` or `FlushFails`. `FlushFails` may store
the rows all the same. `AddFails` is the branch in which a table name or a value is not
accepted: the record is dropped (`refused`), and if its row was begun nothing can be
added behind it (`torn`), since nobody takes it back out of the buffer. Rows are the
numbers of their records.

**`CommandLine`.** The client's two threads and the core: `Connect`, `Forward`,
`Close` and `Cut` are the WebSocket thread, the `Take` actions are the branches of
`handle_core_message`, the rest is `handle_key_event`. The core's part of a step is a
step of `CoreManager`; `inbox` collects what it sends to this client, in order. An
input that is selected is any input.

**`WebSocketServer`.** `ready` is the set of edge-triggered readiness events,
`clients` the map, `wire` the frames that were not read. `AcceptConnections`,
`HandleClientEvent` and the loop of `handle_outbound` (`StartDraining`,
`DeliverOne`, `StopDraining`) are the three handlers; `handle_outbound` is taken
apart because the core keeps sending while it runs. Any send may fail, which
covers peers that are gone and peers that are slow (a send that would block
counts as failed). `Send` and `Wake` are two steps, as in `Server::send`.

**`HidUi`.** `Process` is `process_input_report` after the claim: the four
encoders in their order, then the events, which yields the new commands,
`holding_start` and the messages: `TurnAll`, then `PressAll`. `Claim` is its early return. One unit of
position, velocity or acceleration is what one notch of an encoder changes; the
quadratic and cubic acceleration of fast turns is kept.

**`HidDisplay`.** `Values` computes the variables, `SendVariables` sends those
that changed, `Read`, `ReadOther`, `WriteReport`, `WriteFails` and `Flushed` are the
loop of `connect_to_device`, and `Packets` is how `send_variable_updates` spreads
variables over reports. Seven variables stand for the nineteen entries the code
computes in the same way. `shown` is what the device knows; a device just plugged
in knows nothing.

### How the modules fit together

`CoreManager` assumes of its producers what the other modules establish or refine:

- a WebSocket session is opened once, sends only while open and is closed once:
  `SessionProtocol` of `WebSocketServer`;
- the UI manager answers an input report with a list of client messages: `Claim`
  and `ProcessReport` of `HidUi` are instances of the core's `HandleHidReport`
  with the list that the manager computes;
- the drive thread may take the actions at any time and report any state:
  `DriveLink` restricts this;
- a WebSocket client may send anything at any time: `CommandLine` is one that the
  repository has.

`DriveLink` leaves two things open that have modules of their own: whether the
predictions see the drive arrive (a free choice there, computed in `MotionLoop`),
and which request an answer belongs to (its own there, any that may come in
`UdpExchange`).

Above the core, `DesignatedWriter` says what a client may rely on, and
`ImplementsRules` shows that the core implements it, liveness included.

## 3. Properties that hold

| Property | Run | In words |
|---|---|---|
| `HolderIsLive` | `core_access` | the writer is connected, or the event that revokes it is on its way |
| `OnlyWriterCommands` | `core_access` | power, motion, active set and actions change only for the writer, or on its loss towards standstill |
| `ImplementsRules` | `core_access` | refinement of `DesignatedWriter`, liveness included |
| `DeadWriterRevoked` | `core_access` | a writer that is gone loses access eventually |
| `DriveMirrorsActiveSet` | `core_commands` | drive commands = clamped active set; broadcast version = its version |
| `ChangesAreAnnounced` | `core_commands` | each change of writer or active set is broadcast in its step, with its value, and nothing else is |
| `RefusalChangesNothing` | `core_commands` | one reply to each request; a refused request had no effect |
| `VersionsGrow` | `core_commands` | every change of a set moves its version up, for the active set its deletion too |
| `GoesToActiveCommand` | `drive_link` | travel only to the active target of the list held, enabled in the same copy |
| `ObeysAtNextTick` | `drive_link` | no request computed after the mutex was released disobeys |
| `PowerOffIsObeyed`, `PowerOnCompletes`, `AcknowledgementIsSent` | `drive_progress` | flag sequences run to their end through errors and lost links |
| `StopIsObeyed` | `drive_progress` | a drive that is not to move comes to rest |
| `SessionProtocol` | `websocket_server` | the core hears of each session once, in order, and agrees with the map of clients |
| `FramesAreRead`, `MessagesAreWritten`, `EndIsReported` | `websocket_server` | edge-triggered readiness and coalesced wakes lose nothing |
| `StrokeIsOrdered`, `HandheldMirrorsActiveSet` | `hid_ui` | start before end; the handheld's copy is the active set while it holds access |
| `HandheldIsNeverRefused` | `hid_ui` | no message of the handheld is refused, in any drive state |
| `DisplayIsCurrent` | `hid_display` | a variable left out as already sent is one that this device has, or will have |
| `StaysWithinMargin` | `motion_loop` | the drive never leaves the stroke by more than the overshoot margin |
| `LegsAreCompleted` | `motion_loop` | with motion enabled and a list that can be followed, the index moves on for ever |
| `RequestIsUnderstood`, `ResponseIsUnderstood` | `udp_exchange` | what is read from a datagram is what was written, part by part |
| `LagIsBounded` | `udp_exchange` | an answer is used at most as many requests late as answers have missed their timeout |
| `CommandTakesEffect` | `udp_exchange` | a command that stays wanted is executed, although counts repeat and answers lag |
| `RowsAreComplete` | `metrics` | every record handled is a row, in order, but those that could not be added; only a failed flush may store rows twice |
| `RowsAreStored` | `metrics` | every record is handled; more rows than the limit, or rows found due after an add, do not wait for ever |
| `KnowsTheCore` | `command_line` | drive state and holder as the client has them are the core's, once nothing is unread |
| `WriterShowsActiveSet` | `command_line` | the inputs of the writer are the active set, once nothing is under way |
| `LeavingReleases` | `command_line` | a client that was left does not hold write access |

`TypeOK` is checked in `core_commands`, `drive_link` and `udp_exchange`; the first
includes that the drive thread is only ever given commands within the limits, the
last that counts stay within their four bits. Each property has
a mutant, an operator next to the definition that it replaces, that breaks it.

## 4. Where code and documents differ

One difference is a run that finds a violation, and an entry under `findings`:
`error_recovery`. After an acknowledged error `docs/websocket_protocol.md:34-66` has
the machine OFF and motion in need of a start; in the code `power_enabled` and
`motion_enabled` survive, and the drive powers up and moves (`src/drive.rs:307`).

Also seen, without a run. The models have the behaviour, and no property denies it:

- `docs/design.md:168-169` and `docs/websocket_protocol.md:392` say that the core
  pauses motion when the writer is lost; it withdraws power as well
  (`src/main.rs:225`).
- `docs/websocket_protocol.md:76-78` says that resuming continues within the active
  command. While motion is disabled the thread goes on computing arrivals, and a
  drive that approached its target and stands still counts as arrived: a pause
  before the end of a leg gives the leg up (`src/drive.rs:502`).
- `docs/websocket_protocol.md:80-81` says that a start begins from command index 0.
  The core sends the reset after it has released the mutex under which it enabled
  motion; the drive thread can compute in between, and asks for the command it was
  at (`src/main.rs:518`).
- `docs/websocket_protocol.md:482` says that versions are there for the detection of
  conflicts. A saved set that is deleted and created again starts at version 1
  whatever `base_version` the request carries (`src/main.rs:341-347`, `418`).
- The comment at `src/drive.rs:699-701` says that feedback is delayed by one cycle.
  After an answer that missed its timeout it may be older by one request for as long
  as the connection lasts, since the check of the next connection takes the late
  answer for its own. `LagIsBounded` is what holds.
- The comment at `src/drive.rs:681-683` says that `clamp_deceleration` raises the
  requested deceleration if it would be insufficient and returns it unchanged
  otherwise. Beyond the margin it returns the hard stop, also if more was requested.
- The comment at `src/bin/puddle-cli.rs:333` says that the dialog's values are sent
  "if we have write access"; what is checked is whether anybody has it. The core
  refuses the request, and the client is left with inputs that are not the active
  set until it hears of the next change.
- The command line client shows an edit at once and is sent it again afterwards. With
  several edits under way the echo of an older one is shown over a newer one, until
  the newer one's echo comes. A key pressed meanwhile starts from the older value.
- Three long warnings at once make a string that fits no report
  (`src/hid/ui_manager.rs:440`, `linmot/src/mci.rs:71-95`). Writing it fails, which
  drops the handheld, and switches the machine off if the handheld was the writer
  (`src/hid.rs:258-262`).
- After a flush that failed although its rows were stored, the rows are stored
  twice (`src/metrics.rs:184-188`). The last rows before the machine falls silent wait
  for the next record, whatever the flush interval (`src/metrics.rs:182`).
- A record that cannot be added is dropped with a warning (`src/metrics.rs:175-178`). A
  value may be the reason, or the table's name, an option that is not validated
  (`src/main.rs:62`, `102`): then every record is dropped. A row that was begun stays
  in the buffer, no other can be begun behind it, and as nothing is flushed but after
  an add, the rows before it wait for ever.
- In the example of `docs/websocket_protocol.md:445-451` the core first answers the
  request and then broadcasts the change. It broadcasts first, for changes of the
  active set (`src/main.rs:359-367`, `390-402`, `443-451`) as of write access
  (`src/main.rs:278-286`), so the requester hears of the change before the answer.
- `docs/design.md:161-163` lets any controller claim write access while the drive is
  off, "as no motion is at risk". Off is what the drive reported last
  (`src/main.rs:271`): a claim that comes after the writer has switched the power on,
  and before the drive reports it, is granted.
- A start is judged by the last reported drive state. One accepted on a report
  from before power was withdrawn leaves `motion_enabled` set, and takes effect
  at the next power on (`src/main.rs:498-512`).
- A broadcast can be written to a new client before its `connected` message: the
  client is in the map before the core has heard of it (`src/websocket.rs:109`),
  while the protocol says that `connected` is sent immediately on connection. The
  greeting carries the whole state, so a client is put right by it: `KnowsTheCore`.
- Any input report, one in which nothing was turned or pressed too, claims write
  access whenever the handheld is not the writer, and takes it from whoever holds it
  (`src/hid/ui_manager.rs:110-118`, `src/main.rs:271-273`). `docs/hid_protocol.md:555`
  says that input is ignored if the handheld is not the writer, `docs/design.md:139` and
  `152-153` that write access is always explicitly claimed and never granted
  automatically.
- `docs/websocket_protocol.md:395` says that ids of closed connections are
  reassigned; tokens are never reused (`src/websocket.rs:102`), on which
  `HolderIsLive` depends.

## 5. Bounds, and why they are enough

- *Core.* Two questions, two instances. Who holds access (`core_access`): two
  WebSocket sessions and the handheld, which a steal from a third party and a
  rival that is neither the writer nor the handheld need. `MaxQueue = 2` is the
  least with which a message can be in the channel together with the
  disconnection of its sender, or a claim with a drive report. What requests do
  (`core_commands`): one session and the handheld and every request of the
  protocol, with a channel of one event: these properties are about the step that
  handles a request, and the events come in any order all the same. `MaxVersion`
  stops requests once a version is reached; with 3, an update, a conditional
  upsert that matches and one that does not, a delete and a re-creation all occur
  (what is in the channel at that point is still handled, so versions go beyond
  it). Commands have two fields with limit 1, and clients send positions on both
  sides of the limits.
- *Drive link.* For safety, positions 0 to 2, a list of two targets and one of a
  single target: a list replaced by a shorter one while the index points beyond
  it, both directions, reversal, and an intermediate position at which to be
  stopped. For progress, one stroke between two positions: whether a sequence
  ends depends on flags and states. `MaxFeedback = 1` lets the core be one report
  behind; the thread blocks at the bound, where the code's channel is unbounded,
  which delays it but takes no step away from it.
- *Motion.* A stroke of 12 with a margin of 6, which is what the drive travels in a
  tick at its highest velocity of 3: the same proportions as the default options of
  `main.rs` (2.5 m/s, 2 ms, 5 mm). Decelerations of 0, 1 and 2 against hard stops of
  1 and 4, so that clamping is needed, is not needed, and saturates; a list whose
  leg has no length, one of a single command and one with a waypoint on the way.
  Lists, pauses and resets come at any tick, without a bound on their number. With
  a smaller margin, or a drive that brakes a tick late, the drive overshoots.
- *Exchange.* One lost datagram and two late answers: a lag of two requests, counts
  that are then computed from an answer of the connection before, and a loss while
  answers lag. Counts run through all sixteen values.
- *Metrics.* A flush limit of two rows, so that some wait and more than the limit do,
  failures both before and after the rows are stored, and at any time a record that
  cannot be added, whether its row was begun or not.
- *Command line.* One command field, whose two inputs push each other; two messages
  under way, so that an edit is made while the answer to another is unread, and a
  grant crosses a broadcast; the handheld as a rival that may take access at any
  time and installs a list of its own. (The properties also hold with three messages
  under way, or with two fields, in larger instances.)
- *WebSocket.* One connection, three unread frames, three events towards the core
  and two messages back, so that a message can be queued while another is
  written. The handlers treat the entries of `clients` independently, and the
  properties speak of one session each, so one client is enough for them.
  (`SessionProtocol` alone also holds with two clients, in 220 000 states.) Peers
  pause while the core is `MaxInbound` behind; the server itself is never held
  back.
- *Handheld.* Positions 0 to 2 with settings of 0 or 1; a deceleration limit
  below the acceleration limit, so that the two differ; fast turns that overshoot
  the range; both ends turned in one report; an encoder turned while a button
  changes. The channel holds one event in `hid_ui`: the events handled come in
  any order all the same. In `hid_display` it holds two, so that a device can be
  unplugged with its last report unread, and a report takes ten bytes of variables,
  so that an update takes several.

## 6. Fairness

- *Core.* Weak fairness of a step of the core: the core blocks on its channel and
  handles whatever arrives. Nothing is assumed of clients, device or drive.
- *Drive link.* Weak fairness of unlocking, of sending the owed actions, of
  handling reports and of the drive thread, which runs at real-time priority and
  uses `try_lock`. For the progress of the drive, strong fairness of an exchange
  that takes it to another state which is not an error: homing and switching on
  take finitely many exchanges. Properties about the end of a process
  (`PowerOnCompletes`, `StopIsObeyed`) are under the hypothesis that link and
  command stay as they are.
- *Motion.* Weak fairness of the tick; nothing of the core.
- *Exchange.* Weak fairness of the thread, of the drive's answers and of the arrival
  of datagrams; a late answer and a loss may or may not happen.
- *Metrics.* Weak fairness of the thread's work, of which giving up a record is a part.
  The database answers in the end, as its failures are bounded; that a record can be
  added is not assumed.
- *WebSocket.* Strong fairness of the handlers of readiness events: each round of
  `poll` handles all events that it returned, and only `handle_outbound` can keep
  the loop. It can do so for ever if the core sends faster than the server
  writes, so `FramesAreRead` and `EndIsReported` carry the hypothesis `CatchesUp`;
  `MessagesAreWritten` does not need it. Strong fairness of the core, which may
  have to wait for `MaxOutbound`, a bound that the code does not have.

## 7. Proofs

| Theorem | States |
|---|---|
| `Typing` | `Spec => []TypeOK` |
| `Mirroring` | `Spec => []DriveMirrorsActiveSet` |
| `WriterCommands` | `Spec => OnlyWriterCommands` |
| `LiveHolder` | `Spec => []HolderIsLive` |
| `GrowingVersions` | `Spec => VersionsGrow` |
| `FaithfulRefusals` | `Spec => RefusalChangesNothing` |
| `FaithfulBroadcasts` | `Spec => ChangesAreAnnounced` |
| `ObeysRules` | `Spec => Rules!Init /\ [][Rules!Next]_(Rules!vars)`, the safety part of `ImplementsRules` |
| `ReaderIsSafe` | `ReaderSpec => []ActiveVersionIdentifies` |
| `ClampIsSufficient` | the deceleration sent stops the drive within the room there is |
| `ExchangeTyping` | `Spec => []TypeOK`, of `UdpExchange` |
| `BoundedLag` | `Spec => LagIsBounded` |
| `RequestsUnderstood` | `Spec => []RequestIsUnderstood`, of `UdpExchange` |
| `ResponsesUnderstood` | `Spec => []ResponseIsUnderstood`, of `UdpExchange` |
| `LinkTyping` | `Spec => []TypeOK`, of `DriveLink` |
| `ActiveTargets` | `Spec => []GoesToActiveCommand` |
| `PromptObedience` | `Spec => ObeysAtNextTick` |
| `CompleteRows` | `Spec => []RowsAreComplete`, of `Metrics` |
| `SessionsInOrder` | `Spec => []SessionProtocol`, of `WebSocketServer` |
| `LeavingGivesUp` | `CliSpec => []LeavingReleases` |
| `ClientKnowsTheCore` | `CliSpec => []KnowsTheCore` |
| `WriterSees` | `CliSpec => []WriterShowsActiveSet` |
| `StrokeInOrder` | `UiSpec => []StrokeIsOrdered` |
| `MirrorsActiveSet` | `UiSpec => []HandheldMirrorsActiveSet` |
| `NeverRefused` | `UiSpec => HandheldIsNeverRefused` |
| `DisplayStaysCurrent` | `HidSpec => []DisplayIsCurrent` |

They hold for any sets of sessions, names, fields, requests and reports, any
limits that are natural numbers and any bounds, from the named assumptions
of the modules they are about alone: ids, names and special values are distinct,
requests are messages, limits, margins and capacities are natural numbers, and the
sockets that connect to the WebSocket server in one run are finitely many.

- *Typing*: one lemma per kind of outgoing message, then one per handler. What
  carries the claim about limits is `ClampIsSafe`, that clamping yields safe
  commands, and that `SetActiveCommands` is the only definition that writes
  `shared.commands` (`SetActiveTyped`).
- *Mirroring*: `SetOrUntouched` says that a step either goes through
  `SetActiveCommands`, which establishes both equations, or leaves active set,
  version and drive commands alone.
- *WriterCommands* is an action property and follows from `TypeOK`: each handler
  that changes `shared`, `active` or `pending` has the writer's guard or is the
  revocation. `HandlesActs` and `ReceivesActs` connect a handler with the
  property's notion of a step of the core.
- *LiveHolder*: `HolderIsLive` is not inductive. A request of a session that has
  closed is still handled, and may be a claim; what saves the invariant is that
  the disconnection stands behind it. `AccessInv` adds this: every message and
  every input report in the channel is vouched for, its sender being open or its
  disconnection being further back in the channel, and so is the report in
  progress. `AccessStep` shows that `AccessInv` is preserved, by what a step does
  to the channel (`QueueMoves`: nothing, an event taken off the front, an event
  put at the end), to the writer (`HolderMoves`, `LossRevokes`) and to `work`
  (`WorkMoves`).

- *GrowingVersions* follows from `TypeOK`: `SavedGrows` and `ActiveGrows` go
  through the handlers that write a set; each raises the version of the set that it
  writes, and leaves the others alone.
- *FaithfulRefusals* and *FaithfulBroadcasts* follow from `TypeOK`. `MessageAnswers`
  says that each of the thirteen handlers ends in one of four ways: nothing changes
  and the sender is answered; something changes that is not broadcast; the writer
  changes; the active set changes. `ReplyShape` and `AnnounceShape` say what is sent
  in each.
- *ObeysRules*: every step of the core is a step of `DesignatedWriter` or changes
  nothing that it speaks of. Only the revocation needs more than `TypeOK`: that the
  writer revoked is not connected follows from `EndsAreFinal`, by which the end of a
  WebSocket session is in the channel only if the session is closed, for good. The
  handheld may be back already, which the rules allow the priority controller.
- *ReaderIsSafe*: a client that read the active set and asks to change it with
  the version it read cannot overwrite what it has not seen. The inductive
  invariant `CopyInv` is stronger than the property: the version of the client's
  copy is at most that of the active set, and the same version means the same
  commands. A step keeps it because an unchanged version means an unchanged set
  (`ActiveGrows`). The same is false of saved sets, whose deletion forgets the
  version.
- *ClampIsSufficient*: by cases of `clamp_deceleration`. A lemma about the rounded
  quotient says that it times the divisor is at least the dividend, from which the
  least deceleration times twice the room is at least the square of the velocity.
  The theorem speaks of one computation; that a sequence of them, one tick late,
  keeps the drive within the margin is what `motion_loop` checks.
- *BoundedLag*: the inductive invariant says that the ages along socket, network and
  drive are strictly decreasing and at most the number of late answers (one less
  when the next request is still to be sent): each request has one answer at most,
  the network keeps their order, and a connection that is given up while nothing is
  under way leaves nothing to lag behind. `ExchangeTyping` is proved first, so that
  ages are numbers.
- *RequestsUnderstood*, *ResponsesUnderstood*: the inductive invariant `Typed` types
  what is on the way to the drive, the commands in particular: a request sent is one
  that the thread has made, and a count, once read from a state word, has four bits.
  The rest is about reading and writing, and does not depend on the state. `PutParts` and
  `PartsFollow` say where a part stands among the words, for any list of parts, any
  widths and any values; `GetParts`, that a reader who is told which parts are there
  finds these, in order, and stops at the last word, provided that those present come
  first in the list. `EncodedCommand` shows for every kind of command that header,
  parameters and padding make a block of the width that the drive expects, and
  `LastRequest`, that the property speaks of a request that `Typed` covers.
- *LinkTyping*, *ActiveTargets*: `TypeOK` and `GoesToActiveCommand` are inductive
  together. A request to travel exists only between computation and exchange, so that
  every computation starts without one; and what a computation then asks for is the
  target at the index it leaves, in the list it has just copied
  (`AdvanceGoesOn`), even where a shorter list has left the index beyond its end.
- *PromptObedience* follows from both: a request is computed after the thread's copies
  were taken, and those are the shared values unless the core holds the mutex.
- *CompleteRows*: the inductive invariant `RowsInv` says where each number is: the queue
  holds the last ones made, in order; `Handled` is the number of those before them and
  before the one at work; the refused ones are among these, and table and buffer together
  hold all the others (`Accepted`); a number in the buffer is in the table at most once
  for every flush that was stored although it failed. Only the last part lets a flush
  after a failure keep the bound on copies. `AtWork` says that the record at work is the
  next one, so that adding it and refusing it both keep the count.
- *SessionsInOrder*: for the order of events in the channel to stay right, a
  connection that the core has heard of must never be opened again. `EarlyUntold` says so
  from the other end: whoever is idle, waits in the backlog or shakes hands has left
  no trace with the core, and waits once. The heart of the proof is one lemma for each way
  that a handler adds to the channel (`Messages` of one client, then
  perhaps its end) and one for `AcceptConnections`, which goes through the backlog in one
  step. The run has one client besides; the theorem is for any finite number.

- *LeavingGivesUp*: the inductive invariant `CliInv` is the typing of the client, of the
  core and of what is under way between them, `AccessInv` and `Farewell`. `Farewell`
  says of a client that was left that its session has ended or that its goodbye is in
  the outbox. `LeavingReleases` then comes from `HolderIsLive`: once the outbox and the
  channel are empty the session has ended, and the end of a session revokes. That typing is part
  of it is not a formality: a client's edits are requests only because every input and
  every selection stays in its range (`PressingKeeps`, `HandlingKeeps`).
- *ClientKnowsTheCore*: the property speaks of an empty inbox, the invariant of any.
  `Informed` says that a note which does not name the present holder of write access
  (or the present drive state) has a later one that speaks of it too, and that a client
  which has it wrong still has such a note to read. Every step of the core keeps it because
  what the core changes it tells, and what it tells is so: `Tells` sums up the handlers by
  what this client hears of them (`MessageTells`, `EventTells`), and `HeardIsCurrent`
  draws the conclusion. `Ungreeted` is needed for the start: notes begin with the session.
- *WriterSees* needs to know of everything under way where it leads (`ShowsInv`). A
  client with write access either is about to install its inputs, or is about to read
  the active set anew, or each of its inputs is what the active set holds, or is in an edit
  that the core has not handled, or is written by a note that is still to be read
  (`WriterShows`); and a note that would write an input wrongly has another that
  writes it, or a replacement, behind it (`NotesAreCurrent`). Three facts keep this going.
  While the client keeps write access nobody else changes the set, and the client itself
  never leaves it with other than two commands (`CoreKeepsTwo`, from `Speaks`: what the
  client sends is of its own making). An edit that the core handles either is told, or was
  the value already (`EditIsMade`). And a client that holds write access without knowing it has
  the grant in its inbox (`WriterKnows`): that is what saves the dialog, which changes the
  inputs without sending them when nobody seems to hold write access (`ApplyShows`).
  Nothing is assumed of the order in which edits, answers and broadcasts pass each other beyond
  the order of each channel.
- *StrokeInOrder*, *MirrorsActiveSet*, *NeverRefused* share one inductive invariant,
  `HandInv`. Its heart is `Follows`: what is left of a report *leads*, handled message by
  message, from the active set to the commands of the UI manager; each message suits
  the drive state, which cannot change before the report is done with; and a handheld
  without write access has its claim in front. `Leads` is the existence of the lists in
  between, so that a message handled takes off the first (`LeadsFromHead`,
  `MessageGranted`) and a message made adds a last one (`LeadsOn`). `ProcessKeeps` shows
  for a report of any length that its messages lead from the old commands to
  the new ones, and that these are in order: one lemma per encoder and button, and
  `PressAllKeeps`, which carries what each event keeps through the recursion over events.
  That lemma is an induction over sets of numbers (`UpTo`, from the well-foundedness of
  `<`), as the induction principle of the library is out of the prover's reach.
- *DisplayStaysCurrent*: together with `HandInv` and the typing of what is sent and
  shown, `DisplayIsCurrent` is inductive (`DisplayInv`). The property compares
  what was last sent with what the handheld shows once the whole queue has been written,
  `AllUpdates(shown, outbound)`. A report put at the end of the queue is one more update
  at the end (`UpdatesLast`); one taken off the front and written moves from the queue
  to the display (`UpdatesFirst`) and leaves the result alone, if writing it packet by
  packet does the same as the report as a whole. This is `SplitUpdates`, for any
  report and any size of packet: `PackedHolds` says that each variable goes
  into the packets with its value and no other does, and `PacketsHold` that the packet
  not full is written too. Reports that outlive a connection are written to the next
  handheld, which knows nothing yet; the property waits until the core has heard of it
  (`UnheardUntilGreeted`), when nothing counts as sent any more. The inductions over
  lists are by `UpTo` again, and `Recursion` shows that the recursive functions exist.

Only model-checked: everything else of section 3. Liveness under fairness is out of the
prover's reach, and with it the liveness part of `ImplementsRules`. Of the invariants,
`StaysWithinMargin` is left. It says of the loop of computation and drive, one tick
apart, that the drive keeps within the margin, and it needs more than the limits being
natural numbers: with a margin of less than the way of a tick (3 instead of 6 in
`MotionLoop.cfg`) TLC finds it violated. What relates margin, interval, velocities and
decelerations is nonlinear and goes through rounded quotients.

## 8. What the project does not show

- Real time: retry intervals that grow and are never reset (`src/drive.rs:130`),
  the length of timeouts and of the tick. Any delay is possible in the models.
- The drive's own control error, and acceleration limits of the motor: `MotionLoop`
  has a drive that follows its commands exactly.
- Datagrams that overtake each other. On the single link between controller and
  drive the network of `UdpExchange` keeps their order.
- The end of a thread by an error (`src/hid.rs:76`, `src/websocket.rs:78`), which
  drops its channel and ends the program at the core's next send.
- Contents: JSON, bytes of HID reports and screens, screen layout, texts, the columns
  of metrics.

Not modelled: units, which are integers with conversions for construction and display;
host statistics, a separate program that prints sensor readings; the start-up of the
program and the parsing of its options; drawing in the command line client.

## 9. Plan

Done: the core with its abstract rules, the drive link, the motion arithmetic and its
loop, the exchange and its wire format, the WebSocket server, the handheld, metrics and
the command line client.

Left is `Threads`: the composition under errors that end a thread, and what the machine
is left doing.
