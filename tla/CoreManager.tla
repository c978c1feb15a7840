---------------------------- MODULE CoreManager ----------------------------
(***************************************************************************)
(* The core (src/src/main.rs): one thread that takes CoreEvents off an     *)
(* unbounded channel, arbitrates which controller may command the machine, *)
(* keeps the active and the saved command sets, and writes the commands    *)
(* the drive thread reads.                                                 *)
(*                                                                         *)
(* The producers of events are modelled as far as the core can tell them   *)
(* apart: the WebSocket thread (a session is opened once, sends messages,  *)
(* and is closed once), the HID thread (it reconnects, and reports a       *)
(* disconnection even for a device it never announced) and the drive       *)
(* thread (it may report any drive state at any time).                     *)
(***************************************************************************)
EXTENDS MotionTypes, FiniteSets

CONSTANTS
  WebSockets,    \* WebSocket controller ids, one per session
  Hid,           \* the handheld's controller id
  Nobody,        \* no write access holder
  Everyone,      \* the destination of a broadcast
  SetNames,      \* names of saved command sets
  Active,        \* the name that stands for the active command set
  AnyVersion,    \* a request without base_version
  Requests,      \* the client messages considered
  HidReports,    \* the input reports considered
  HidRequests,   \* the message sequences the UI manager may answer one with
  ReportedStates, \* the drive states the drive thread may report
  UiCommands,    \* the command lists the UI manager may hold
  MaxQueue,      \* bound: events waiting in the channel
  MaxVersion     \* bound: no request is sent once a version has reached it

Controllers == WebSockets \cup {Hid}

\* The client messages, as src/src/messages.rs declares them, without seq: a
\* reply goes to the sender of the request being handled.
ClientMessage ==
  [type : {"request_write_access", "release_write_access", "get_state",
           "list_saved_sets", "acknowledge_error"}]
    \cup [type : {"get_command_set"}, set : SetNames \cup {Active}]
    \cup [type : {"upsert_command_set"}, set : SetNames \cup {Active},
          base_version : Nat \cup {AnyVersion}, commands : Seq(Command)]
    \cup [type : {"update_command"}, index : Nat, fields : FieldUpdate]
    \cup [type : {"delete_command_set"}, set : SetNames \cup {Active},
          base_version : Nat \cup {AnyVersion}]
    \cup [type : {"set_drive_power"}, enabled : BOOLEAN]
    \cup [type : {"set_motion_state"}, action : MotionActions]

ASSUME ControllerAssumption ==
  /\ Hid \notin WebSockets
  /\ Nobody \notin Controllers
  /\ Everyone \notin Controllers
  /\ Active \notin SetNames
  /\ AnyVersion \notin Nat

ASSUME RequestAssumption ==
  /\ Requests \subseteq ClientMessage
  /\ HidRequests \subseteq Seq(ClientMessage)
  /\ UiCommands \subseteq Seq(Command)
  /\ ReportedStates \subseteq DriveStates

VARIABLES
  holder,        \* core_state.write_access_holder
  driveState,    \* core_state.drive_state, as last reported
  setVersion,    \* core_state.command_set_version
  active,        \* active_command_set
  saved,         \* saved_command_sets; Absent for a name without an entry
  shared,        \* DriveCommands, behind the mutex
  pending,       \* DriveActions.pending
  queue,         \* the events in the channel
  work,          \* the HID messages of the report being handled, not yet handled
  session,       \* each controller's connection, as its thread sees it
  sent           \* the messages sent while handling the last event or message

coreVars == <<holder, driveState, setVersion, active, saved, shared, pending>>
vars == <<coreVars, queue, work, session, sent>>

CommandSet == [version : Nat, commands : Seq(Command)]

\* Versions of a stored set start at 1, so version 0 marks a missing entry.
Absent == [version |-> 0, commands |-> <<>>]

Event ==
  [kind : {"connected", "disconnected"}, from : Controllers]
    \cup [kind : {"message"}, from : WebSockets, msg : ClientMessage]
    \cup [kind : {"drive_state"}, state : DriveStates]
    \cup [kind : {"hid_report"}, from : {Hid}, report : HidReports]

Connected(c) == [kind |-> "connected", from |-> c]
Disconnected(c) == [kind |-> "disconnected", from |-> c]

Init ==
  /\ holder = Nobody
  /\ driveState = "Disconnected"
  /\ setVersion = 0
  /\ active = [version |-> 0, commands |-> <<>>]
  /\ saved = [n \in SetNames |-> Absent]
  /\ shared = [power |-> FALSE, motion |-> FALSE, commands |-> <<>>]
  /\ pending = {}
  /\ queue = <<>>
  /\ work = <<>>
  /\ session = [c \in Controllers |-> "fresh"]
  /\ sent = <<>>

----------------------------------------------------------------------------
(* Messages from the core.                                                 *)

To(c, body) == [to |-> c, body |-> body]

CoreState ==
  [drive_state |-> driveState, version |-> setVersion, holder |-> holder]

Ack(success, reason) ==
  [type |-> "ack", success |-> success, reason |-> reason]

WriteAccessChanged(new, previous) ==
  [type |-> "write_access_changed", holder |-> new, previous |-> previous]

WriteAccessResult(granted, current) ==
  [type |-> "write_access_result", granted |-> granted, holder |-> current]

CommandResult(success, version) ==
  [type |-> "command_result", success |-> success, version |-> version]

CommandSetChanged(version, update) ==
  [type |-> "command_set_changed", version |-> version, update |-> update]

----------------------------------------------------------------------------
(* The producers of events.                                                *)

Enqueue(event) ==
  /\ Len(queue) < MaxQueue
  /\ queue' = Append(queue, event)
  /\ UNCHANGED <<coreVars, work, sent>>

\* A WebSocket handshake completes; tokens are never reused.
OpenSession(c) ==
  /\ session[c] = "fresh"
  /\ session' = [session EXCEPT ![c] = "open"]
  /\ Enqueue(Connected(c))

VersionsBelow(bound) ==
  /\ active.version < bound
  /\ \A n \in SetNames : saved[n].version < bound

\* A text frame of an open session that parses as a client message.
SendMessage(c, m) ==
  /\ session[c] = "open"
  /\ VersionsBelow(MaxVersion)
  /\ Enqueue([kind |-> "message", from |-> c, msg |-> m])
  /\ UNCHANGED session

\* The peer closes, a read fails or a send to it fails.
CloseSession(c) ==
  /\ session[c] = "open"
  /\ session' = [session EXCEPT ![c] = "closed"]
  /\ Enqueue(Disconnected(c))

\* connect_to_device announces the handheld...
HidConnects ==
  /\ session[Hid] # "open"
  /\ session' = [session EXCEPT ![Hid] = "open"]
  /\ Enqueue(Connected(Hid))

\* ... and run_loop reports it gone whenever that call returns, also when it
\* failed before announcing anything.
HidDisconnects ==
  /\ session' = [session EXCEPT ![Hid] = "closed"]
  /\ Enqueue(Disconnected(Hid))

HidReport(r) ==
  /\ session[Hid] = "open"
  /\ VersionsBelow(MaxVersion)
  /\ Enqueue([kind |-> "hid_report", from |-> Hid, report |-> r])
  /\ UNCHANGED session

DriveReports(s) ==
  /\ Enqueue([kind |-> "drive_state", state |-> s])
  /\ UNCHANGED session

\* The drive thread takes the pending actions.
DriveTakesActions ==
  /\ pending # {}
  /\ pending' = {}
  /\ UNCHANGED <<holder, driveState, setVersion, active, saved, shared,
                 queue, work, session, sent>>

----------------------------------------------------------------------------
(* Events.                                                                 *)

\* The core takes an event once it is done with the previous one.
Receives(kind) ==
  /\ work = <<>>
  /\ queue # <<>>
  /\ Head(queue).kind = kind
  /\ queue' = Tail(queue)
  /\ UNCHANGED session

HandleConnected ==
  /\ Receives("connected")
  /\ sent' = <<To(Head(queue).from,
                  [type |-> "connected", state |-> CoreState])>>
  /\ UNCHANGED <<coreVars, work>>

\* Mutant: access is revoked only while the machine is on.
RevokesOnlyWhileOn ==
  /\ Receives("disconnected")
  /\ IF holder = Head(queue).from /\ driveState # "Off"
       THEN /\ holder' = Nobody
            /\ shared' = [shared EXCEPT !.power = FALSE, !.motion = FALSE]
            /\ sent' = <<To(Everyone, WriteAccessChanged(Nobody, holder))>>
       ELSE sent' = <<>> /\ UNCHANGED <<holder, shared>>
  /\ UNCHANGED <<driveState, setVersion, active, saved, pending, work>>

\* Mutant: access is revoked without a broadcast.
RevokesSilently ==
  /\ Receives("disconnected")
  /\ sent' = <<>>
  /\ IF holder = Head(queue).from
       THEN /\ holder' = Nobody
            /\ shared' = [shared EXCEPT !.power = FALSE, !.motion = FALSE]
       ELSE UNCHANGED <<holder, shared>>
  /\ UNCHANGED <<driveState, setVersion, active, saved, pending, work>>

HandleDisconnected ==
  /\ Receives("disconnected")
  /\ \/ /\ holder = Head(queue).from
        /\ holder' = Nobody
        /\ shared' = [shared EXCEPT !.power = FALSE, !.motion = FALSE]
        /\ sent' = <<To(Everyone, WriteAccessChanged(Nobody, holder))>>
     \/ /\ holder # Head(queue).from
        /\ sent' = <<>>
        /\ UNCHANGED <<holder, shared>>
  /\ UNCHANGED <<driveState, setVersion, active, saved, pending, work>>

HandleDriveState ==
  /\ Receives("drive_state")
  /\ driveState' = Head(queue).state
  /\ UNCHANGED <<holder, setVersion, active, saved, shared, pending, work>>
  /\ sent' = <<To(Everyone, [type |-> "state", state |-> CoreState'])>>

\* A report of a handheld without write access is answered by claiming it and
\* installing the UI manager's commands, whatever the report says.
UiMessages ==
  IF holder # Hid
    THEN {<<[type |-> "request_write_access"],
            [type |-> "upsert_command_set", set |-> Active,
             base_version |-> AnyVersion, commands |-> cs]>> : cs \in UiCommands}
    ELSE HidRequests

HandleHidReport ==
  /\ Receives("hid_report")
  /\ work' \in UiMessages
  /\ sent' = <<>>
  /\ UNCHANGED coreVars

----------------------------------------------------------------------------
(* Client messages.                                                        *)

\* The message the core handles next: one of the report in progress, or the
\* message event at the head of the channel.
Sender == IF work # <<>> THEN Hid ELSE Head(queue).from

Request == IF work # <<>> THEN Head(work) ELSE Head(queue).msg

MessageReady ==
  \/ work # <<>>
  \/ queue # <<>> /\ Head(queue).kind = "message"

Handles(type) ==
  /\ MessageReady
  /\ Request.type = type
  /\ IF work # <<>> THEN work' = Tail(work) /\ UNCHANGED queue
                    ELSE queue' = Tail(queue) /\ UNCHANGED work
  /\ UNCHANGED session

Reply(body) == sent' = <<To(Sender, body)>>

Announce(broadcast, reply) ==
  sent' = <<To(Everyone, broadcast), To(Sender, reply)>>

\* Mutant: while nobody holds write access anybody may command.
IsWriterOrNone == holder \in {Sender, Nobody}

IsWriter == holder = Sender

\* The refusal of a request that only the designated writer may make.
Refuse ==
  /\ ~IsWriter
  /\ Reply(Ack(FALSE, "NotWriter"))
  /\ UNCHANGED coreVars

Decline(body) == Reply(body) /\ UNCHANGED coreVars

\* Mutant: access may be taken from its holder unless the machine moves.
CanTakeUnlessMoving ==
  driveState # "Moving" \/ holder = Nobody \/ Sender = Hid

CanTakeWriteAccess ==
  driveState = "Off" \/ holder = Nobody \/ Sender = Hid

RequestWriteAccess ==
  /\ Handles("request_write_access")
  /\ \/ /\ CanTakeWriteAccess
        /\ holder' = Sender
        /\ IF holder # Sender
             THEN Announce(WriteAccessChanged(Sender, holder),
                           WriteAccessResult(TRUE, Sender))
             ELSE Reply(WriteAccessResult(TRUE, Sender))
     \/ /\ ~CanTakeWriteAccess
        /\ Reply(WriteAccessResult(FALSE, holder))
        /\ UNCHANGED holder
  /\ UNCHANGED <<driveState, setVersion, active, saved, shared, pending>>

\* Power and motion stay as they are.
ReleaseWriteAccess ==
  /\ Handles("release_write_access")
  /\ \/ /\ IsWriter
        /\ holder' = Nobody
        /\ Announce(WriteAccessChanged(Nobody, holder), Ack(TRUE, ""))
        /\ UNCHANGED <<driveState, setVersion, active, saved, shared, pending>>
     \/ Refuse

GetState ==
  /\ Handles("get_state")
  /\ Decline([type |-> "state", state |-> CoreState])

GetCommandSet ==
  /\ Handles("get_command_set")
  /\ LET set == IF Request.set = Active THEN active ELSE saved[Request.set]
     IN IF Request.set # Active /\ set = Absent
          THEN Decline(Ack(FALSE, "NotFound"))
          ELSE Decline([type |-> "command_set", version |-> set.version,
                        commands |-> set.commands])

ListSavedSets ==
  /\ Handles("list_saved_sets")
  /\ Decline([type |-> "saved_set_list",
              sets |-> {n \in SetNames : saved[n] # Absent}])

BaseVersionMatches(version) == Request.base_version \in {AnyVersion, version}

\* Mutant: the version sent with the telemetry is left behind.
SetActiveForgetsVersion(commands) ==
  /\ active' = [version |-> active.version + 1, commands |-> commands]
  /\ shared' = [shared EXCEPT !.commands = ClampCommands(commands)]
  /\ UNCHANGED setVersion

\* Mutant: a new list under the old version.
SetActiveKeepsVersion(commands) ==
  /\ active' = [active EXCEPT !.commands = commands]
  /\ shared' = [shared EXCEPT !.commands = ClampCommands(commands)]
  /\ UNCHANGED setVersion

\* Install a new list under the next version and hand it to the drive thread
\* with its limits applied (sync_commands_to_drive).
SetActiveCommands(commands) ==
  /\ active' = [version |-> active.version + 1, commands |-> commands]
  /\ setVersion' = active.version + 1
  /\ shared' = [shared EXCEPT !.commands = ClampCommands(commands)]

\* The active set is replaced as a whole: the drive starts over at its head.
ReplaceActive(commands) ==
  \/ /\ IsWriter
     /\ BaseVersionMatches(active.version)
     /\ SetActiveCommands(commands)
     /\ pending' = pending \cup {"RESET_INDEX"}
     /\ Announce(CommandSetChanged(active.version + 1, "all"),
                 CommandResult(TRUE, active.version + 1))
     /\ UNCHANGED <<holder, driveState, saved>>
  \/ /\ IsWriter
     /\ ~BaseVersionMatches(active.version)
     /\ Decline(CommandResult(FALSE, active.version))
  \/ Refuse

UpsertActive ==
  /\ Handles("upsert_command_set")
  /\ Request.set = Active
  /\ ReplaceActive(Request.commands)

\* Anybody may write a saved set. A set that does not exist is created with
\* version 1, whatever base_version the request carries.
UpsertSaved ==
  /\ Handles("upsert_command_set")
  /\ Request.set # Active
  /\ LET old == saved[Request.set]
     IN \/ /\ old = Absent \/ BaseVersionMatches(old.version)
           /\ saved' = [saved EXCEPT ![Request.set] =
                          [version |-> old.version + 1,
                           commands |-> Request.commands]]
           /\ Reply(CommandResult(TRUE, old.version + 1))
           /\ UNCHANGED <<holder, driveState, setVersion, active, shared, pending>>
        \/ /\ old # Absent
           /\ ~BaseVersionMatches(old.version)
           /\ Decline(CommandResult(FALSE, old.version))

UpdateCommand ==
  /\ Handles("update_command")
  /\ LET i == Request.index + 1
         new == ApplyFields(active.commands[i], Request.fields)
     IN \/ /\ IsWriter
           /\ i \in DOMAIN active.commands
           /\ new # active.commands[i]
           /\ SetActiveCommands([active.commands EXCEPT ![i] = new])
           /\ Announce(CommandSetChanged(active.version + 1, "one"),
                       CommandResult(TRUE, active.version + 1))
           /\ UNCHANGED <<holder, driveState, saved, pending>>
        \/ /\ IsWriter
           /\ i \in DOMAIN active.commands
           /\ new = active.commands[i]
           /\ Decline(CommandResult(TRUE, active.version))
        \/ /\ IsWriter
           /\ i \notin DOMAIN active.commands
           /\ Decline(Ack(FALSE, "OutOfRange"))
        \/ Refuse

DeleteActive ==
  /\ Handles("delete_command_set")
  /\ Request.set = Active
  /\ ReplaceActive(<<>>)

DeleteSaved ==
  /\ Handles("delete_command_set")
  /\ Request.set # Active
  /\ LET old == saved[Request.set]
     IN \/ /\ old = Absent
           /\ Decline(Ack(FALSE, "NotFound"))
        \/ /\ old # Absent
           /\ BaseVersionMatches(old.version)
           /\ saved' = [saved EXCEPT ![Request.set] = Absent]
           /\ Reply(Ack(TRUE, ""))
           /\ UNCHANGED <<holder, driveState, setVersion, active, shared, pending>>
        \/ /\ old # Absent
           /\ ~BaseVersionMatches(old.version)
           /\ Decline(CommandResult(FALSE, old.version))

SetDrivePower ==
  /\ Handles("set_drive_power")
  /\ \/ /\ IsWriter
        /\ shared' = [shared EXCEPT !.power = Request.enabled,
                                    !.motion = Request.enabled /\ @]
        /\ Reply(Ack(TRUE, ""))
        /\ UNCHANGED <<holder, driveState, setVersion, active, saved, pending>>
     \/ Refuse

\* The request is judged against the last reported drive state.
SetMotionState ==
  /\ Handles("set_motion_state")
  /\ \/ /\ IsWriter
        /\ MotionActionValid(Request.action, driveState)
        /\ shared' = [shared EXCEPT !.motion = Enables(Request.action)]
        /\ pending' = IF Resets(Request.action)
                        THEN pending \cup {"RESET_INDEX"} ELSE pending
        /\ Reply(Ack(TRUE, ""))
        /\ UNCHANGED <<holder, driveState, setVersion, active, saved>>
     \/ /\ IsWriter
        /\ ~MotionActionValid(Request.action, driveState)
        /\ Decline(Ack(FALSE, "InvalidState"))
     \/ Refuse

\* Mutant: the acknowledgement is sent before the state is checked.
AcknowledgesUnchecked ==
  /\ Handles("acknowledge_error")
  /\ \/ /\ IsWriter
        /\ pending' = pending \cup {"ACK_ERROR"}
        /\ Reply(Ack(driveState = "Errored",
                     IF driveState = "Errored" THEN "" ELSE "InvalidState"))
        /\ UNCHANGED <<holder, driveState, setVersion, active, saved, shared>>
     \/ Refuse

AcknowledgeError ==
  /\ Handles("acknowledge_error")
  /\ \/ /\ IsWriter
        /\ driveState = "Errored"
        /\ pending' = pending \cup {"ACK_ERROR"}
        /\ Reply(Ack(TRUE, ""))
        /\ UNCHANGED <<holder, driveState, setVersion, active, saved, shared>>
     \/ /\ IsWriter
        /\ driveState # "Errored"
        /\ Decline(Ack(FALSE, "InvalidState"))
     \/ Refuse

----------------------------------------------------------------------------
HandleMessage ==
  \/ RequestWriteAccess \/ ReleaseWriteAccess
  \/ GetState \/ GetCommandSet \/ ListSavedSets
  \/ UpsertActive \/ UpsertSaved \/ UpdateCommand
  \/ DeleteActive \/ DeleteSaved
  \/ SetDrivePower \/ SetMotionState \/ AcknowledgeError

HandleEvent ==
  \/ HandleConnected \/ HandleDisconnected
  \/ HandleDriveState \/ HandleHidReport

CoreStep == HandleEvent \/ HandleMessage

Environment ==
  \/ \E c \in WebSockets :
       \/ OpenSession(c)
       \/ CloseSession(c)
       \/ \E m \in Requests : SendMessage(c, m)
  \/ HidConnects
  \/ HidDisconnects
  \/ \E r \in HidReports : HidReport(r)
  \/ \E s \in ReportedStates : DriveReports(s)
  \/ DriveTakesActions

Next == CoreStep \/ Environment

\* The core blocks on the channel and handles what arrives; nothing obliges
\* the outside world to do anything.
Spec == Init /\ [][Next]_vars /\ WF_vars(CoreStep)
----------------------------------------------------------------------------
(* Properties.                                                             *)

CoreMessage ==
  [type : {"ack"}, success : BOOLEAN,
   reason : {"", "NotWriter", "NotFound", "OutOfRange", "InvalidState"}]
    \cup [type : {"write_access_changed"}, holder : Controllers \cup {Nobody},
          previous : Controllers \cup {Nobody}]
    \cup [type : {"write_access_result"}, granted : BOOLEAN,
          holder : Controllers \cup {Nobody}]
    \cup [type : {"command_result"}, success : BOOLEAN, version : Nat]
    \cup [type : {"command_set_changed"}, version : Nat, update : {"all", "one"}]
    \cup [type : {"command_set"}, version : Nat, commands : Seq(Command)]
    \cup [type : {"saved_set_list"}, sets : SUBSET SetNames]
    \cup [type : {"connected", "state"},
          state : [drive_state : DriveStates, version : Nat,
                   holder : Controllers \cup {Nobody}]]

\* The state of the core is well formed; in particular the drive thread is
\* only ever given commands within the system limits (main.rs:562-567).
TypeOK ==
  /\ holder \in Controllers \cup {Nobody}
  /\ driveState \in DriveStates
  /\ setVersion \in Nat
  /\ active \in CommandSet
  /\ saved \in [SetNames -> CommandSet]
  /\ shared \in [power : BOOLEAN, motion : BOOLEAN, commands : Seq(SafeCommand)]
  /\ pending \subseteq Actions
  /\ queue \in Seq(Event)
  /\ work \in Seq(ClientMessage)
  /\ session \in [Controllers -> {"fresh", "open", "closed"}]
  /\ sent \in Seq([to : Controllers \cup {Everyone}, body : CoreMessage])

\* What the drive thread executes is the active set, clamped, and the version
\* broadcast with the telemetry is the version of that set: no handler changes
\* one without the other (main.rs:353-355, 385-388, 437-439, 557-568).
DriveMirrorsActiveSet ==
  /\ setVersion = active.version
  /\ shared.commands = ClampCommands(active.commands)

Gone(c) == \E i \in DOMAIN queue : queue[i] = Disconnected(c)

\* A controller that holds write access is connected, or the event that will
\* revoke its access is in the channel: write access never stays with a
\* session that is gone, although messages of a closed session are still
\* handled (main.rs:219-237, 270-286).
HolderIsLive ==
  holder \in Controllers => session[holder] = "open" \/ Gone(holder)

\* The step handles an event or a message.
CoreActs == Len(queue') < Len(queue) \/ work' # work

Commands ==
  \/ shared' # shared
  \/ active' # active
  \/ ~(pending' \subseteq pending)

\* A request of the holder of write access, who keeps it.
ByWriter == MessageReady /\ CoreActs /\ Sender = holder /\ holder' = holder

\* The holder of write access is gone.
ByLoss ==
  /\ CoreActs
  /\ Head(queue) = Disconnected(holder)
  /\ shared' = [shared EXCEPT !.power = FALSE, !.motion = FALSE]
  /\ UNCHANGED <<active, pending>>

\* Power, motion, the active set and the one-off actions change only on behalf
\* of the controller that holds write access, or when that controller is gone,
\* and then only towards standstill (main.rs:219-227, 351, 382, 435, 483, 499,
\* 536).
OnlyWriterCommands == [][Commands => ByWriter \/ ByLoss]_vars

Broadcasts(type) ==
  {i \in DOMAIN sent : sent[i].to = Everyone /\ sent[i].body.type = type}

\* A controller can follow the write access holder and the active set from the
\* broadcasts alone: every change is broadcast in the step that makes it, with
\* the value it leaves, and nothing else is broadcast as a change
\* (main.rs:229-232, 277-282, 301-304, 359-362, 385-397, 443-446).
ChangesAreAnnounced ==
  [][ CoreActs =>
        /\ (holder' # holder) <=> (Broadcasts("write_access_changed")' # {})
        /\ (active' # active) <=> (Broadcasts("command_set_changed")' # {})
        /\ \A i \in Broadcasts("write_access_changed")' :
             sent'[i].body = WriteAccessChanged(holder', holder)
        /\ \A i \in Broadcasts("command_set_changed")' :
             sent'[i].body.version = active'.version ]_vars

IsFailure(body) ==
  \/ body.type \in {"ack", "command_result"} /\ ~body.success
  \/ body.type = "write_access_result" /\ ~body.granted

\* Every request is answered exactly once, and a request answered with a failure
\* has changed nothing, neither the state of the core nor what the drive thread
\* reads (every branch of main.rs:268-555).
RefusalChangesNothing ==
  [][ CoreActs /\ MessageReady =>
        \E n \in DOMAIN sent' :
          /\ \A i \in DOMAIN sent' : sent'[i].to = Sender <=> i = n
          /\ IsFailure(sent'[n].body) => UNCHANGED coreVars ]_vars

\* A version of a set is never used for another list while the set exists: every
\* change of a set moves its version up, and for the active set that includes its
\* deletion (main.rs:341-347, 353-354, 386, 436-437).
VersionsGrow ==
  [][ /\ active' # active => active'.version > active.version
      /\ \A n \in SetNames : saved'[n] \in {saved[n], Absent}
                               \/ saved'[n].version > saved[n].version ]_vars

\* The designated-writer rules, with the connected controllers read off the
\* sessions and the machine's switches off the shared commands.
Rules ==
  INSTANCE DesignatedWriter WITH
    Priority <- Hid, writer <- holder, drive <- driveState,
    connected <- {c \in Controllers : session[c] = "open"},
    power <- shared.power, motion <- shared.motion

\* Write access does not stay with a WebSocket session that has closed: the
\* core gets to the event that revokes it (main.rs:219-227).
DeadWriterRevoked ==
  \A c \in WebSockets : (session[c] = "closed" /\ holder = c) ~> holder # c
=============================================================================
