---------------------------- MODULE UdpExchange ----------------------------
(***************************************************************************)
(* The drive thread and the drive over UDP (src/src/drive.rs:              *)
(* Connection::new, send_request, loop_tick). Each request is answered by  *)
(* one response, but nothing ties the two together: the thread takes the   *)
(* next datagram that its socket holds for the answer. When none comes in  *)
(* time it drops the connection, and the socket, and binds another one to  *)
(* the same port, where a late answer may still arrive.                    *)
(*                                                                         *)
(* The network loses and delays datagrams, and keeps their order. DriveLink*)
(* models what both sides do with what they are told; here the drive only  *)
(* switches on and off and takes motion commands, and power stays enabled. *)
(***************************************************************************)
EXTENDS LinUdp

CONSTANTS
  MaxLosses,     \* bound: datagrams that the network loses
  MaxLates       \* bound: answers that come after the read timeout

ASSUME ExchangeAssumption == MaxLosses \in Nat /\ MaxLates \in Nat

Wishes == {"VaiGoToPos", "VaiStop"}

VARIABLES
  wish,          \* the motion command that would be computed now
  link,          \* "down", "probing", "idle" or "waiting"
  flags,         \* control_flags: 1 is SWITCH_ON
  command,       \* next_motion_command, or None
  socket,        \* responses that wait to be received
  toDrive, toController,   \* datagrams under way
  drive,         \* whether it is on, and the command that it took last
  losses, lates

threadVars == <<wish, link, flags, command>>
netVars == <<socket, toDrive, toController>>
faults == <<losses, lates>>
vars == <<threadVars, netVars, drive, faults>>

\* No command, no control flags, or no state in a response.
None == [count |-> 0, kind |-> "None"]
NoValue == -1

Init ==
  /\ wish = "VaiStop" /\ link = "down" /\ flags = 0 /\ command = None
  /\ socket = <<>> /\ toDrive = <<>> /\ toController = <<>>
  /\ drive = [on |-> FALSE, command |-> None]
  /\ losses = 0 /\ lates = 0

\* A datagram with its age: how many requests were sent after the one that it is,
\* or answers.
Datagram(content, age) == [content |-> content, age |-> age]
Aged(datagrams) ==
  [i \in DOMAIN datagrams |-> [datagrams[i] EXCEPT !.age = @ + 1]]

-----------------------------------------------------------------------------
(* The thread                                                              *)

\* Request::default(), which has no parts and asks for none.
Check == [flags |-> NoValue, command |-> None, all |-> FALSE]

\* The first half of send_request.
Send(request, received) ==
  /\ toDrive' = Append(Aged(toDrive), Datagram(request, 0))
  /\ toController' = Aged(toController)
  /\ socket' = Aged(received)

\* Mutant: the first request of a connection is sent without waiting for an answer.
CheckWithoutWaiting ==
  /\ link = "down"
  /\ link' = "idle"
  /\ flags' = 0 /\ command' = None
  /\ Send(Check, <<>>)
  /\ UNCHANGED <<wish, drive, faults>>

\* Connection::new: a new socket, and the request that checks that the drive is
\* responding.
Connect ==
  /\ link = "down"
  /\ link' = "probing"
  /\ flags' = 0 /\ command' = None
  /\ Send(Check, <<>>)
  /\ UNCHANGED <<wish, drive, faults>>

SendRequest ==
  /\ link = "idle"
  /\ link' = "waiting"
  /\ Send([flags |-> flags, command |-> command, all |-> TRUE], socket)
  /\ command' = None
  /\ UNCHANGED <<wish, flags, drive, faults>>

\* Mutants: the count that the drive reported is sent again; it grows beyond its
\* four bits.
SameCount(reported) == reported
UnmaskedCount(reported) == reported + 1

NextCount(reported) == (reported + 1) % 16

\* compute_next_request, as far as it concerns the flags and the count.
Compute(word) ==
  IF word = NoValue
  THEN flags' = 0 /\ UNCHANGED command
  ELSE LET state == State(word)
       IN /\ flags' = IF state.name = "ReadyToSwitchOn" THEN 1 ELSE flags
          /\ command' = IF state.name = "OperationEnabled"
                        THEN [kind |-> wish, count |-> NextCount(state.count)]
                        ELSE command

\* The second half of send_request. Whatever the first response of a connection
\* tells is ignored.
Receive ==
  /\ link \in {"probing", "waiting"}
  /\ socket # <<>>
  /\ link' = "idle"
  /\ socket' = Tail(socket)
  /\ IF link = "waiting" THEN Compute(Head(socket).content) ELSE UNCHANGED <<flags, command>>
  /\ UNCHANGED <<wish, toDrive, toController, drive, faults>>

\* The read times out: the connection is dropped, whether it was being made or not.
Disconnect ==
  /\ link \in {"probing", "waiting"}
  /\ socket = <<>>
  /\ link' = "down"
  /\ UNCHANGED <<wish, flags, command, netVars, drive>>

AnswerIsLost ==
  /\ toDrive = <<>> /\ toController = <<>>
  /\ Disconnect
  /\ UNCHANGED faults

AnswerIsLate ==
  /\ toDrive # <<>> \/ toController # <<>>
  /\ lates < MaxLates
  /\ Disconnect
  /\ lates' = lates + 1 /\ UNCHANGED losses

\* Another command is wanted.
Change ==
  /\ wish' \in Wishes \ {wish}
  /\ UNCHANGED <<link, flags, command, netVars, drive, faults>>

-----------------------------------------------------------------------------
(* The network and the drive, external                                     *)

\* The drive takes a command if its count is not that of the one before.
Taken(request) ==
  LET on == IF request.flags = NoValue THEN drive.on ELSE request.flags = 1
      new == /\ drive.on /\ on
             /\ request.command # None /\ request.command.count # drive.command.count
  IN [on |-> on, command |-> IF new THEN request.command ELSE drive.command]

\* Its answer tells what it is then.
StateOf(d) == IF d.on THEN EnabledWord(d.command.count, TRUE) ELSE StateWord(2, 0)

Answer ==
  /\ toDrive # <<>>
  /\ LET request == Head(toDrive).content
     IN /\ drive' = Taken(request)
        /\ toController' =
             Append(toController,
                    Datagram(IF request.all THEN StateOf(drive') ELSE NoValue,
                             Head(toDrive).age))
  /\ toDrive' = Tail(toDrive)
  /\ UNCHANGED <<threadVars, socket, faults>>

\* A response that finds no socket is gone.
Arrive ==
  /\ toController # <<>>
  /\ toController' = Tail(toController)
  /\ socket' = IF link = "down" THEN socket ELSE Append(socket, Head(toController))
  /\ UNCHANGED <<threadVars, toDrive, drive, faults>>

Lose ==
  /\ losses < MaxLosses
  /\ losses' = losses + 1
  /\ \/ toDrive # <<>> /\ toDrive' = Tail(toDrive) /\ UNCHANGED toController
     \/ toController # <<>> /\ toController' = Tail(toController) /\ UNCHANGED toDrive
  /\ UNCHANGED <<threadVars, socket, drive, lates>>

Thread == Connect \/ SendRequest \/ Receive \/ AnswerIsLost

Next ==
  \/ Connect \/ SendRequest \/ Receive \/ AnswerIsLost \/ AnswerIsLate
  \/ Change
  \/ Answer \/ Arrive \/ Lose

Spec ==
  /\ Init /\ [][Next]_vars
  /\ WF_vars(Thread) /\ WF_vars(Answer) /\ WF_vars(Arrive)

-----------------------------------------------------------------------------

TypeOK ==
  /\ link \in {"down", "probing", "idle", "waiting"}
  /\ flags \in {0, 1}
  /\ {command, drive.command} \subseteq {None} \cup [kind : Wishes, count : 0..15]
  /\ link = "down" => socket = <<>>
  /\ \A i \in DOMAIN socket : socket[i].content # NoValue => State(socket[i].content).name # "Other"

\* The parts of a request as they are put on the wire, and as the drive should find
\* them there.
Parts(request) ==
  IF request.flags = NoValue THEN <<>>
  ELSE IF request.command = None THEN [control_flags |-> request.flags]
  ELSE [control_flags |-> request.flags, motion_command |-> request.command]

Found(request) ==
  IF request.flags = NoValue THEN <<>>
  ELSE IF request.command = None THEN <<<<"control_flags", request.flags>>>>
  ELSE <<<<"control_flags", request.flags>>,
         <<"motion_command", Header(request.command.kind, request.command.count)>>>>

Asks(request) == IF request.all THEN ToSet(ResponseParts) ELSE {}

\* The drive finds in each request what the thread put into it and nothing else, and
\* the request fits the buffer (udp.rs, to_wire; mci.rs, MotionCommand::write_to).
RequestIsUnderstood ==
  toDrive # <<>> =>
    LET request == Last(toDrive).content
        datagram == ToWire(Parts(request), Asks(request))
        read == DriveReads(datagram)
    IN /\ Fits(datagram)
       /\ read.found = Found(request) /\ read.at = Len(datagram.words)

\* from_wire finds in the response to a request each value that the drive put there
\* and nothing else, although every request asks for a realtime configuration, the
\* last of the parts, and none has one (udp.rs, from_wire, read_opt).
ResponseIsUnderstood ==
  toDrive # <<>> =>
    LET request == Last(toDrive).content
        word == StateOf(drive)
        values == [p \in ToSet(ResponseParts) |-> IF p = "state" THEN word ELSE Width(p)]
        response == Respond(ToWire(Parts(request), Asks(request)), values)
        read == FromWire(response)
        sent == IF request.all THEN Front(ResponseParts) ELSE <<>>
    IN /\ Fits(response) /\ ~read.underflow
       /\ read.found = [i \in DOMAIN sent |-> <<sent[i], values[sent[i]]>>]

\* What the thread computes from is at most as many requests old as answers have
\* come too late, however long ago that was: the request that checks the connection
\* takes up the answer that its predecessor did not wait for, and with it the lag
\* of one that this answer causes (drive.rs, Connection::new, send_request).
LagIsBounded ==
  [][link = "waiting" /\ Receive => Head(socket).age <= lates]_vars

\* A command that stays wanted is executed and stays so: a lag of the answers makes
\* the drive ignore some commands, as their counts repeat, but never all of them,
\* and lost connections switch the drive on again.
CommandTakesEffect ==
  \A w \in Wishes : <>[](wish = w) => <>[](drive.on /\ drive.command.kind = w)
=============================================================================
