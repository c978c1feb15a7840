------------------------------- MODULE LinUdp -------------------------------
(***************************************************************************)
(* What goes over the wire between the drive thread and the drive          *)
(* (src/linmot): which parts a datagram has, in which order, and how long  *)
(* they are. A datagram announces its parts in flags and holds them one    *)
(* after the other, without marks between them: a reader that is wrong     *)
(* about one part is wrong about all that follow. Bytes are grouped into   *)
(* words of two, and a value is a number that fills the words of its part. *)
(***************************************************************************)
EXTENDS Integers, Sequences, SequencesExt

BufferWords == 32

RequestParts == <<"control_flags", "motion_command", "realtime_configuration">>

ResponseParts ==
  <<"status_flags", "state", "actual_position", "demand_position", "current",
    "warning_flags", "error_code", "monitoring_channel", "realtime_configuration">>

\* The length of a part in words.
Width(part) ==
  CASE part \in {"control_flags", "status_flags", "state", "current",
                 "warning_flags", "error_code"} -> 1
    [] part \in {"actual_position", "demand_position"} -> 2
    [] part = "realtime_configuration" -> 4
    [] part = "monitoring_channel" -> 8
    [] part = "motion_command" -> 16

-----------------------------------------------------------------------------
(* Motion commands                                                         *)

\* Command::id
CommandId ==
  [NoOperation |-> 0, VaiGoToPos |-> 16, VaiIncrementDemPos |-> 17,
   VaiGoToPosFromActPosAndActVel |-> 19, VaiStop |-> 23,
   PStreamWithDriveGeneratedTimeStamp |-> 48,
   PvStreamWithDriveGeneratedTimeStamp |-> 49,
   PStreamWithDriveGeneratedTimeStampAndConfiguredPeriodTime |-> 50,
   PvStreamWithDriveGeneratedTimeStampAndConfiguredPeriodTime |-> 51,
   PvaStreamWithDriveGeneratedTimeStamp |-> 52,
   PvaStreamWithDriveGeneratedTimeStampAndConfiguredPeriodTime |-> 53,
   PvaStreamWithControllerGeneratedTimeStamp |-> 58,
   StopStream |-> 63, VajiGoToPos |-> 928]

Kinds == DOMAIN CommandId

\* The parameters that write_parameters writes, two words each.
Parameters(kind) ==
  CASE kind \in {"NoOperation", "StopStream"} -> 0
    [] kind \in {"VaiStop", "PStreamWithDriveGeneratedTimeStamp",
                 "PStreamWithDriveGeneratedTimeStampAndConfiguredPeriodTime"} -> 1
    [] kind \in {"PvStreamWithDriveGeneratedTimeStamp",
                 "PvStreamWithDriveGeneratedTimeStampAndConfiguredPeriodTime"} -> 2
    [] kind \in {"PvaStreamWithDriveGeneratedTimeStamp",
                 "PvaStreamWithDriveGeneratedTimeStampAndConfiguredPeriodTime",
                 "PvaStreamWithControllerGeneratedTimeStamp"} -> 3
    [] kind \in {"VaiGoToPos", "VaiIncrementDemPos",
                 "VaiGoToPosFromActPosAndActVel"} -> 4
    [] kind = "VajiGoToPos" -> 5

Header(kind, count) == CommandId[kind] * 16 + (count % 16)

\* Mutant: the parameters alone are padded to the length of the block.
PaddedParameters(kind) == Width("motion_command") - 2 * Parameters(kind)

\* The zeros that follow the header and the parameters, or less than none if these
\* are too many.
Padding(kind) == Width("motion_command") - 1 - 2 * Parameters(kind)

\* A parameter is a word that is not zero.
Block(kind, count) ==
  <<Header(kind, count)>> \o [i \in 1..2 * Parameters(kind) |-> 1]
                          \o [i \in 1..Padding(kind) |-> 0]

-----------------------------------------------------------------------------
(* Datagrams                                                               *)

Encoded(part, value) ==
  IF part = "motion_command" THEN Block(value.kind, value.count)
  ELSE [i \in 1..Width(part) |-> value]

\* The value that words hold, or -1 if they are not those of one value. What is
\* found of a motion command is its header.
Decoded(part, words) ==
  IF part = "motion_command" \/ \A i \in DOMAIN words : words[i] = words[1]
  THEN words[1] ELSE -1

\* The parts that a datagram has, one after the other.
Put(order, values) ==
  LET put[n \in 0..Len(order)] ==
        IF n = 0 THEN <<>>
        ELSE IF order[n] \in DOMAIN values
             THEN put[n - 1] \o Encoded(order[n], values[order[n]])
        ELSE put[n - 1]
  IN put[Len(order)]

\* A part is read if it is announced, and if what is left is long enough.
ReadOpt(read, part, announced, words) ==
  LET end == read.at + Width(part)
  IN IF part \notin announced \/ read.underflow THEN read
     ELSE IF end > Len(words) THEN [read EXCEPT !.underflow = TRUE]
     ELSE [read EXCEPT
             !.at = end,
             !.found = Append(@, <<part, Decoded(part, SubSeq(words, read.at + 1, end))>>)]

\* What a reader finds: the parts that the flags announce, or that it underflows.
Get(order, announced, words) ==
  LET read[n \in 0..Len(order)] ==
        IF n = 0 THEN [at |-> 0, found |-> <<>>, underflow |-> FALSE]
        ELSE ReadOpt(read[n - 1], order[n], announced, words)
  IN read[Len(order)]

\* A request: the parts that its flags announce, the parts of the response it asks
\* for, and its own.
ToWire(parts, asks) ==
  [flags |-> DOMAIN parts, asks |-> asks, words |-> Put(RequestParts, parts)]

\* The flags take four words of the buffer.
Fits(datagram) == 4 + Len(datagram.words) <= BufferWords

\* Mutant: the response is believed to have every part that was asked for.
AllAnnounced(response) == response.asks

\* "The response only includes the realtime configuration if it was also specified
\* in the request."
Announced(response) ==
  IF "realtime_configuration" \in response.flags THEN response.asks
  ELSE response.asks \ {"realtime_configuration"}

FromWire(response) == Get(ResponseParts, Announced(response), response.words)

-----------------------------------------------------------------------------
(* The drive's state word                                                  *)

StateWord(main, sub) == 256 * main + sub

\* An enabled drive tells the count of the last motion command it took, and
\* whether it is homed.
EnabledWord(count, homed) ==
  StateWord(8, count + IF homed THEN 128 ELSE 0)

\* State::from, as far as the drive thread tells states apart.
State(word) ==
  LET main == word \div 256
      sub == word % 256
  IN CASE main = 0 -> [name |-> "NotReadyToSwitchOn"]
       [] main = 2 -> [name |-> "ReadyToSwitchOn"]
       [] main = 4 -> [name |-> "Error", error_code |-> sub]
       [] main = 8 -> [name |-> "OperationEnabled", count |-> sub % 16,
                       homed |-> (sub \div 128) % 2 = 1]
       [] main = 9 -> [name |-> "Homing", finished |-> sub = 15]
       [] OTHER -> [name |-> "Other"]

-----------------------------------------------------------------------------
(* The drive's side, external                                              *)

\* The drive repeats the flags of the request and puts what was asked for.
Respond(request, values) ==
  [flags |-> request.flags, asks |-> request.asks,
   words |-> Put(ResponseParts,
                 [part \in {p \in request.asks :
                              p = "realtime_configuration" => p \in request.flags}
                    |-> values[part]])]

DriveReads(request) == Get(RequestParts, request.flags, request.words)
=============================================================================
