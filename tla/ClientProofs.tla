---------------------------- MODULE ClientProofs ----------------------------
(***************************************************************************)
(* Two kinds of clients of the core. One keeps what it read of the active  *)
(* set and can rely on its version, however long it waits. The other is    *)
(* the command line client. It gives up write access when it is left, it   *)
(* knows the drive state and the holder of write access when it has read   *)
(* its notes, and while it holds write access its inputs are the active    *)
(* set once nothing is under way: for any fields, any keys and whatever    *)
(* the others do.                                                          *)
(***************************************************************************)
EXTENDS WriteAccessProofs, CoreReader, CommandLine, FiniteSetTheorems

----------------------------------------------------------------------------
(* A client that kept what it read of the active set can rely on the       *)
(* version, however long it waits.                                         *)

\* ActiveVersionIdentifies says nothing of versions that are still to come; the
\* active set has not reached them yet.
CopyInv ==
  copy.set = Active =>
    /\ copy.version <= active.version
    /\ copy.version = active.version => copy.commands = active.commands

CopyTyped ==
  copy \in [set : SetNames \cup {Active}, version : Nat, commands : Seq(Command)]

LEMMA ReadIsTyped ==
  ASSUME TypeOK, NEW r \in Readable
  PROVE  r \in [set : SetNames \cup {Active}, version : Nat, commands : Seq(Command)]
BY DEF TypeOK, Readable, Entry, CommandSet

LEMMA ReadIsCurrent ==
  ASSUME TypeOK, NEW r \in Readable, r.set = Active
  PROVE  r.version = active.version /\ r.commands = active.commands
BY ControllerAssumption DEF Readable, Entry

LEMMA CopyIdentifies ==
  ASSUME TypeOK, CopyTyped, CopyInv
  PROVE  ActiveVersionIdentifies
<1> SUFFICES ASSUME NEW now \in Readable, now.set = Active, now.set = copy.set,
                    now.version = copy.version
             PROVE  now = copy
  BY DEF ActiveVersionIdentifies, VersionIdentifies
<1>1. now.version = active.version /\ now.commands = active.commands
  BY ReadIsCurrent
<1>2. now \in [set : SetNames \cup {Active}, version : Nat, commands : Seq(Command)]
  BY ReadIsTyped
<1>3. now.commands = copy.commands
  BY <1>1 DEF CopyInv
<1>4. \A r \in [set : SetNames \cup {Active}, version : Nat, commands : Seq(Command)] :
        r = [set |-> r.set, version |-> r.version, commands |-> r.commands]
  OBVIOUS
<1> QED
  BY <1>2, <1>3, <1>4 DEF CopyTyped

\* Whatever is read is typed and current.
LEMMA ReadingEstablishes ==
  ASSUME TypeOK, copy \in Readable
  PROVE  CopyTyped /\ CopyInv
<1>1. CopyTyped
  BY ReadIsTyped DEF CopyTyped
<1>2. copy.set = Active => copy.version = active.version /\ copy.commands = active.commands
  BY ReadIsCurrent
<1> QED
  BY <1>1, <1>2 DEF CopyInv, TypeOK, CommandSet

\* A client's copy of the active set is the active set if the versions are the
\* same, whatever happened in between (main.rs:352-353, 386, 436-437).
THEOREM ReaderIsSafe == ReaderSpec => []ActiveVersionIdentifies
<1> DEFINE Inv == TypeOK /\ CopyTyped /\ CopyInv
<1>1. ReaderInit => Inv
  BY InitTyped, ReadingEstablishes DEF ReaderInit
<1>2. Inv /\ [ReaderNext]_readerVars => Inv'
  <2> SUFFICES ASSUME Inv, [ReaderNext]_readerVars PROVE Inv'
    OBVIOUS
  <2>1. CASE [Next]_vars /\ copy' = copy
    <3>1. TypeOK'
      BY <2>1, StepTyped
    <3>2. /\ active' = active \/ active'.version > active.version
          /\ active.version \in Nat /\ active'.version \in Nat
      BY <2>1, <3>1, ActiveGrows DEF TypeOK, CommandSet
    <3>3. copy.version \in Nat
      BY DEF CopyTyped
    <3>4. CopyInv'
      BY <2>1, <3>2, <3>3 DEF CopyInv
    <3> QED
      BY <2>1, <3>1, <3>4 DEF CopyTyped
  <2>2. CASE Reads
    <3>1. UNCHANGED vars /\ TypeOK'
      BY <2>2, StepTyped DEF Reads
    <3>2. (copy \in Readable)'
      BY <2>2, <3>1 DEF Reads, Readable, Entry, vars, coreVars
    <3>3. (CopyTyped /\ CopyInv)'
      BY <3>1, <3>2, ReadingEstablishes, PTL
    <3> QED
      BY <3>1, <3>3
  <2> QED
    BY <2>1, <2>2 DEF ReaderNext, readerVars
<1>3. Inv => ActiveVersionIdentifies
  BY CopyIdentifies
<1> QED
  BY <1>1, <1>2, <1>3, PTL DEF ReaderSpec
----------------------------------------------------------------------------
(* The command line client: its inputs and the messages made of them.      *)

Values == [Slots -> Int]

LEMMA WidthType == Width \in Nat \ {0} /\ DOMAIN FieldOrder = 1..Width
BY CliAssumption, LenProperties DEF Width

\* Division in the two rows of inputs.
LEMMA RowOf ==
  ASSUME NEW w \in Nat \ {0}, NEW k \in 0..(w - 1)
  PROVE  /\ k \div w = 0 /\ k % w = k
         /\ (w + k) \div w = 1 /\ (w + k) % w = k
OBVIOUS

LEMMA RowRange ==
  ASSUME NEW w \in Nat \ {0}, NEW s \in Nat
  PROVE  s \div w \in Nat /\ s % w \in 0..(w - 1)
OBVIOUS

LEMMA SlotTyped ==
  ASSUME NEW s \in Slots
  PROVE  /\ FieldOf(s) \in Fields
         /\ s \div Width \in Nat
         /\ Limit[FieldOf(s)] \in Nat
<1>1. s \in Nat
  BY WidthType DEF Slots
<1>2. s \div Width \in Nat /\ s % Width \in 0..(Width - 1)
  BY <1>1, WidthType, RowRange
<1>3. (s % Width) + 1 \in 1..Width
  BY <1>2, WidthType
<1>4. FieldOf(s) \in Fields
  BY <1>3, CliAssumption, WidthType DEF FieldOf
<1> QED
  BY <1>2, <1>4, LimitAssumption

\* Both commands have an input for every field.
LEMMA EveryField ==
  ASSUME NEW i \in {0, 1}, NEW f \in Fields
  PROVE  \E s \in Slots : s \div Width = i /\ FieldOf(s) = f
<1>1. PICK k \in 1..Width : FieldOrder[k] = f
  BY CliAssumption, WidthType
<1> DEFINE r == k - 1
<1>2. r \in 0..(Width - 1) /\ Width \in Nat \ {0} /\ r + 1 = k
  BY <1>1, WidthType
<1> HIDE DEF r
<1>3. /\ r \div Width = 0 /\ r % Width = r
      /\ (Width + r) \div Width = 1 /\ (Width + r) % Width = r
  BY <1>2, RowOf
<1>4. r \in Slots /\ Width + r \in Slots
  BY <1>2 DEF Slots
<1>5. FieldOf(r) = f /\ FieldOf(Width + r) = f
  BY <1>1, <1>2, <1>3 DEF FieldOf
<1> QED
  BY <1>3, <1>4, <1>5

LEMMA CommandAtTyped ==
  ASSUME NEW values \in Values, NEW i \in {0, 1}
  PROVE  CommandAt(values, i) \in Command
<1> DEFINE at(f) == CHOOSE s \in Slots : s \div Width = i /\ FieldOf(s) = f
<1>1. \A f \in Fields : at(f) \in Slots
  BY EveryField
<1>2. CommandAt(values, i) = [f \in Fields |-> values[at(f)]]
  BY DEF CommandAt
<1> HIDE DEF at
<1> QED
  BY <1>1, <1>2 DEF Values, Command

LEMMA InstallTyped ==
  ASSUME NEW values \in Values
  PROVE  Install(values) \in ClientMessage
<1> DEFINE pair == <<CommandAt(values, 0), CommandAt(values, 1)>>
<1>1. CommandAt(values, 0) \in Command /\ CommandAt(values, 1) \in Command
  BY CommandAtTyped
<1>2. pair \in Seq(Command)
  BY <1>1
<1> HIDE DEF pair
<1>3. [type |-> "upsert_command_set", set |-> Active,
       base_version |-> AnyVersion, commands |-> pair] \in ClientMessage
  BY <1>2 DEF ClientMessage
<1> QED
  BY <1>3 DEF Install, pair

LEMMA ChangeTyped ==
  ASSUME NEW values \in Values, NEW slot \in Slots
  PROVE  Change(values, slot) \in ClientMessage
<1> DEFINE fields == [f \in Fields |-> IF f = FieldOf(slot) THEN values[slot] ELSE Keep]
<1>1. fields \in FieldUpdate
  BY DEF Values, FieldUpdate
<1>2. slot \div Width \in Nat
  BY SlotTyped
<1> HIDE DEF fields
<1>3. \A n \in Nat : [type |-> "update_command", index |-> n, fields |-> fields]
                      \in ClientMessage
  BY <1>1 DEF ClientMessage
<1> QED
  BY <1>2, <1>3 DEF Change, fields

LEMMA AsksTyped ==
  /\ Fetch \in ClientMessage
  /\ [type |-> "request_write_access"] \in ClientMessage
  /\ [type |-> "acknowledge_error"] \in ClientMessage
  /\ \A e \in BOOLEAN : [type |-> "set_drive_power", enabled |-> e] \in ClientMessage
  /\ \A a \in MotionActions :
       [type |-> "set_motion_state", action |-> a] \in ClientMessage
BY DEF Fetch, ClientMessage

----------------------------------------------------------------------------
(* The command line client: notes and letters under way.                   *)

Has(list, these) == \E i \in DOMAIN list : list[i] \in these

\* None of these is the last word: each has one of those behind it.
Followed(list, these, those) ==
  \A i \in DOMAIN list : list[i] \in these =>
    \E j \in DOMAIN list : j > i /\ list[j] \in those

LEMMA NothingHas ==
  ASSUME NEW these, NEW those
  PROVE  ~Has(<<>>, these) /\ Followed(<<>>, these, those)
BY DEF Has, Followed

LEMMA TailHas ==
  ASSUME NEW S, NEW list \in Seq(S), list # <<>>, NEW these, Has(list, these)
  PROVE  Head(list) \in these \/ Has(Tail(list), these)
<1>1. /\ Len(list) \in Nat
      /\ DOMAIN list = 1..Len(list)
      /\ DOMAIN Tail(list) = 1..(Len(list) - 1)
      /\ \A i \in DOMAIN Tail(list) : Tail(list)[i] = list[i + 1]
      /\ Head(list) = list[1]
  BY HeadTailProperties, LenProperties
<1>2. PICK i \in DOMAIN list : list[i] \in these
  BY DEF Has
<1>3. CASE i = 1
  BY <1>1, <1>2, <1>3
<1>4. CASE i # 1
  <2>1. i - 1 \in DOMAIN Tail(list) /\ (i - 1) + 1 = i
    BY <1>1, <1>4
  <2> QED
    BY <1>1, <1>2, <2>1 DEF Has
<1> QED
  BY <1>3, <1>4

LEMMA TailFollowed ==
  ASSUME NEW S, NEW list \in Seq(S), list # <<>>, NEW these, NEW those,
         Followed(list, these, those)
  PROVE  /\ Followed(Tail(list), these, those)
         /\ Head(list) \in these => Has(Tail(list), those)
<1>1. /\ Len(list) \in Nat
      /\ DOMAIN list = 1..Len(list)
      /\ DOMAIN Tail(list) = 1..(Len(list) - 1)
      /\ \A i \in DOMAIN Tail(list) : Tail(list)[i] = list[i + 1]
      /\ Head(list) = list[1]
      /\ 1 \in DOMAIN list
  BY HeadTailProperties, LenProperties
<1>2. ASSUME NEW i \in DOMAIN list, list[i] \in these
      PROVE  \E j \in DOMAIN Tail(list) : j > i - 1 /\ Tail(list)[j] \in those
  <2>1. PICK j \in DOMAIN list : j > i /\ list[j] \in those
    BY <1>2 DEF Followed
  <2>2. j - 1 \in DOMAIN Tail(list) /\ (j - 1) + 1 = j /\ j - 1 > i - 1
    BY <1>1, <2>1
  <2> QED
    BY <1>1, <2>1, <2>2
<1>3. ASSUME NEW i \in DOMAIN Tail(list), Tail(list)[i] \in these
      PROVE  \E j \in DOMAIN Tail(list) : j > i /\ Tail(list)[j] \in those
  <2>1. i + 1 \in DOMAIN list /\ (i + 1) - 1 = i /\ list[i + 1] \in these
    BY <1>1, <1>3
  <2> QED
    BY <1>2, <2>1
<1>4. Head(list) \in these => Has(Tail(list), those)
  BY <1>1, <1>2 DEF Has
<1> QED
  BY <1>3, <1>4 DEF Followed

\* More at the end.
LEMMA MoreHas ==
  ASSUME NEW S, NEW list \in Seq(S), NEW more \in Seq(S), NEW these,
         Has(list, these) \/ Has(more, these)
  PROVE  Has(list \o more, these)
<1>1. /\ Len(list) \in Nat /\ Len(more) \in Nat
      /\ DOMAIN list = 1..Len(list) /\ DOMAIN more = 1..Len(more)
      /\ DOMAIN (list \o more) = 1..(Len(list) + Len(more))
      /\ \A i \in 1..Len(list) : (list \o more)[i] = list[i]
      /\ \A i \in 1..Len(more) : (list \o more)[Len(list) + i] = more[i]
  BY LenProperties
<1>2. ASSUME NEW i \in DOMAIN list, list[i] \in these
      PROVE  Has(list \o more, these)
  <2>1. i \in DOMAIN (list \o more) /\ (list \o more)[i] = list[i]
    BY <1>1
  <2> QED
    BY <1>2, <2>1 DEF Has
<1>3. ASSUME NEW i \in DOMAIN more, more[i] \in these
      PROVE  Has(list \o more, these)
  <2>1. Len(list) + i \in DOMAIN (list \o more) /\ (list \o more)[Len(list) + i] = more[i]
    BY <1>1
  <2> QED
    BY <1>3, <2>1 DEF Has
<1> QED
  BY <1>2, <1>3 DEF Has

LEMMA MoreFollowed ==
  ASSUME NEW S, NEW list \in Seq(S), NEW more \in Seq(S), NEW these, NEW those,
         Followed(list, these, those) \/ Has(more, those),
         ~Has(more, these)
  PROVE  Followed(list \o more, these, those)
<1> DEFINE all == list \o more
<1>1. /\ Len(list) \in Nat /\ Len(more) \in Nat
      /\ DOMAIN list = 1..Len(list) /\ DOMAIN more = 1..Len(more)
      /\ DOMAIN all = 1..(Len(list) + Len(more))
      /\ \A i \in 1..Len(list) : all[i] = list[i]
      /\ \A i \in 1..Len(more) : all[Len(list) + i] = more[i]
  BY LenProperties
<1> HIDE DEF all
<1>2. ASSUME NEW i \in DOMAIN all, all[i] \in these
      PROVE  i \in DOMAIN list /\ list[i] \in these
  <2>1. CASE i \in DOMAIN list
    BY <1>1, <1>2, <2>1
  <2>2. CASE i \notin DOMAIN list
    <3>1. i - Len(list) \in 1..Len(more) /\ Len(list) + (i - Len(list)) = i
      BY <1>1, <1>2, <2>2
    <3>2. more[i - Len(list)] \in these
      BY <1>1, <1>2, <3>1
    <3> QED
      BY <1>1, <3>1, <3>2 DEF Has
  <2> QED
    BY <2>1, <2>2
<1>3. ASSUME Has(more, those), NEW i \in DOMAIN list
      PROVE  \E j \in DOMAIN all : j > i /\ all[j] \in those
  <2>1. PICK k \in DOMAIN more : more[k] \in those
    BY <1>3 DEF Has
  <2>2. Len(list) + k \in DOMAIN all /\ Len(list) + k > i /\ all[Len(list) + k] \in those
    BY <1>1, <1>3, <2>1
  <2> QED
    BY <2>2
<1>4. ASSUME Followed(list, these, those), NEW i \in DOMAIN list, list[i] \in these
      PROVE  \E j \in DOMAIN all : j > i /\ all[j] \in those
  <2>1. PICK j \in DOMAIN list : j > i /\ list[j] \in those
    BY <1>4 DEF Followed
  <2>2. j \in DOMAIN all /\ all[j] \in those
    BY <1>1, <2>1
  <2> QED
    BY <2>1, <2>2
<1>5. Followed(all, these, those)
  BY <1>2, <1>3, <1>4 DEF Followed
<1> QED
  BY <1>5 DEF all

LEMMA OneMore ==
  ASSUME NEW S, NEW list \in Seq(S), NEW e \in S, NEW these,
         Has(list, these) \/ e \in these
  PROVE  Has(Append(list, e), these)
<1>1. /\ Len(list) \in Nat
      /\ DOMAIN list = 1..Len(list)
      /\ DOMAIN Append(list, e) = 1..(Len(list) + 1)
      /\ \A i \in 1..Len(list) : Append(list, e)[i] = list[i]
      /\ Append(list, e)[Len(list) + 1] = e
  BY LenProperties, AppendProperties
<1>2. CASE Has(list, these)
  BY <1>1, <1>2 DEF Has
<1>3. CASE e \in these
  <2>1. Len(list) + 1 \in DOMAIN Append(list, e)
    BY <1>1
  <2> QED
    BY <1>1, <1>3, <2>1 DEF Has
<1> QED
  BY <1>2, <1>3

----------------------------------------------------------------------------
(* The command line client: what the core sends it.                        *)

Note ==
  [type : {"connected", "state"}, drive : DriveStates, holder : Controllers \cup {Nobody}]
    \cup [type : {"write_access_changed"}, holder : Controllers \cup {Nobody}]
    \cup [type : {"write_access_result"}, granted : BOOLEAN,
          holder : Controllers \cup {Nobody}]
    \cup [type : {"replaced"}]
    \cup [type : {"updated"}, index : Nat, fields : FieldUpdate]
    \cup [type : {"command_set"}, commands : Seq(Command)]

\* The broadcast of a partial update.
Partial(body) == body.type = "command_set_changed" /\ body.update = "one"

Quiet == \A i \in DOMAIN sent' : ~Partial(sent'[i].body)

LEMMA ReplyQuiet ==
  ASSUME Sender \in Controllers, NEW body, Reply(body), ~Partial(body)
  PROVE  Quiet
BY ReplyShape DEF Quiet

LEMMA AnnounceQuiet ==
  ASSUME Sender \in Controllers, NEW broadcast, NEW reply, Announce(broadcast, reply),
         ~Partial(broadcast), ~Partial(reply)
  PROVE  Quiet
BY AnnounceShape DEF Quiet

LEMMA QuietBodies ==
  /\ \A s, r : ~Partial(Ack(s, r))
  /\ \A n, p : ~Partial(WriteAccessChanged(n, p))
  /\ \A g, c : ~Partial(WriteAccessResult(g, c))
  /\ \A s, v : ~Partial(CommandResult(s, v))
  /\ \A v : ~Partial(CommandSetChanged(v, "all"))
  /\ \A t, s : t \in {"connected", "state"} => ~Partial([type |-> t, state |-> s])
  /\ \A v, c : ~Partial([type |-> "command_set", version |-> v, commands |-> c])
  /\ \A s : ~Partial([type |-> "saved_set_list", sets |-> s])
BY DEF Partial, Ack, WriteAccessChanged, WriteAccessResult, CommandResult, CommandSetChanged

\* Only an update of a command is broadcast as one.
LEMMA PartialIsUpdate ==
  ASSUME TypeOK, CoreStep, ~Quiet
  PROVE  Handles("update_command")
<1>1. CASE HandleEvent
  <2>1. CASE HandleConnected
    <3>1. sent' = <<To(Head(queue).from, [type |-> "connected", state |-> CoreState])>>
      BY <2>1 DEF HandleConnected
    <3> QED
      BY <3>1, QuietBodies DEF Quiet, To
  <2>2. CASE HandleDisconnected
    <3>1. \/ sent' = <<>>
          \/ sent' = <<To(Everyone, WriteAccessChanged(Nobody, holder))>>
      BY <2>2 DEF HandleDisconnected
    <3> QED
      BY <3>1, QuietBodies DEF Quiet, To
  <2>3. CASE HandleDriveState
    <3>1. \E s : sent' = <<To(Everyone, [type |-> "state", state |-> s])>>
      BY <2>3 DEF HandleDriveState
    <3> QED
      BY <3>1, QuietBodies DEF Quiet, To
  <2>4. CASE HandleHidReport
    BY <2>4 DEF HandleHidReport, Quiet
  <2> QED
    BY <1>1, <2>1, <2>2, <2>3, <2>4 DEF HandleEvent
<1>2. CASE HandleMessage /\ ~UpdateCommand
  <2>0. Sender \in Controllers
    BY <1>2, MessageHasSender
  <2>1. ASSUME NEW body, ~Partial(body), Decline(body) \/ Reply(body)
        PROVE  Quiet
    BY <2>0, <2>1, ReplyQuiet DEF Decline
  <2>2. ASSUME Refuse PROVE Quiet
    BY <2>1, <2>2, QuietBodies DEF Refuse
  <2>3. ASSUME NEW cs, ReplaceActive(cs) PROVE Quiet
    BY <2>0, <2>1, <2>2, <2>3, AnnounceQuiet, QuietBodies DEF ReplaceActive
  <2>4. CASE RequestWriteAccess \/ ReleaseWriteAccess
    BY <2>0, <2>1, <2>2, <2>4, AnnounceQuiet, QuietBodies
    DEF RequestWriteAccess, ReleaseWriteAccess
  <2>5. CASE GetState \/ GetCommandSet \/ ListSavedSets
    <3>1. CASE GetState
      <4>1. ~Partial([type |-> "state", state |-> CoreState])
        BY QuietBodies
      <4> QED
        BY <2>1, <3>1, <4>1 DEF GetState
    <3>2. CASE GetCommandSet
      <4>1. \/ Decline(Ack(FALSE, "NotFound"))
            \/ \E v, c : Decline([type |-> "command_set", version |-> v, commands |-> c])
        BY <3>2 DEF GetCommandSet
      <4> QED
        BY <2>1, <4>1, QuietBodies
    <3>3. CASE ListSavedSets
      <4>1. \E s : Decline([type |-> "saved_set_list", sets |-> s])
        BY <3>3 DEF ListSavedSets
      <4> QED
        BY <2>1, <4>1, QuietBodies
    <3> QED
      BY <2>5, <3>1, <3>2, <3>3
  <2>6. CASE UpsertActive \/ DeleteActive
    BY <2>3, <2>6 DEF UpsertActive, DeleteActive
  <2>7. CASE UpsertSaved \/ DeleteSaved
    BY <2>1, <2>7, QuietBodies DEF UpsertSaved, DeleteSaved
  <2>8. CASE SetDrivePower \/ SetMotionState \/ AcknowledgeError
    BY <2>1, <2>2, <2>8, QuietBodies DEF SetDrivePower, SetMotionState, AcknowledgeError
  <2> QED
    BY <1>2, <2>4, <2>5, <2>6, <2>7, <2>8 DEF HandleMessage
<1>3. CASE UpdateCommand
  BY <1>3 DEF UpdateCommand
<1> QED
  BY <1>1, <1>2, <1>3 DEF CoreStep

LEMMA ContentsTyped ==
  ASSUME NEW body \in CoreMessage, body.type \in Heeded,
         Partial(body) => Request.index \in Nat /\ Request.fields \in FieldUpdate
  PROVE  Contents(body) \in Note
<1>1. CASE body.type \in {"connected", "state"}
  <2>1. body.state \in [drive_state : DriveStates, version : Nat,
                        holder : Controllers \cup {Nobody}]
    BY <1>1 DEF CoreMessage
  <2>2. Contents(body) = [type |-> body.type, drive |-> body.state.drive_state,
                          holder |-> body.state.holder]
    BY <1>1 DEF Contents
  <2> QED
    BY <1>1, <2>1, <2>2 DEF Note
<1>2. CASE body.type = "write_access_changed"
  <2>1. body.holder \in Controllers \cup {Nobody}
    BY <1>2 DEF CoreMessage
  <2> QED
    BY <1>2, <2>1 DEF Contents, Note
<1>3. CASE body.type = "write_access_result"
  <2>1. body \in [type : {"write_access_result"}, granted : BOOLEAN,
                  holder : Controllers \cup {Nobody}]
    BY <1>3 DEF CoreMessage
  <2> QED
    BY <1>3, <2>1 DEF Contents, Note
<1>4. CASE body.type = "command_set_changed"
  <2>1. body.update \in {"all", "one"}
    BY <1>4 DEF CoreMessage
  <2>2. CASE body.update = "all"
    BY <1>4, <2>2 DEF Contents, Note
  <2>3. CASE body.update = "one"
    <3>1. Contents(body) =
            [type |-> "updated", index |-> Request.index, fields |-> Request.fields]
      BY <1>4, <2>3 DEF Contents
    <3> QED
      BY <1>4, <2>3, <3>1 DEF Partial, Note
  <2> QED
    BY <2>1, <2>2, <2>3
<1>5. CASE body.type = "command_set"
  <2>1. body.commands \in Seq(Command)
    BY <1>5 DEF CoreMessage
  <2> QED
    BY <1>5, <2>1 DEF Contents, Note
<1> QED
  BY <1>1, <1>2, <1>3, <1>4, <1>5 DEF Heeded

\* What the client is to hear of a step of the core.
Heard == {Contents(sent'[i].body) : i \in Places(sent')}

LEMMA HeardIsNote ==
  ASSUME TypeOK, CoreStep
  PROVE  Heard \subseteq Note
<1> SUFFICES ASSUME NEW i \in Places(sent')
             PROVE  Contents(sent'[i].body) \in Note
  BY DEF Heard
<1>1. sent' \in Seq(Sent)
  BY MessageTyped, EventHandlerTyped DEF CoreStep, TypeOK, Sent
<1>2. \A k \in DOMAIN sent' : sent'[k] \in Sent
  BY <1>1, LenProperties, ElementOfSeq
<1>3. /\ i \in DOMAIN sent'
      /\ sent'[i].body \in CoreMessage
      /\ sent'[i].body.type \in Heeded
  BY <1>2 DEF Places, ForCli, Sent
<1>4. Partial(sent'[i].body) => Request.index \in Nat /\ Request.fields \in FieldUpdate
  BY <1>3, PartialIsUpdate, HandlesTyped, RequestTyped DEF Quiet
<1> QED
  BY <1>3, <1>4, ContentsTyped

\* Every note for the client arrives, and no other.
LEMMA DeliversHeard ==
  ASSUME TypeOK, CoreStep, inbox \in Seq(Note), Delivers(sent')
  PROVE  \E news \in Seq(Note) :
           /\ inbox' = inbox \o news
           /\ \A i \in DOMAIN news : news[i] \in Heard
           /\ \A these : (\E n \in Heard : n \in these) => Has(news, these)
<1> DEFINE places == Places(sent')
           n == Cardinality(places)
<1>1. sent' \in Seq(Sent)
  BY MessageTyped, EventHandlerTyped DEF CoreStep, TypeOK, Sent
<1>2. /\ DOMAIN sent' = 1..Len(sent')
      /\ Len(sent') \in Nat
      /\ \A i \in DOMAIN sent' : sent'[i] \in Sent
  BY <1>1, LenProperties, ElementOfSeq
<1>3. IsFiniteSet(1..Len(sent'))
  BY <1>2, FS_Interval
<1>4. IsFiniteSet(places)
  BY <1>2, <1>3, FS_Subset DEF Places
<1>5. n \in Nat
  BY <1>4, FS_CardinalityType
<1>6. \A i \in places : Contents(sent'[i].body) \in Note
  BY HeardIsNote DEF Heard
<1>7. PICK at \in SetToSeqs(places) :
        inbox' = inbox \o [i \in DOMAIN at |-> Contents(sent'[at[i]].body)]
  BY DEF Delivers
<1>8. /\ at \in [1..n -> places]
      /\ \A p \in places : \E i \in 1..n : at[i] = p
  <2>1. /\ at \in [1..n -> places]
        /\ \A i, j \in 1..n : i # j => at[i] # at[j]
    BY <1>7 DEF SetToSeqs
  <2> HIDE DEF n, places
  <2>2. at \in Injection(1..n, places)
    BY <2>1 DEF Injection, IsInjective
  <2>3. Cardinality(1..n) = n
    BY <1>5, FS_Interval
  <2>4. at \in Surjection(1..n, places)
    BY <1>4, <2>2, <2>3, FS_Injection DEF n
  <2> QED
    BY <2>1, <2>4 DEF Surjection
<1> HIDE DEF n, places
<1> DEFINE news == [i \in DOMAIN at |-> Contents(sent'[at[i]].body)]
<1>9. news \in [1..n -> Note]
  BY <1>6, <1>8
<1>10. news \in Seq(Note)
  BY <1>5, <1>9, SeqDef
<1>11. \A i \in DOMAIN news : news[i] \in Heard
  BY <1>8 DEF Heard, places
<1>12. ASSUME NEW these, NEW h \in Heard, h \in these
       PROVE  Has(news, these)
  <2>1. PICK p \in places : h = Contents(sent'[p].body)
    BY <1>12 DEF Heard, places
  <2>2. PICK i \in 1..n : at[i] = p
    BY <1>8, <2>1
  <2>3. i \in DOMAIN news /\ news[i] = h
    BY <1>8, <2>1, <2>2
  <2> QED
    BY <1>12, <2>3 DEF Has
<1> HIDE DEF news
<1> QED
  BY <1>7, <1>10, <1>11, <1>12 DEF news

LEMMA DeliversTyped ==
  ASSUME TypeOK, CoreStep, inbox \in Seq(Note), Delivers(sent')
  PROVE  inbox' \in Seq(Note)
BY DeliversHeard, ConcatProperties

----------------------------------------------------------------------------
(* The command line client: what it keeps and what it asks for.            *)

Letter == ClientMessage \cup {Hangup}

ClientTyped ==
  /\ inputs \in Values
  /\ dialog \in {NoDialog} \cup [field : Fields, checked : SUBSET Slots]
  /\ outbox \in Seq(Letter)
  /\ inbox \in Seq(Note)

LEMMA SendTyped ==
  ASSUME ClientTyped, NEW messages \in Seq(Letter), Send(messages)
  PROVE  outbox' \in Seq(Letter)
BY ConcatProperties DEF ClientTyped, Send

LEMMA AskTyped ==
  ASSUME ClientTyped, NEW message \in ClientMessage, Asks(message)
  PROVE  outbox' \in Seq(Letter)
<1>1. <<message>> \in Seq(Letter)
  BY DEF Letter
<1> QED
  BY <1>1, SendTyped DEF Asks

\* A message of the core that is taken off the inbox.
LEMMA TakesTyped ==
  ASSUME ClientTyped, NEW type, Takes(type)
  PROVE  /\ inbox' \in Seq(Note)
         /\ dialog' = dialog /\ UNCHANGED vars
         /\ Head(inbox) \in Note
         /\ Head(inbox).type = type
         /\ running /\ running'
<1>1. running /\ running'
  BY Zenon DEF Takes
<1> QED
  BY <1>1, HeadTailProperties DEF Takes, ClientTyped

LEMMA HandlingKeeps ==
  ASSUME ClientTyped, HandleCoreMessage
  PROVE  ClientTyped' /\ UNCHANGED vars /\ running'
<1> SUFFICES /\ inputs' \in Values
             /\ outbox' \in Seq(Letter)
             /\ \E type : Takes(type)
  BY TakesTyped DEF ClientTyped
<1>0. inputs \in Values /\ outbox \in Seq(Letter)
  BY DEF ClientTyped
<1>1. CASE TakeGreeting
  BY <1>0, <1>1, AsksTyped, AskTyped DEF TakeGreeting
<1>2. CASE TakeState \/ TakeHolder
  BY <1>0, <1>2 DEF TakeState, TakeHolder
<1>3. CASE TakeResult
  BY <1>0, <1>3, InstallTyped, AskTyped DEF TakeResult
<1>4. CASE TakeReplacement
  BY <1>0, <1>4, AsksTyped, AskTyped DEF TakeReplacement
<1>5. CASE TakeUpdate
  <2>1. Head(inbox).fields \in FieldUpdate
    BY <1>5, TakesTyped DEF TakeUpdate, Note
  <2>2. \A s \in Slots : Head(inbox).fields[FieldOf(s)] \in Int \cup {Keep}
    BY <2>1, SlotTyped DEF FieldUpdate
  <2>3. inputs' \in Values
    BY <1>0, <1>5, <2>2 DEF TakeUpdate, Overwritten, Values
  <2> QED
    BY <1>0, <1>5, <2>3 DEF TakeUpdate
<1>6. CASE TakeSet
  <2> DEFINE commands == Head(inbox).commands
  <2>1. commands \in Seq(Command)
    BY <1>6, TakesTyped DEF TakeSet, Note
  <2>2. ASSUME NEW s \in Slots, (s \div Width) + 1 \in DOMAIN commands
        PROVE  commands[(s \div Width) + 1][FieldOf(s)] \in Int
    <3>1. commands[(s \div Width) + 1] \in Command
      BY <2>1, <2>2, ElementOfSeq, LenProperties
    <3> QED
      BY <3>1, SlotTyped DEF Command
  <2>3. inputs' = [s \in Slots |->
                     IF (s \div Width) + 1 \in DOMAIN commands
                       THEN commands[(s \div Width) + 1][FieldOf(s)] ELSE inputs[s]]
    BY <1>6 DEF TakeSet
  <2> HIDE DEF commands
  <2>4. inputs' \in Values
    BY <1>0, <2>2, <2>3 DEF Values
  <2> QED
    BY <1>0, <1>6, <2>4 DEF TakeSet
<1> QED
  BY <1>1, <1>2, <1>3, <1>4, <1>5, <1>6 DEF HandleCoreMessage

LEMMA BetweenTyped ==
  ASSUME NEW x \in Int, NEW low \in Int, NEW high \in Int
  PROVE  Between(x, low, high) \in Int
BY DEF Between

LEMMA NudgeKeeps ==
  ASSUME ClientTyped, NEW slot \in Slots, NEW delta \in Steps, Nudge(slot, delta)
  PROVE  ClientTyped'
<1> DEFINE moved == Between(inputs[slot] + delta, 0, Limit[FieldOf(slot)])
           pushed == CASE slot = 0 /\ moved > inputs[Width] -> {Width}
                       [] slot = Width /\ moved < inputs[0] -> {0}
                       [] OTHER -> {}
           new == [s \in Slots |-> IF s \in {slot} \cup pushed THEN moved ELSE inputs[s]]
           more == [i \in 1..Cardinality(pushed) |-> Change(new, Width - slot)]
<1>0. inputs \in Values
  BY DEF ClientTyped
<1>1. moved \in Int
  <2>1. inputs[slot] + delta \in Int
    BY <1>0, CliAssumption DEF Values
  <2>2. Limit[FieldOf(slot)] \in Int
    BY SlotTyped
  <2>3. \A x, l \in Int : Between(x, 0, l) \in Int
    BY BetweenTyped
  <2> QED
    BY <2>1, <2>2, <2>3
<1>2. \/ pushed = {Width} /\ slot = 0
      \/ pushed = {0} /\ slot = Width
      \/ pushed = {}
  <2>1. CASE slot = 0 /\ moved > inputs[Width]
    BY <2>1, WidthType
  <2>2. CASE slot = Width /\ moved < inputs[0]
    BY <2>2, WidthType
  <2>3. CASE ~(slot = 0 /\ moved > inputs[Width]) /\ ~(slot = Width /\ moved < inputs[0])
    BY <2>3
  <2> QED
    BY <2>1, <2>2, <2>3
<1>3. inputs' = new /\ Send(<<Change(new, slot)>> \o more)
  BY DEF Nudge
<1>4. inbox' = inbox /\ dialog' = dialog
  BY DEF Nudge
<1> HIDE DEF moved, pushed
<1>5. new \in Values
  BY <1>0, <1>1 DEF Values
<1> HIDE DEF new
<1>6. Cardinality(pushed) \in {0, 1}
  BY <1>2, FS_Singleton, FS_EmptySet
<1>7. 0 \in Slots /\ Width \in Slots
  BY WidthType DEF Slots
<1>8. pushed # {} => Width - slot \in Slots
  <2>1. Width - 0 = Width /\ Width - Width = 0
    BY WidthType
  <2> QED
    BY <1>2, <1>7, <2>1
<1>9. pushed = {} => Cardinality(pushed) = 0
  BY FS_EmptySet
<1>10. more \in Seq(Letter)
  <2>1. \A i \in 1..Cardinality(pushed) : Change(new, Width - slot) \in Letter
    BY <1>5, <1>6, <1>8, <1>9, ChangeTyped DEF Letter
  <2>2. more \in [1..Cardinality(pushed) -> Letter] /\ Cardinality(pushed) \in Nat
    BY <1>6, <2>1
  <2> QED
    BY <2>2, SeqDef
<1>11. <<Change(new, slot)>> \in Seq(Letter)
  BY <1>5, ChangeTyped DEF Letter
<1> HIDE DEF more
<1>12. <<Change(new, slot)>> \o more \in Seq(Letter)
  BY <1>10, <1>11, ConcatProperties
<1>13. outbox' \in Seq(Letter)
  BY <1>3, <1>12, SendTyped
<1> QED
  BY <1>3, <1>4, <1>5, <1>13 DEF ClientTyped

LEMMA ApplyKeeps ==
  ASSUME ClientTyped, NEW entry \in Entries, Apply(entry)
  PROVE  ClientTyped'
<1> DEFINE value == Between(entry, Lowest(dialog.field), Limit[dialog.field])
           new == [s \in Slots |-> IF s \in dialog.checked THEN value ELSE inputs[s]]
<1>1. dialog.field \in Fields
  BY DEF ClientTyped, Apply, DialogKey
<1>2. Limit[dialog.field] \in Int /\ Lowest(dialog.field) \in Int /\ entry \in Int
  BY <1>1, LimitAssumption, CliAssumption DEF Lowest
<1>3. value \in Int
  BY <1>2, BetweenTyped
<1>4. /\ inputs' = new
      /\ IF view.holder # Nobody THEN Asks(Install(new)) ELSE UNCHANGED outbox
      /\ dialog' = NoDialog
      /\ inbox' = inbox
  BY DEF Apply
<1> HIDE DEF value
<1>5. new \in Values
  BY <1>3 DEF Values, ClientTyped
<1> HIDE DEF new
<1>6. outbox' \in Seq(Letter)
  BY <1>4, <1>5, InstallTyped, AskTyped DEF ClientTyped
<1> QED
  BY <1>4, <1>5, <1>6 DEF ClientTyped

LEMMA KeyStays ==
  ASSUME Key, running' = running
  PROVE  UNCHANGED vars /\ running'
<1>1. running'
  BY Zenon DEF Key
<1> QED
  BY <1>1 DEF Key

\* Every key but the one to leave leaves the client running.
LEMMA PressingKeeps ==
  ASSUME ClientTyped, PressKey, ~Leave
  PROVE  ClientTyped' /\ UNCHANGED vars /\ running'
<1>0. inputs \in Values /\ outbox \in Seq(Letter)
  BY DEF ClientTyped
<1>1. ASSUME NEW s \in Slots, OpenDialog(s)
      PROVE  ClientTyped' /\ Key /\ running' = running
  BY <1>1, SlotTyped DEF OpenDialog, WriterKey, ClientTyped
<1>2. ASSUME NEW s \in Slots, Toggle(s)
      PROVE  ClientTyped' /\ Key /\ running' = running
  BY <1>2 DEF Toggle, DialogKey, ClientTyped
<1>3. ASSUME NEW s \in Slots, NEW d \in Steps, Nudge(s, d)
      PROVE  ClientTyped' /\ Key /\ running' = running
  <2>1. Key /\ running' = running
    BY <1>3 DEF Nudge, WriterKey
  <2> QED
    BY <1>3, <2>1, NudgeKeeps
<1>4. ASSUME PressClaim PROVE ClientTyped'
  BY <1>4, AsksTyped, AskTyped DEF PressClaim, ClientTyped
<1>5. ASSUME PressSwitch PROVE ClientTyped'
  <2>1. MotionKey \in MotionActions
    BY DEF MotionKey, MotionActions
  <2>2. (view.drive = "Off") \in BOOLEAN
    OBVIOUS
  <2>3. PICK request \in {[type |-> "set_drive_power", enabled |-> view.drive = "Off"],
                          [type |-> "set_motion_state", action |-> MotionKey],
                          [type |-> "acknowledge_error"]} : Asks(request)
    BY <1>5 DEF PressSwitch
  <2>4. request \in ClientMessage
    BY <2>1, <2>2, AsksTyped
  <2>5. outbox' \in Seq(Letter)
    BY <2>3, <2>4, AskTyped
  <2> QED
    BY <1>5, <2>5 DEF PressSwitch, WriterKey, ClientTyped
<1>6. ASSUME PressReset PROVE ClientTyped'
  <2>1. Initial \in Values
    BY CliAssumption DEF Values
  <2>2. outbox' \in Seq(Letter)
    BY <1>6, <2>1, InstallTyped, AskTyped DEF PressReset
  <2> QED
    BY <1>6, <2>1, <2>2 DEF PressReset, WriterKey, ClientTyped
<1>7. ASSUME Cancel PROVE ClientTyped'
  BY <1>7 DEF Cancel, DialogKey, ClientTyped
<1>8. ASSUME NEW v \in Entries, Apply(v)
      PROVE  ClientTyped' /\ Key /\ running' = running
  <2>1. Key /\ running' = running
    BY <1>8 DEF Apply, DialogKey
  <2> QED
    BY <1>8, <2>1, ApplyKeeps
<1>9. ClientTyped' /\ Key /\ running' = running
  BY <1>1, <1>2, <1>3, <1>4, <1>5, <1>6, <1>7, <1>8
  DEF PressKey, PressClaim, PressSwitch, PressReset, Cancel, WriterKey, DialogKey
<1> QED
  BY <1>9, KeyStays

----------------------------------------------------------------------------
(* The command line client: leaving it.                                    *)

\* A client that was left has ended, or will: its last message is on its way to
\* its thread.
Farewell ==
  ~running => \/ session[Cli] = "closed"
              \/ \E i \in DOMAIN outbox : outbox[i] = Hangup

CliInv == TypeOK /\ AccessInv /\ ClientTyped /\ Farewell

LEMMA CliIsController ==
  Cli \in Controllers /\ Cli \in WebSockets /\ Cli # Hid /\ Cli # Nobody
BY CliAssumption, ControllerAssumption DEF Controllers

LEMMA HangupIsNoRequest == Hangup \notin ClientMessage
BY DEF Hangup, ClientMessage

LEMMA CoreKeepsSessions ==
  ASSUME CoreStep
  PROVE  session' = session
BY DEF CoreStep, HandleEvent, HandleConnected, HandleDisconnected, HandleDriveState,
       HandleHidReport, HandleMessage, RequestWriteAccess, ReleaseWriteAccess, GetState,
       GetCommandSet, ListSavedSets, UpsertActive, UpsertSaved, UpdateCommand,
       DeleteActive, DeleteSaved, SetDrivePower, SetMotionState, AcknowledgeError,
       Receives, Handles

\* The core itself and the others act as they do without this client.
LEMMA CoreAdvancesKeeps ==
  ASSUME CliInv, CoreAdvances
  PROVE  CliInv'
<1> USE DEF CliInv
<1>1. TypeOK' /\ AccessInv'
  BY StepTyped, AccessStep DEF CoreAdvances, Next
<1>2. session' = session
  BY CoreKeepsSessions DEF CoreAdvances
<1>3. inbox' \in Seq(Note)
  <2>1. CASE Delivers(sent')
    BY <2>1, DeliversTyped DEF CoreAdvances, ClientTyped
  <2>2. CASE inbox' = inbox
    BY <2>2 DEF ClientTyped
  <2> QED
    BY <2>1, <2>2 DEF CoreAdvances
<1>4. UNCHANGED <<uiVars, outbox>>
  BY DEF CoreAdvances
<1> QED
  BY <1>1, <1>2, <1>3, <1>4 DEF uiVars, ClientTyped, Farewell

LEMMA OthersActKeeps ==
  ASSUME CliInv, OthersAct
  PROVE  CliInv'
<1> USE DEF CliInv
<1>1. /\ UNCHANGED <<uiVars, outbox, inbox>>
      /\ \/ \E c \in WebSockets \ {Cli} :
              \/ OpenSession(c) \/ CloseSession(c)
              \/ \E m \in Requests : SendMessage(c, m)
         \/ HidConnects \/ HidDisconnects
         \/ \E r \in HidReports : HidReport(r)
         \/ \E s \in ReportedStates : DriveReports(s)
  BY DEF OthersAct
<1>2. Next
  BY <1>1 DEF Next, Environment
<1>3. TypeOK' /\ AccessInv'
  BY <1>2, StepTyped, AccessStep
<1>4. session \in [Controllers -> {"fresh", "open", "closed"}]
  BY DEF TypeOK
<1>5. session'[Cli] = session[Cli]
  BY <1>1, <1>4, CliIsController
  DEF OpenSession, CloseSession, SendMessage, HidConnects, HidDisconnects, HidReport,
      DriveReports
<1> QED
  BY <1>1, <1>3, <1>5 DEF uiVars, ClientTyped, Farewell

\* The client's own thread. It never opens a session again, and says goodbye
\* before it drops what is left.
LEMMA ConnectKeeps ==
  ASSUME CliInv, Connect
  PROVE  CliInv'
<1> USE DEF CliInv
<1>1. OpenSession(Cli) /\ UNCHANGED <<uiVars, outbox, inbox>>
  BY DEF Connect
<1>2. Next
  BY <1>1, CliIsController DEF Next, Environment
<1>3. TypeOK' /\ AccessInv'
  BY <1>2, StepTyped, AccessStep
<1>4. session[Cli] = "fresh"
  BY <1>1 DEF OpenSession
<1> QED
  BY <1>1, <1>3, <1>4 DEF uiVars, ClientTyped, Farewell

\* What is left of the outbox still ends with the goodbye.
LEMMA TailKeepsFarewell ==
  ASSUME outbox \in Seq(Letter), outbox # <<>>, Head(outbox) # Hangup,
         outbox' = Tail(outbox),
         NEW i \in DOMAIN outbox, outbox[i] = Hangup
  PROVE  \E j \in DOMAIN outbox' : outbox'[j] = Hangup
<1>1. /\ Len(outbox) \in Nat
      /\ DOMAIN outbox = 1..Len(outbox)
      /\ outbox' \in Seq(Letter)
      /\ Len(outbox') = Len(outbox) - 1
      /\ DOMAIN outbox' = 1..Len(outbox')
      /\ \A k \in 1..Len(outbox') : outbox'[k] = outbox[k + 1]
      /\ Head(outbox) = outbox[1]
  BY HeadTailProperties, LenProperties
<1>2. i # 1
  BY <1>1
<1>3. i - 1 \in 1..Len(outbox') /\ (i - 1) + 1 = i
  BY <1>1, <1>2
<1>4. outbox'[i - 1] = Hangup
  BY <1>1, <1>3
<1> QED
  BY <1>1, <1>3, <1>4

LEMMA ForwardKeeps ==
  ASSUME CliInv, Forward
  PROVE  CliInv'
<1> USE DEF CliInv
<1> DEFINE e == [kind |-> "message", from |-> Cli, msg |-> Head(outbox)]
<1>1. /\ session[Cli] = "open"
      /\ outbox # <<>> /\ Head(outbox) # Hangup
      /\ Enqueue(e)
      /\ outbox' = Tail(outbox)
      /\ UNCHANGED <<session, uiVars, inbox>>
  BY DEF Forward
<1>2. outbox \in Seq(Letter)
  BY DEF ClientTyped
<1>3. Head(outbox) \in ClientMessage /\ outbox' \in Seq(Letter)
  BY <1>1, <1>2, HeadTailProperties DEF Letter
<1>4. e \in Event /\ e.kind = "message" /\ e.from = Cli
  BY <1>3, CliIsController DEF Event
<1> HIDE DEF e
<1>5. TypeOK'
  <2>1. session' \in [Controllers -> {"fresh", "open", "closed"}]
    BY <1>1 DEF TypeOK
  <2> QED
    BY <1>1, <1>4, <2>1, EnqueueTyped
<1>6. AccessInv'
  <2>1. queue' = Append(queue, e) /\ UNCHANGED <<holder, work>>
    BY <1>1 DEF Enqueue, coreVars
  <2>2. session' = session /\ session[e.from] = "open"
    BY <1>1, <1>4
  <2> QED
    BY <1>4, <2>1, <2>2, AppendKeepsAccess
<1>7. Farewell'
  BY <1>1, <1>2, TailKeepsFarewell DEF Farewell, uiVars
<1> QED
  BY <1>1, <1>3, <1>5, <1>6, <1>7 DEF uiVars, ClientTyped

LEMMA EndingKeeps ==
  ASSUME CliInv, Close \/ Cut
  PROVE  CliInv'
<1> USE DEF CliInv
<1>1. CloseSession(Cli) /\ outbox' = <<>> /\ UNCHANGED uiVars
  BY DEF Close, Cut
<1>2. Next
  BY <1>1, CliIsController DEF Next, Environment
<1>3. TypeOK' /\ AccessInv'
  BY <1>2, StepTyped, AccessStep
<1>4. session'[Cli] = "closed"
  BY <1>1, CliIsController DEF CloseSession, TypeOK
<1>5. inbox' \in Seq(Note)
  <2>1. CASE inbox' = inbox
    BY <2>1 DEF ClientTyped
  <2>2. ASSUME NEW n \in 0..Len(inbox), inbox' = SubSeq(inbox, 1, n)
        PROVE  inbox' \in Seq(Note)
    <3>1. inbox \in Seq(Note) /\ Len(inbox) \in Nat
      BY LenProperties DEF ClientTyped
    <3>2. \A i \in 1..n : inbox[i] \in Note
      BY <3>1, ElementOfSeq
    <3> QED
      BY <2>2, <3>1, <3>2, SubSeqProperties
  <2> QED
    BY <2>1, <2>2 DEF Close, Cut
<1>6. outbox' \in Seq(Letter)
  BY <1>1, EmptySeq
<1> QED
  BY <1>1, <1>3, <1>4, <1>5, <1>6 DEF uiVars, ClientTyped, Farewell

LEMMA LeaveKeeps ==
  ASSUME CliInv, Leave
  PROVE  CliInv'
<1> USE DEF CliInv
<1>1. /\ UNCHANGED vars
      /\ inbox' = <<>>
      /\ Asks(Hangup)
      /\ UNCHANGED <<inputs, dialog>>
  BY DEF Leave, Key
<1>2. TypeOK' /\ AccessInv'
  BY <1>1, StepTyped, AccessStep
<1>3. <<Hangup>> \in Seq(Letter)
  BY DEF Letter
<1>4. outbox' \in Seq(Letter)
  BY <1>1, <1>3, SendTyped DEF Asks
<1>5. Farewell'
  <2>1. CASE session[Cli] = "closed"
    BY <1>1, <2>1 DEF vars, Farewell
  <2>2. CASE session[Cli] # "closed"
    <3>1. outbox' = outbox \o <<Hangup>>
      BY <1>1, <2>2 DEF Asks, Send
    <3>2. /\ Len(outbox) \in Nat
          /\ outbox \in Seq(Letter)
          /\ DOMAIN outbox' = 1..Len(outbox')
          /\ Len(outbox') = Len(outbox) + 1
      BY <1>3, <1>4, <3>1, ConcatProperties, LenProperties DEF ClientTyped
    <3>3. outbox'[Len(outbox) + 1] = Hangup
      BY <1>3, <3>1, <3>2, ConcatProperties
    <3> QED
      BY <3>2, <3>3 DEF Farewell
  <2> QED
    BY <2>1, <2>2
<1>6. inbox' \in Seq(Note)
  BY <1>1, EmptySeq
<1> QED
  BY <1>1, <1>2, <1>4, <1>5, <1>6 DEF ClientTyped

LEMMA CliStep ==
  ASSUME CliInv, [CliNext]_cliVars
  PROVE  CliInv'
<1>1. CASE CoreAdvances \/ OthersAct
  BY <1>1, CoreAdvancesKeeps, OthersActKeeps
<1>2. CASE Connect \/ Forward \/ Close \/ Cut
  BY <1>2, ConnectKeeps, ForwardKeeps, EndingKeeps
<1>3. CASE Leave
  BY <1>3, LeaveKeeps
<1>4. CASE HandleCoreMessage \/ (PressKey /\ ~Leave)
  <2>1. ClientTyped' /\ UNCHANGED vars /\ running'
    BY <1>4, HandlingKeeps, PressingKeeps DEF CliInv
  <2>2. TypeOK' /\ AccessInv'
    BY <2>1, StepTyped, AccessStep DEF CliInv
  <2>3. Farewell'
    BY <2>1 DEF Farewell
  <2> QED
    BY <2>1, <2>2, <2>3 DEF CliInv
<1>5. CASE UNCHANGED cliVars
  <2>1. UNCHANGED <<vars, uiVars, outbox, inbox>>
    BY <1>5 DEF cliVars
  <2>2. TypeOK' /\ AccessInv'
    BY <2>1, StepTyped, AccessStep DEF CliInv
  <2> QED
    BY <2>1, <2>2 DEF uiVars, vars, CliInv, ClientTyped, Farewell
<1> QED
  BY <1>1, <1>2, <1>3, <1>4, <1>5 DEF CliNext, HandleCoreMessage

LEMMA InitCli ==
  ASSUME CliInit
  PROVE  CliInv
<1>1. Init
  BY DEF CliInit
<1>2. TypeOK /\ AccessInv
  BY <1>1, InitTyped, InitAccess
<1>3. ClientTyped
  BY EmptySeq, CliAssumption DEF CliInit, ClientTyped, Values
<1>4. Farewell
  BY DEF CliInit, Farewell
<1> QED
  BY <1>2, <1>3, <1>4 DEF CliInv

\* A client that is left gives up write access with its last message, whatever it
\* asked for before: no claim of it is heard after its end, and its end is heard
\* (puddle-cli.rs:137-141, 200-205; main.rs:219-237).
THEOREM LeavingGivesUp == CliSpec => []LeavingReleases
<1>1. CliInit => CliInv
  BY InitCli
<1>2. CliInv /\ [CliNext]_cliVars => CliInv'
  BY CliStep
<1>3. CliInv => LeavingReleases
  <2> SUFFICES ASSUME CliInv, ~running, ~Unheard, holder = Cli PROVE FALSE
    BY DEF LeavingReleases
  <2>1. outbox = <<>> /\ session[Cli] = "closed"
    BY EmptySeq, LenProperties DEF Unheard, CliInv, Farewell
  <2>2. PICK i \in DOMAIN queue : queue[i] = Disconnected(Cli)
    BY <2>1, CliIsController DEF CliInv, AccessInv, HolderIsLive, Gone
  <2> QED
    BY <2>2 DEF Unheard, Disconnected
<1> QED
  BY <1>1, <1>2, <1>3, PTL DEF CliSpec

----------------------------------------------------------------------------
(* The command line client: what it hears of a step of the core.           *)

\* What is heard of one message, of an answer and of a broadcast with its answer.
ToCli(c, body) == IF c \in {Everyone, Cli} /\ body.type \in Heeded
                  THEN {Contents(body)} ELSE {}

LEMMA OneHeard ==
  ASSUME NEW c, NEW body, sent' = <<To(c, body)>>
  PROVE  Heard = ToCli(c, body)
<1>1. DOMAIN sent' = {1} /\ sent'[1].to = c /\ sent'[1].body = body
  BY DEF To
<1>2. Places(sent') = IF c \in {Everyone, Cli} /\ body.type \in Heeded THEN {1} ELSE {}
  BY <1>1 DEF Places, ForCli
<1> QED
  BY <1>1, <1>2 DEF Heard, ToCli

LEMMA NoneHeard ==
  ASSUME sent' = <<>>
  PROVE  Heard = {}
<1>1. DOMAIN sent' = {}
  OBVIOUS
<1> QED
  BY <1>1 DEF Heard, Places

LEMMA ReplyHeard ==
  ASSUME NEW body, Reply(body)
  PROVE  Heard = ToCli(Sender, body)
BY OneHeard DEF Reply

LEMMA AnnounceHeard ==
  ASSUME Sender \in Controllers, NEW broadcast, NEW reply, Announce(broadcast, reply)
  PROVE  Heard = ToCli(Everyone, broadcast) \cup ToCli(Sender, reply)
<1>1. /\ DOMAIN sent' = {1, 2}
      /\ sent'[1].to = Everyone /\ sent'[1].body = broadcast
      /\ sent'[2].to = Sender /\ sent'[2].body = reply
  BY AnnounceShape
<1>2. Places(sent') = {i \in {1, 2} : ForCli(sent'[i])}
  BY <1>1 DEF Places
<1>3. /\ ForCli(sent'[1]) <=> broadcast.type \in Heeded
      /\ ForCli(sent'[2]) <=> Sender \in {Everyone, Cli} /\ reply.type \in Heeded
  BY <1>1 DEF ForCli
<1>4. Heard = {Contents(sent'[i].body) : i \in {i \in {1, 2} : ForCli(sent'[i])}}
  BY <1>2 DEF Heard
<1> HIDE DEF Heard
<1> DEFINE first == Contents(broadcast)
           second == Contents(reply)
<1>5. Heard = {h \in {first, second} : \/ h = first /\ ForCli(sent'[1])
                                       \/ h = second /\ ForCli(sent'[2])}
  BY <1>1, <1>4
<1> HIDE DEF first, second
<1>6. Heard = (IF broadcast.type \in Heeded THEN {first} ELSE {})
                \cup (IF Sender \in {Everyone, Cli} /\ reply.type \in Heeded
                        THEN {second} ELSE {})
  BY <1>3, <1>5
<1> QED
  BY <1>6 DEF ToCli, first, second

\* The notes that the core's messages are to the client.
LEMMA ContentsOf ==
  /\ \A s, r : Ack(s, r).type \notin Heeded
  /\ \A s, v : CommandResult(s, v).type \notin Heeded
  /\ \A s : [type |-> "saved_set_list", sets |-> s].type \notin Heeded
  /\ \A h, p : /\ WriteAccessChanged(h, p).type \in Heeded
               /\ Contents(WriteAccessChanged(h, p)) = [type |-> "write_access_changed", holder |-> h]
  /\ \A g, h : /\ WriteAccessResult(g, h).type \in Heeded
               /\ Contents(WriteAccessResult(g, h)) = WriteAccessResult(g, h)
  /\ \A v : /\ CommandSetChanged(v, "all").type \in Heeded
            /\ Contents(CommandSetChanged(v, "all")) = [type |-> "replaced"]
  /\ \A v : /\ CommandSetChanged(v, "one").type \in Heeded
            /\ Contents(CommandSetChanged(v, "one")) =
                 [type |-> "updated", index |-> Request.index, fields |-> Request.fields]
  /\ \A v, cs : /\ [type |-> "command_set", version |-> v, commands |-> cs].type \in Heeded
                /\ Contents([type |-> "command_set", version |-> v, commands |-> cs])
                     = [type |-> "command_set", commands |-> cs]
  /\ \A t \in {"connected", "state"} : \A d, v, h :
       /\ [type |-> t, state |-> [drive_state |-> d, version |-> v, holder |-> h]].type \in Heeded
       /\ Contents([type |-> t, state |-> [drive_state |-> d, version |-> v, holder |-> h]])
            = [type |-> t, drive |-> d, holder |-> h]
<1>1. /\ \A s, r : Ack(s, r).type \notin Heeded
      /\ \A s, v : CommandResult(s, v).type \notin Heeded
      /\ \A s : [type |-> "saved_set_list", sets |-> s].type \notin Heeded
  BY DEF Ack, CommandResult, Heeded
<1>2. \A h, p : /\ WriteAccessChanged(h, p).type \in Heeded
                /\ Contents(WriteAccessChanged(h, p)) = [type |-> "write_access_changed", holder |-> h]
  BY DEF WriteAccessChanged, Heeded, Contents
<1>3. \A g, h : /\ WriteAccessResult(g, h).type \in Heeded
                /\ Contents(WriteAccessResult(g, h)) = WriteAccessResult(g, h)
  BY DEF WriteAccessResult, Heeded, Contents
<1>4. \A v : /\ CommandSetChanged(v, "all").type \in Heeded
             /\ Contents(CommandSetChanged(v, "all")) = [type |-> "replaced"]
  BY DEF CommandSetChanged, Heeded, Contents
<1>5. \A v : /\ CommandSetChanged(v, "one").type \in Heeded
             /\ Contents(CommandSetChanged(v, "one")) =
                  [type |-> "updated", index |-> Request.index, fields |-> Request.fields]
  BY DEF CommandSetChanged, Heeded, Contents
<1>6. \A v, cs : /\ [type |-> "command_set", version |-> v, commands |-> cs].type \in Heeded
                 /\ Contents([type |-> "command_set", version |-> v, commands |-> cs])
                      = [type |-> "command_set", commands |-> cs]
  BY DEF Heeded, Contents
<1>7. \A t \in {"connected", "state"} : \A d, v, h :
        /\ [type |-> t, state |-> [drive_state |-> d, version |-> v, holder |-> h]].type \in Heeded
        /\ Contents([type |-> t, state |-> [drive_state |-> d, version |-> v, holder |-> h]])
             = [type |-> t, drive |-> d, holder |-> h]
  BY DEF Heeded, Contents
<1> QED
  BY <1>1, <1>2, <1>3, <1>4, <1>5, <1>6, <1>7

\* The ways in which a step of the core ends, as the client hears of it.
SaysNothing == Heard = {} /\ UNCHANGED <<holder, driveState, active>>

SaysState ==
  /\ \E t \in {"connected", "state"} :
       Heard = {[type |-> t, drive |-> driveState', holder |-> holder']}
  /\ UNCHANGED <<holder, active>>

SaysNobody ==
  /\ Heard = {[type |-> "write_access_changed", holder |-> holder']}
  /\ holder' = Nobody
  /\ UNCHANGED <<driveState, active>>

SaysGranted ==
  LET changed == [type |-> "write_access_changed", holder |-> holder']
      granted == WriteAccessResult(TRUE, holder')
  IN /\ Heard \subseteq {changed, granted}
     /\ holder' # holder => changed \in Heard
     /\ granted \in Heard <=> holder' = Cli
     /\ UNCHANGED <<driveState, active>>

SaysDenied ==
  /\ Heard = {WriteAccessResult(FALSE, holder')}
  /\ UNCHANGED <<holder, driveState, active>>

SaysReplaced ==
  /\ Heard = {[type |-> "replaced"]}
  /\ Sender = holder
  /\ \/ Request.type = "upsert_command_set" /\ active'.commands = Request.commands
     \/ Request.type = "delete_command_set"
  /\ UNCHANGED <<holder, driveState>>

SaysUpdated ==
  LET i == Request.index + 1
  IN /\ Heard = {[type |-> "updated", index |-> Request.index, fields |-> Request.fields]}
     /\ Sender = holder
     /\ Request.type = "update_command"
     /\ i \in DOMAIN active.commands
     /\ active'.commands =
          [active.commands EXCEPT ![i] = ApplyFields(active.commands[i], Request.fields)]
     /\ UNCHANGED <<holder, driveState>>

SaysSet ==
  /\ \E cs : /\ Heard = {[type |-> "command_set", commands |-> cs]}
             /\ Request.set = Active => cs = active.commands
  /\ Sender = Cli
  /\ Request.type = "get_command_set"
  /\ UNCHANGED <<holder, driveState, active>>

Tells ==
  \/ SaysNothing \/ SaysState \/ SaysNobody \/ SaysGranted \/ SaysDenied
  \/ HandleMessage /\ (SaysReplaced \/ SaysUpdated \/ SaysSet)

LEMMA EventTells ==
  ASSUME TypeOK, HandleEvent
  PROVE  Tells
<1>1. CASE HandleConnected
  <2> DEFINE from == Head(queue).from
             body == [type |-> "connected", state |-> CoreState]
  <2>1. sent' = <<To(from, body)>> /\ UNCHANGED coreVars
    BY <1>1 DEF HandleConnected
  <2>2. Contents(body) = [type |-> "connected", drive |-> driveState, holder |-> holder]
    BY ContentsOf DEF CoreState
  <2> HIDE DEF from, body
  <2>3. Heard = ToCli(from, body)
    BY <2>1, OneHeard
  <2> QED
    BY <2>1, <2>2, <2>3 DEF ToCli, Tells, SaysNothing, SaysState, coreVars
<1>2. CASE HandleDisconnected
  <2>1. CASE sent' = <<>> /\ UNCHANGED <<holder, driveState, active>>
    BY <2>1, NoneHeard DEF Tells, SaysNothing
  <2>2. CASE /\ sent' = <<To(Everyone, WriteAccessChanged(Nobody, holder))>>
             /\ holder' = Nobody
             /\ UNCHANGED <<driveState, active>>
    <3>1. Heard = ToCli(Everyone, WriteAccessChanged(Nobody, holder))
      BY <2>2, OneHeard
    <3>2. Heard = {[type |-> "write_access_changed", holder |-> Nobody]}
      BY <3>1, ContentsOf DEF ToCli
    <3> QED
      BY <2>2, <3>2 DEF Tells, SaysNobody
  <2> QED
    BY <1>2, <2>1, <2>2 DEF HandleDisconnected
<1>3. CASE HandleDriveState
  <2> DEFINE body == [type |-> "state", state |-> CoreState']
  <2>1. sent' = <<To(Everyone, body)>> /\ UNCHANGED <<holder, active>>
    BY <1>3 DEF HandleDriveState
  <2>2. /\ Contents(body) = [type |-> "state", drive |-> driveState', holder |-> holder']
        /\ body.type \in Heeded
    BY ContentsOf DEF CoreState
  <2> HIDE DEF body
  <2>3. Heard = ToCli(Everyone, body)
    BY <2>1, OneHeard
  <2> QED
    BY <2>1, <2>2, <2>3 DEF ToCli, Tells, SaysState
<1>4. CASE HandleHidReport
  BY <1>4, NoneHeard DEF HandleHidReport, coreVars, Tells, SaysNothing
<1> QED
  BY <1>1, <1>2, <1>3, <1>4 DEF HandleEvent

LEMMA ReplaceTells ==
  ASSUME TypeOK, HandleMessage, NEW cs, ReplaceActive(cs),
         \/ Request.type = "upsert_command_set" /\ Request.commands = cs
         \/ Request.type = "delete_command_set"
  PROVE  Tells
<1>0. Sender \in Controllers
  BY MessageHasSender
<1>1. ASSUME NEW body, Decline(body), body.type \notin Heeded
      PROVE  Tells
  <2>1. Heard = {}
    BY <1>1, ReplyHeard DEF Decline, ToCli
  <2> QED
    BY <1>1, <2>1 DEF Decline, coreVars, Tells, SaysNothing
<1>2. CASE /\ IsWriter
           /\ SetActiveCommands(cs)
           /\ Announce(CommandSetChanged(active.version + 1, "all"),
                       CommandResult(TRUE, active.version + 1))
           /\ UNCHANGED <<holder, driveState, saved>>
  <2>1. active'.commands = cs
    BY <1>2 DEF SetActiveCommands
  <2>2. Heard = ToCli(Everyone, CommandSetChanged(active.version + 1, "all"))
                  \cup ToCli(Sender, CommandResult(TRUE, active.version + 1))
    BY <1>0, <1>2, AnnounceHeard
  <2>3. Heard = {[type |-> "replaced"]}
    BY <2>2, ContentsOf DEF ToCli
  <2> QED
    BY <1>2, <2>1, <2>3 DEF Tells, SaysReplaced, IsWriter
<1>3. CASE Decline(CommandResult(FALSE, active.version)) \/ Refuse
  BY <1>1, <1>3, ContentsOf DEF Refuse, Decline
<1> QED
  BY <1>2, <1>3 DEF ReplaceActive

LEMMA MessageTells ==
  ASSUME TypeOK, HandleMessage
  PROVE  Tells
<1>0. Sender \in Controllers
  BY MessageHasSender
<1>1. ASSUME NEW body, Reply(body), body.type \notin Heeded,
             UNCHANGED <<holder, driveState, active>>
      PROVE  Tells
  <2>1. Heard = {}
    BY <1>1, ReplyHeard DEF ToCli
  <2> QED
    BY <1>1, <2>1 DEF Tells, SaysNothing
<1>2. ASSUME NEW body, Decline(body), body.type \notin Heeded
      PROVE  Tells
  BY <1>1, <1>2 DEF Decline, coreVars
<1>3. ASSUME Refuse PROVE Tells
  BY <1>2, <1>3, ContentsOf DEF Refuse, Decline
<1>4. CASE RequestWriteAccess
  <2>0. UNCHANGED <<driveState, active>>
    BY <1>4 DEF RequestWriteAccess
  <2> DEFINE changed == WriteAccessChanged(Sender, holder)
             granted == WriteAccessResult(TRUE, Sender)
             denied == WriteAccessResult(FALSE, holder)
             note == [type |-> "write_access_changed", holder |-> Sender]
  <2>1. /\ ToCli(Everyone, changed) = {note}
        /\ ToCli(Sender, granted) = IF Sender = Cli THEN {granted} ELSE {}
        /\ ToCli(Sender, denied) = IF Sender = Cli THEN {denied} ELSE {}
        /\ granted # note
    <3>1. Sender # Everyone
      BY <1>0, ControllerAssumption
    <3>2. granted # note
      BY DEF WriteAccessResult
    <3>3. /\ changed.type \in Heeded /\ Contents(changed) = note
          /\ granted.type \in Heeded /\ Contents(granted) = granted
          /\ denied.type \in Heeded /\ Contents(denied) = denied
      BY ContentsOf
    <3> HIDE DEF changed, granted, denied, note
    <3> QED
      BY <3>1, <3>2, <3>3 DEF ToCli
  <2>2. CASE holder' = Sender /\ holder # Sender /\ Announce(changed, granted)
    <3> HIDE DEF changed, granted, note
    <3>1. Heard = {note} \cup (IF Sender = Cli THEN {granted} ELSE {})
      BY <1>0, <2>1, <2>2, AnnounceHeard
    <3>2. Heard \subseteq {note, granted} /\ note \in Heard /\ (granted \in Heard <=> Sender = Cli)
      BY <2>1, <3>1
    <3> QED
      BY <2>0, <2>2, <3>2 DEF Tells, SaysGranted, granted, note
  <2>3. CASE holder' = Sender /\ holder = Sender /\ Reply(granted)
    <3> HIDE DEF changed, granted, note
    <3>1. Heard = IF Sender = Cli THEN {granted} ELSE {}
      BY <2>1, <2>3, ReplyHeard
    <3>2. Heard \subseteq {note, granted} /\ (granted \in Heard <=> Sender = Cli)
      BY <2>1, <3>1
    <3> QED
      BY <2>0, <2>3, <3>2 DEF Tells, SaysGranted, granted, note
  <2>4. CASE Reply(denied) /\ holder' = holder
    <3> HIDE DEF denied
    <3>1. Heard = IF Sender = Cli THEN {denied} ELSE {}
      BY <2>1, <2>4, ReplyHeard
    <3> QED
      BY <2>0, <2>4, <3>1 DEF Tells, SaysDenied, SaysNothing, denied
  <2> QED
    BY <1>4, <2>2, <2>3, <2>4 DEF RequestWriteAccess
<1>5. CASE ReleaseWriteAccess
  <2>1. CASE /\ holder' = Nobody
             /\ Announce(WriteAccessChanged(Nobody, holder), Ack(TRUE, ""))
             /\ UNCHANGED <<driveState, active>>
    <3>1. Heard = ToCli(Everyone, WriteAccessChanged(Nobody, holder))
                    \cup ToCli(Sender, Ack(TRUE, ""))
      BY <1>0, <2>1, AnnounceHeard
    <3>2. /\ ToCli(Everyone, WriteAccessChanged(Nobody, holder))
               = {[type |-> "write_access_changed", holder |-> Nobody]}
          /\ ToCli(Sender, Ack(TRUE, "")) = {}
      BY ContentsOf DEF ToCli
    <3>3. Heard = {[type |-> "write_access_changed", holder |-> Nobody]}
      BY <3>1, <3>2
    <3> QED
      BY <2>1, <3>3 DEF Tells, SaysNobody
  <2> QED
    BY <1>3, <1>5, <2>1 DEF ReleaseWriteAccess
<1>6. CASE GetState
  <2> DEFINE body == [type |-> "state", state |-> CoreState]
  <2>1. Reply(body) /\ UNCHANGED coreVars
    BY <1>6 DEF GetState, Decline
  <2>2. Contents(body) = [type |-> "state", drive |-> driveState, holder |-> holder]
    BY ContentsOf DEF CoreState
  <2> HIDE DEF body
  <2>3. Heard = ToCli(Sender, body)
    BY <2>1, ReplyHeard
  <2> QED
    BY <2>1, <2>2, <2>3 DEF ToCli, Tells, SaysNothing, SaysState, coreVars
<1>7. CASE GetCommandSet
  <2> DEFINE set == IF Request.set = Active THEN active ELSE saved[Request.set]
             body == [type |-> "command_set", version |-> set.version,
                      commands |-> set.commands]
  <2>1. Request.type = "get_command_set"
    BY <1>7 DEF GetCommandSet, Handles
  <2>2. CASE Decline(body)
    <3>1. Contents(body) = [type |-> "command_set", commands |-> set.commands]
      BY ContentsOf
    <3>2. Request.set = Active => set.commands = active.commands
      OBVIOUS
    <3>3. Sender # Everyone
      BY <1>0, ControllerAssumption
    <3> HIDE DEF body, set
    <3>4. Heard = ToCli(Sender, body) /\ UNCHANGED coreVars
      BY <2>2, ReplyHeard DEF Decline
    <3> QED
      BY <2>1, <3>1, <3>2, <3>3, <3>4 DEF ToCli, Tells, SaysNothing, SaysSet, coreVars
  <2> QED
    BY <1>2, <1>7, <2>2, ContentsOf DEF GetCommandSet
<1>8. CASE ListSavedSets
  BY <1>2, <1>8, ContentsOf DEF ListSavedSets
<1>9. CASE UpsertActive \/ DeleteActive
  BY <1>9, ReplaceTells DEF UpsertActive, DeleteActive, Handles
<1>10. CASE UpsertSaved \/ DeleteSaved
  BY <1>1, <1>2, <1>10, ContentsOf DEF UpsertSaved, DeleteSaved
<1>11. CASE UpdateCommand
  <2> DEFINE i == Request.index + 1
             new == ApplyFields(active.commands[i], Request.fields)
  <2>1. Request.type = "update_command"
    BY <1>11 DEF UpdateCommand, Handles
  <2>2. CASE /\ IsWriter
             /\ i \in DOMAIN active.commands
             /\ SetActiveCommands([active.commands EXCEPT ![i] = new])
             /\ Announce(CommandSetChanged(active.version + 1, "one"),
                         CommandResult(TRUE, active.version + 1))
             /\ UNCHANGED <<holder, driveState, saved, pending>>
    <3>1. active'.commands = [active.commands EXCEPT ![i] = new]
      BY <2>2 DEF SetActiveCommands
    <3>2. Heard = ToCli(Everyone, CommandSetChanged(active.version + 1, "one"))
                    \cup ToCli(Sender, CommandResult(TRUE, active.version + 1))
      BY <1>0, <2>2, AnnounceHeard
    <3>3. Heard = {[type |-> "updated", index |-> Request.index, fields |-> Request.fields]}
      BY <3>2, ContentsOf DEF ToCli
    <3> QED
      BY <2>1, <2>2, <3>1, <3>3 DEF Tells, SaysUpdated, IsWriter
  <2> QED
    BY <1>2, <1>3, <1>11, <2>2, ContentsOf DEF UpdateCommand
<1>12. CASE SetDrivePower \/ SetMotionState \/ AcknowledgeError
  BY <1>1, <1>2, <1>3, <1>12, ContentsOf DEF SetDrivePower, SetMotionState, AcknowledgeError
<1> QED
  BY <1>4, <1>5, <1>6, <1>7, <1>8, <1>9, <1>10, <1>11, <1>12 DEF HandleMessage

----------------------------------------------------------------------------
(* The command line client: what it knows of the core.                     *)

HolderNotes ==
  {n \in Note : n.type \in {"connected", "state", "write_access_changed",
                            "write_access_result"}}
StateNotes == {n \in Note : n.type \in {"connected", "state"}}
OtherHolder(h) == {n \in HolderNotes : n.holder # h}
OtherDrive(d) == {n \in StateNotes : n.drive # d}

Reachable == running /\ session[Cli] = "open"

ViewTyped ==
  view # NoView =>
    view \in [drive : DriveStates, holder : Controllers \cup {Nobody}]

\* Nothing was sent to the client before its session was opened.
Ungreeted == session[Cli] = "fresh" => view = NoView /\ inbox = <<>>

\* Whatever the client was told, or is about to be told, of the drive state and the
\* holder of write access is right or is corrected by what follows.
Informed ==
  Reachable =>
    /\ Followed(inbox, OtherHolder(holder), HolderNotes)
    /\ Followed(inbox, OtherDrive(driveState), StateNotes)
    /\ view # NoView /\ view.holder # holder => Has(inbox, HolderNotes)
    /\ view # NoView /\ view.drive # driveState => Has(inbox, StateNotes)

KnowsInv == ViewTyped /\ Ungreeted /\ Informed

\* A step of the core says what it changes, and nothing that is not so.
LEMMA HeardIsCurrent ==
  ASSUME TypeOK, CoreStep
  PROVE  /\ \A n \in Heard : n \notin OtherHolder(holder') /\ n \notin OtherDrive(driveState')
         /\ holder' # holder => \E n \in Heard : n \in HolderNotes
         /\ driveState' # driveState => \E n \in Heard : n \in StateNotes
<1>1. Heard \subseteq Note
  BY HeardIsNote
<1>2. Tells
  BY MessageTells, EventTells DEF CoreStep
<1> USE DEF OtherHolder, OtherDrive, HolderNotes, StateNotes
<1>3. CASE SaysNothing
  BY <1>3 DEF SaysNothing
<1>4. CASE SaysState
  BY <1>1, <1>4 DEF SaysState
<1>5. CASE SaysNobody
  BY <1>1, <1>5 DEF SaysNobody
<1>6. CASE SaysGranted
  BY <1>1, <1>6 DEF SaysGranted, WriteAccessResult
<1>7. CASE SaysDenied
  BY <1>1, <1>7 DEF SaysDenied, WriteAccessResult
<1>8. CASE SaysReplaced \/ SaysUpdated \/ SaysSet
  BY <1>1, <1>8 DEF SaysReplaced, SaysUpdated, SaysSet
<1> QED
  BY <1>2, <1>3, <1>4, <1>5, <1>6, <1>7, <1>8 DEF Tells

\* What a client that can be reached finds in its inbox after a step of the core.
LEMMA CliFinds ==
  ASSUME CliInv, CoreAdvances, Reachable, NEW these, NEW those
  PROVE  /\ Has(inbox, these) \/ (\E n \in Heard : n \in these) => Has(inbox', these)
         /\ (/\ \A n \in Heard : n \notin these
             /\ Followed(inbox, these, those) \/ \E n \in Heard : n \in those)
              => Followed(inbox', these, those)
<1>1. PICK news \in Seq(Note) :
        /\ inbox' = inbox \o news
        /\ \A i \in DOMAIN news : news[i] \in Heard
        /\ \A all : (\E n \in Heard : n \in all) => Has(news, all)
  BY DeliversHeard DEF CoreAdvances, Reachable, CliInv, ClientTyped
<1>2. inbox \in Seq(Note)
  BY DEF CliInv, ClientTyped
<1>3. /\ (\E n \in Heard : n \in these) => Has(news, these)
      /\ (\E n \in Heard : n \in those) => Has(news, those)
  BY <1>1
<1>4. (\A n \in Heard : n \notin these) => ~Has(news, these)
  BY <1>1 DEF Has
<1>5. Has(inbox, these) \/ Has(news, these) => Has(inbox', these)
  BY <1>1, <1>2, MoreHas
<1>6. ~Has(news, these) /\ (Followed(inbox, these, those) \/ Has(news, those))
        => Followed(inbox', these, those)
  BY <1>1, <1>2, MoreFollowed
<1> QED
  BY <1>3, <1>4, <1>5, <1>6

LEMMA CoreKnows ==
  ASSUME CliInv, KnowsInv, CoreAdvances
  PROVE  KnowsInv'
<1>1. session' = session /\ view' = view /\ running' = running
  BY CoreKeepsSessions DEF CoreAdvances, uiVars
<1>2. CASE Reachable
  <2>1. /\ \A n \in Heard : n \notin OtherHolder(holder') /\ n \notin OtherDrive(driveState')
        /\ holder' # holder => \E n \in Heard : n \in HolderNotes
        /\ driveState' # driveState => \E n \in Heard : n \in StateNotes
    BY HeardIsCurrent DEF CoreAdvances, CliInv
  <2>2. /\ Followed(inbox, OtherHolder(holder), HolderNotes)
        /\ Followed(inbox, OtherDrive(driveState), StateNotes)
        /\ view # NoView /\ view.holder # holder => Has(inbox, HolderNotes)
        /\ view # NoView /\ view.drive # driveState => Has(inbox, StateNotes)
    BY <1>2 DEF KnowsInv, Informed
  <2>3. Followed(inbox', OtherHolder(holder'), HolderNotes)
    BY <1>2, <2>1, <2>2, CliFinds
  <2>4. Followed(inbox', OtherDrive(driveState'), StateNotes)
    BY <1>2, <2>1, <2>2, CliFinds
  <2>5. view # NoView /\ view.holder # holder' => Has(inbox', HolderNotes)
    BY <1>2, <2>1, <2>2, CliFinds
  <2>6. view # NoView /\ view.drive # driveState' => Has(inbox', StateNotes)
    BY <1>2, <2>1, <2>2, CliFinds
  <2>7. session[Cli] # "fresh"
    BY <1>2 DEF Reachable
  <2> QED
    BY <1>1, <2>3, <2>4, <2>5, <2>6, <2>7 DEF KnowsInv, ViewTyped, Ungreeted, Informed
<1>3. CASE ~Reachable
  <2>1. inbox' = inbox
    BY <1>3 DEF CoreAdvances, Reachable
  <2> QED
    BY <1>1, <1>3, <2>1 DEF KnowsInv, ViewTyped, Ungreeted, Informed, Reachable
<1> QED
  BY <1>2, <1>3

\* The client's own steps. A note that it takes is the last of its kind, or is
\* followed by another.
LEMMA TakingKnows ==
  ASSUME CliInv, KnowsInv, HandleCoreMessage
  PROVE  KnowsInv'
<1> DEFINE n == Head(inbox)
<1>1. inbox \in Seq(Note)
  BY DEF CliInv, ClientTyped
<1>2. /\ inbox # <<>> /\ inbox' = Tail(inbox) /\ n \in Note
      /\ UNCHANGED vars /\ running' = running
      /\ n.type \in {"connected", "state"} => view' = [drive |-> n.drive, holder |-> n.holder]
      /\ n.type \in {"write_access_changed", "write_access_result"} =>
           view' = IF view = NoView THEN view ELSE [view EXCEPT !.holder = n.holder]
      /\ n \notin HolderNotes => view' = view
  <2>1. \A type : Takes(type) => inbox # <<>> /\ inbox' = Tail(inbox)
                                  /\ UNCHANGED vars /\ running' = running /\ n.type = type
    BY DEF Takes
  <2>2. inbox # <<>> => n \in Note
    BY <1>1, HeadTailProperties
  <2>3. CASE TakeGreeting \/ TakeState
    BY <2>1, <2>2, <2>3 DEF TakeGreeting, TakeState, HolderNotes
  <2>4. CASE TakeHolder \/ TakeResult
    BY <2>1, <2>2, <2>4 DEF TakeHolder, TakeResult, Learns, HolderNotes
  <2>5. CASE TakeReplacement \/ TakeUpdate \/ TakeSet
    BY <2>1, <2>2, <2>5 DEF TakeReplacement, TakeUpdate, TakeSet, HolderNotes
  <2> QED
    BY <2>3, <2>4, <2>5 DEF HandleCoreMessage
<1> HIDE DEF n
<1>3. session[Cli] # "fresh"
  BY <1>2 DEF KnowsInv, Ungreeted
<1>4. holder' = holder /\ driveState' = driveState /\ session' = session
  BY <1>2 DEF vars, coreVars
<1>5. ViewTyped'
  <2>1. n \in HolderNotes => n.holder \in Controllers \cup {Nobody}
    BY <1>2 DEF HolderNotes, Note
  <2>2. n \in StateNotes => n.drive \in DriveStates
    BY <1>2 DEF StateNotes, Note
  <2>3. CASE n \in StateNotes
    BY <1>2, <2>1, <2>2, <2>3 DEF ViewTyped, StateNotes, HolderNotes
  <2>4. CASE n \in HolderNotes /\ n \notin StateNotes
    BY <1>2, <2>1, <2>4 DEF KnowsInv, ViewTyped, StateNotes, HolderNotes
  <2>5. CASE n \notin HolderNotes
    BY <1>2, <2>5 DEF KnowsInv, ViewTyped
  <2> QED
    BY <2>3, <2>4, <2>5
<1>6. Informed'
  <2> SUFFICES ASSUME Reachable
               PROVE  /\ Followed(inbox', OtherHolder(holder), HolderNotes)
                      /\ Followed(inbox', OtherDrive(driveState), StateNotes)
                      /\ view' # NoView /\ view'.holder # holder => Has(inbox', HolderNotes)
                      /\ view' # NoView /\ view'.drive # driveState => Has(inbox', StateNotes)
    BY <1>2, <1>4 DEF Informed, Reachable
  <2>1. /\ Followed(inbox, OtherHolder(holder), HolderNotes)
        /\ Followed(inbox, OtherDrive(driveState), StateNotes)
        /\ view # NoView /\ view.holder # holder => Has(inbox, HolderNotes)
        /\ view # NoView /\ view.drive # driveState => Has(inbox, StateNotes)
    BY DEF KnowsInv, Informed
  <2>2. /\ Followed(inbox', OtherHolder(holder), HolderNotes)
        /\ n \in OtherHolder(holder) => Has(inbox', HolderNotes)
        /\ Followed(inbox', OtherDrive(driveState), StateNotes)
        /\ n \in OtherDrive(driveState) => Has(inbox', StateNotes)
    BY <1>1, <1>2, <2>1, TailFollowed DEF n
  <2>3. /\ Has(inbox, HolderNotes) /\ n \notin HolderNotes => Has(inbox', HolderNotes)
        /\ Has(inbox, StateNotes) /\ n \notin StateNotes => Has(inbox', StateNotes)
    BY <1>1, <1>2, TailHas DEF n
  <2>4. CASE n \in StateNotes
    BY <1>2, <2>2, <2>4 DEF StateNotes, HolderNotes, OtherHolder, OtherDrive
  <2>5. CASE n \in HolderNotes /\ n \notin StateNotes
    <3>1. view # NoView =>
            /\ view' = [view EXCEPT !.holder = n.holder]
            /\ view \in [drive : DriveStates, holder : Controllers \cup {Nobody}]
      BY <1>2, <2>5 DEF HolderNotes, StateNotes, KnowsInv, ViewTyped
    <3>2. view # NoView => view'.holder = n.holder /\ view'.drive = view.drive
      BY <3>1
    <3>3. view = NoView => view' = NoView
      BY <1>2, <2>5 DEF HolderNotes, StateNotes
    <3> QED
      BY <2>1, <2>2, <2>3, <2>5, <3>2, <3>3 DEF OtherHolder
  <2>6. CASE n \notin HolderNotes
    BY <1>2, <2>1, <2>2, <2>3, <2>6 DEF HolderNotes, StateNotes
  <2> QED
    BY <2>2, <2>4, <2>5, <2>6
<1> QED
  BY <1>3, <1>4, <1>5, <1>6 DEF KnowsInv, Ungreeted

\* Nothing changes for the client.
LEMMA StandingKnows ==
  ASSUME KnowsInv, UNCHANGED <<holder, driveState, view, inbox, running>>,
         session'[Cli] = session[Cli]
  PROVE  KnowsInv'
<1>1. UNCHANGED <<OtherHolder(holder), OtherDrive(driveState), HolderNotes, StateNotes>>
  BY DEF OtherHolder, OtherDrive, HolderNotes, StateNotes
<1>2. UNCHANGED <<Reachable, view, inbox>>
  BY DEF Reachable
<1>3. Informed' /\ Ungreeted' /\ ViewTyped'
  BY <1>1, <1>2 DEF KnowsInv, ViewTyped, Ungreeted, Informed
<1> QED
  BY <1>3 DEF KnowsInv

LEMMA ConnectKnows ==
  ASSUME CliInv, KnowsInv, Connect
  PROVE  KnowsInv'
<1>1. /\ session[Cli] = "fresh" /\ session' = [session EXCEPT ![Cli] = "open"]
      /\ UNCHANGED <<view, inbox>>
  BY DEF Connect, OpenSession, uiVars
<1>2. session'[Cli] = "open"
  BY <1>1, CliIsController DEF CliInv, TypeOK
<1>3. view' = NoView /\ inbox' = <<>>
  BY <1>1 DEF KnowsInv, Ungreeted
<1>4. \A these, those : Followed(inbox', these, those)
  BY <1>3, NothingHas
<1> QED
  BY <1>2, <1>3, <1>4 DEF KnowsInv, ViewTyped, Ungreeted, Informed

\* A client that has ended or was left is told no more.
LEMMA PartingKnows ==
  ASSUME CliInv, KnowsInv, Close \/ Cut \/ Leave
  PROVE  KnowsInv'
<1>1. view' = view
  BY DEF Close, Cut, Leave, Key, uiVars
<1>2. CASE Close \/ Cut
  <2>1. session'[Cli] = "closed"
    BY <1>2, CliIsController DEF Close, Cut, CloseSession, CliInv, TypeOK
  <2> QED
    BY <1>1, <2>1 DEF KnowsInv, ViewTyped, Ungreeted, Informed, Reachable
<1>3. CASE Leave
  <2>1. running' = FALSE /\ inbox' = <<>> /\ session' = session
    BY <1>3 DEF Leave, Key, vars
  <2>2. ~Reachable'
    BY <2>1 DEF Reachable
  <2> QED
    BY <1>1, <2>1, <2>2 DEF KnowsInv, ViewTyped, Ungreeted, Informed
<1> QED
  BY <1>2, <1>3

LEMMA KnowsStep ==
  ASSUME CliInv, KnowsInv, [CliNext]_cliVars
  PROVE  KnowsInv'
<1>1. CASE CoreAdvances
  BY <1>1, CoreKnows
<1>2. CASE OthersAct
  <2>1. session'[Cli] = session[Cli]
    BY <1>2, CliIsController
    DEF OthersAct, OpenSession, CloseSession, SendMessage, HidConnects, HidDisconnects,
        HidReport, DriveReports, CliInv, TypeOK
  <2>2. UNCHANGED <<holder, driveState, view, inbox, running>>
    BY <1>2
    DEF OthersAct, OpenSession, CloseSession, SendMessage, HidConnects, HidDisconnects,
        HidReport, DriveReports, Enqueue, coreVars, uiVars
  <2> QED
    BY <2>1, <2>2, StandingKnows
<1>3. CASE Connect
  BY <1>3, ConnectKnows
<1>4. CASE Forward
  <2>1. UNCHANGED <<session, holder, driveState, view, inbox, running>>
    BY <1>4 DEF Forward, Enqueue, coreVars, uiVars
  <2> QED
    BY <2>1, StandingKnows
<1>5. CASE Close \/ Cut \/ Leave
  BY <1>5, PartingKnows
<1>6. CASE HandleCoreMessage
  BY <1>6, TakingKnows
<1>7. CASE PressKey /\ ~Leave
  <2>1. UNCHANGED <<vars, view, inbox, running>>
    BY <1>7
    DEF PressKey, OpenDialog, Toggle, Nudge, PressClaim, PressSwitch, PressReset, Cancel,
        Apply, WriterKey, DialogKey, Key
  <2> QED
    BY <2>1, StandingKnows DEF vars, coreVars
<1>8. CASE UNCHANGED cliVars
  BY <1>8, StandingKnows DEF cliVars, vars, coreVars, uiVars
<1> QED
  BY <1>1, <1>2, <1>3, <1>4, <1>5, <1>6, <1>7, <1>8 DEF CliNext, HandleCoreMessage

LEMMA InitKnows ==
  ASSUME CliInit
  PROVE  KnowsInv
<1>1. view = NoView /\ inbox = <<>>
  BY DEF CliInit
<1>2. \A these, those : Followed(inbox, these, those)
  BY <1>1, NothingHas
<1> QED
  BY <1>1, <1>2 DEF KnowsInv, ViewTyped, Ungreeted, Informed

\* A client that has handled all it was sent knows the drive state and the holder of
\* write access, whatever it was told before (puddle-cli.rs:211-231;
\* websocket.rs:109-111).
THEOREM ClientKnowsTheCore == CliSpec => []KnowsTheCore
<1>1. CliInit => CliInv /\ KnowsInv
  BY InitCli, InitKnows
<1>2. CliInv /\ KnowsInv /\ [CliNext]_cliVars => (CliInv /\ KnowsInv)'
  BY CliStep, KnowsStep
<1>3. CliInv /\ KnowsInv => KnowsTheCore
  <2> SUFFICES ASSUME CliInv, KnowsInv, Online
               PROVE  view = [drive |-> driveState, holder |-> holder]
    BY DEF KnowsTheCore
  <2>1. Reachable /\ view # NoView /\ inbox = <<>>
    BY DEF Online, Reachable
  <2>2. \A these : ~Has(inbox, these)
    BY <2>1, NothingHas
  <2>3. view.holder = holder /\ view.drive = driveState
    BY <2>1, <2>2 DEF KnowsInv, Informed
  <2>4. view \in [drive : DriveStates, holder : Controllers \cup {Nobody}]
    BY <2>1 DEF KnowsInv, ViewTyped
  <2> QED
    BY <2>3, <2>4
<1> QED
  BY <1>1, <1>2, <1>3, PTL DEF CliSpec

----------------------------------------------------------------------------
(* The command line client: what its inputs show of the active set.        *)

Row(s) == (s \div Width) + 1

\* What a list of commands holds for an input.
At(commands, s) == commands[Row(s)][FieldOf(s)]

\* The notes that write an input, what they write, and those that write something
\* that is not so.
Writing(s) ==
  {n \in Note :
     \/ n.type = "updated" /\ n.index = s \div Width /\ n.fields[FieldOf(s)] # Keep
     \/ n.type = "command_set" /\ Row(s) \in DOMAIN n.commands}

Written(n, s) ==
  IF n.type = "updated" THEN n.fields[FieldOf(s)] ELSE At(n.commands, s)

Stale(s, commands) ==
  {n \in Writing(s) : Row(s) \in DOMAIN commands => Written(n, s) # At(commands, s)}

Replacements == {n \in Note : n.type = "replaced"}
Grants == {n \in Note : n.type = "write_access_result" /\ n.granted}

\* The letters that the client writes, and where those are that the core has not
\* handled.
Edit(s, x) ==
  [type |-> "update_command", index |-> s \div Width,
   fields |-> [f \in Fields |-> IF f = FieldOf(s) THEN x ELSE Keep]]

Installs ==
  {m \in ClientMessage : /\ m.type = "upsert_command_set"
                         /\ m.set = Active
                         /\ m.base_version = AnyVersion
                         /\ Len(m.commands) = 2}

Own ==
  {m \in ClientMessage : /\ m.type # "delete_command_set"
                         /\ m.type = "get_command_set" => m.set = Active
                         /\ m.type = "upsert_command_set" => m \in Installs}

Posts(letters) ==
  {[kind |-> "message", from |-> Cli, msg |-> m] : m \in letters}

Said(o, q, letters) == Has(o, letters) \/ Has(q, Posts(letters))

LEMMA PostIs ==
  ASSUME NEW letters, NEW p \in Posts(letters)
  PROVE  p.kind = "message" /\ p.from = Cli /\ p.msg \in letters
<1>1. PICK m \in letters : p = [kind |-> "message", from |-> Cli, msg |-> m]
  BY DEF Posts
<1> QED
  BY <1>1

\* An input is in one of two rows.
LEMMA RowTyped ==
  ASSUME NEW s \in Slots
  PROVE  /\ Row(s) \in {1, 2} /\ s \div Width = Row(s) - 1
         /\ \A commands \in Seq(Command) : Len(commands) = 2 => Row(s) \in DOMAIN commands
<1>1. s \in Nat /\ s < 2 * Width /\ Width \in Nat \ {0}
  BY WidthType DEF Slots
<1>2. \A w \in Nat \ {0}, k \in Nat : k < 2 * w => k \div w \in {0, 1}
  <2> SUFFICES ASSUME NEW w \in Nat \ {0}, NEW k \in Nat, k < 2 * w
               PROVE  k \div w \in {0, 1}
    OBVIOUS
  <2>1. CASE k < w
    <3>1. k \in 0..(w - 1)
      BY <2>1
    <3> QED
      BY <3>1, RowOf
  <2>2. CASE k >= w
    <3>1. k - w \in 0..(w - 1) /\ w + (k - w) = k
      BY <2>2
    <3>2. (w + (k - w)) \div w = 1
      BY <3>1, RowOf
    <3> QED
      BY <3>1, <3>2
  <2> QED
    BY <2>1, <2>2
<1>3. s \div Width \in {0, 1}
  BY <1>1, <1>2
<1>4. Row(s) \in {1, 2} /\ s \div Width = Row(s) - 1
  BY <1>3 DEF Row
<1>5. \A commands \in Seq(Command) : Len(commands) = 2 => DOMAIN commands = {1, 2}
  BY LenProperties
<1> QED
  BY <1>4, <1>5

\* Notes of other kinds write nothing.
LEMMA WritesNothing ==
  ASSUME NEW s, NEW n, n.type \notin {"updated", "command_set"}
  PROVE  n \notin Writing(s) /\ \A commands : n \notin Stale(s, commands)
BY DEF Writing, Stale

\* The queue and the core: what the client posted stays there until it is handled.
LEMMA CoreTakes ==
  ASSUME TypeOK, CoreStep
  PROVE  \/ queue' = queue
         \/ /\ queue # <<>> /\ queue' = Tail(queue)
            /\ Head(queue).kind = "message" =>
                 HandleMessage /\ Sender = Head(queue).from /\ Request = Head(queue).msg
<1>1. CASE HandleEvent
  BY <1>1 DEF HandleEvent, HandleConnected, HandleDisconnected, HandleDriveState,
              HandleHidReport, Receives
<1>2. CASE HandleMessage
  <2>1. \E type : Handles(type)
    BY <1>2 DEF HandleMessage, RequestWriteAccess, ReleaseWriteAccess, GetState,
       GetCommandSet, ListSavedSets, UpsertActive, UpsertSaved, UpdateCommand,
       DeleteActive, DeleteSaved, SetDrivePower, SetMotionState, AcknowledgeError
  <2> QED
    BY <1>2, <2>1 DEF Handles, MessageReady, Sender, Request
<1> QED
  BY <1>1, <1>2 DEF CoreStep

LEMMA CoreHears ==
  ASSUME TypeOK, CoreStep, NEW letters, Has(queue, Posts(letters))
  PROVE  \/ Has(queue', Posts(letters))
         \/ HandleMessage /\ Sender = Cli /\ Request \in letters
<1>1. queue \in Seq(Event)
  BY DEF TypeOK
<1>2. CASE queue' = queue
  BY <1>2
<1>3. CASE /\ queue # <<>> /\ queue' = Tail(queue)
           /\ Head(queue).kind = "message" =>
                HandleMessage /\ Sender = Head(queue).from /\ Request = Head(queue).msg
  <2>1. Head(queue) \in Posts(letters) \/ Has(queue', Posts(letters))
    BY <1>1, <1>3, TailHas
  <2>2. Head(queue) \in Posts(letters) =>
          /\ Head(queue).kind = "message"
          /\ Head(queue).from = Cli
          /\ Head(queue).msg \in letters
    BY PostIs
  <2> QED
    BY <1>3, <2>1, <2>2
<1> QED
  BY <1>2, <1>3, CoreTakes

\* What the client says is its own. Nobody else sets it up to delete the active set.
Speaks ==
  /\ outbox \in Seq(Own \cup {Hangup})
  /\ \A i \in DOMAIN queue :
       (queue[i].kind = "message" /\ queue[i].from = Cli) => queue[i].msg \in Own

LEMMA CliAsksOwn ==
  ASSUME TypeOK, Speaks, HandleMessage, Sender = Cli
  PROVE  Request \in Own
<1>1. MessageReady
  BY DEF HandleMessage, RequestWriteAccess, ReleaseWriteAccess, GetState,
       GetCommandSet, ListSavedSets, UpsertActive, UpsertSaved, UpdateCommand,
       DeleteActive, DeleteSaved, SetDrivePower, SetMotionState, AcknowledgeError, Handles
<1>2. work = <<>>
  BY CliIsController DEF Sender
<1>3. /\ queue # <<>> /\ Head(queue).kind = "message" /\ Head(queue).from = Cli
      /\ Request = Head(queue).msg
  BY <1>1, <1>2 DEF MessageReady, Sender, Request
<1>4. 1 \in DOMAIN queue /\ Head(queue) = queue[1]
  BY <1>3, HeadTailProperties, LenProperties DEF TypeOK
<1> QED
  BY <1>3, <1>4 DEF Speaks

LEMMA TailSpeaks ==
  ASSUME TypeOK, Speaks, queue # <<>>, queue' = Tail(queue), outbox' = outbox
  PROVE  Speaks'
<1>1. /\ DOMAIN queue = 1..Len(queue) /\ Len(queue) \in Nat
      /\ DOMAIN queue' = 1..(Len(queue) - 1)
      /\ \A i \in DOMAIN queue' : queue'[i] = queue[i + 1]
  BY HeadTailProperties, LenProperties DEF TypeOK
<1>2. \A i \in DOMAIN queue' : i + 1 \in DOMAIN queue
  BY <1>1
<1> QED
  BY <1>1, <1>2 DEF Speaks

LEMMA AppendSpeaks ==
  ASSUME TypeOK, Speaks, NEW e \in Event, queue' = Append(queue, e),
         (e.kind = "message" /\ e.from = Cli) => e.msg \in Own,
         outbox' \in Seq(Own \cup {Hangup})
  PROVE  Speaks'
<1>1. /\ DOMAIN queue = 1..Len(queue) /\ Len(queue) \in Nat
      /\ DOMAIN queue' = 1..(Len(queue) + 1)
      /\ \A i \in DOMAIN queue : queue'[i] = queue[i]
      /\ queue'[Len(queue) + 1] = e
  BY AppendProperties, LenProperties DEF TypeOK
<1>2. \A i \in DOMAIN queue' : i \in DOMAIN queue \/ i = Len(queue) + 1
  BY <1>1
<1> QED
  BY <1>1, <1>2 DEF Speaks

\* The slot holds what it held.
Keeps(s) ==
  /\ Row(s) \in DOMAIN active'.commands <=> Row(s) \in DOMAIN active.commands
  /\ Row(s) \in DOMAIN active.commands =>
       At(active'.commands, s) = At(active.commands, s)

LEMMA KeepsStale ==
  ASSUME NEW s, Keeps(s)
  PROVE  Stale(s, active'.commands) = Stale(s, active.commands)
BY DEF Keeps, Stale

\* A step of the core that changes what an input shows says so, and what it says is
\* so.
LEMMA CoreWrites ==
  ASSUME TypeOK, Speaks, CoreStep, NEW s \in Slots
  PROVE  /\ \A n \in Heard : n \notin Stale(s, active'.commands)
         /\ Keeps(s) \/ \E n \in Heard : n \in Writing(s) \cup Replacements
<1>1. Heard \subseteq Note
  BY HeardIsNote
<1>2. Tells
  BY MessageTells, EventTells DEF CoreStep
<1>3. CASE active' = active /\ \A n \in Heard : n.type \notin {"updated", "command_set"}
  BY <1>3, WritesNothing DEF Keeps
<1>4. CASE SaysNothing \/ SaysState \/ SaysNobody \/ SaysGranted \/ SaysDenied
  BY <1>3, <1>4
  DEF SaysNothing, SaysState, SaysNobody, SaysGranted, SaysDenied, WriteAccessResult
<1>5. CASE SaysReplaced
  <2>1. Heard = {[type |-> "replaced"]}
    BY <1>5 DEF SaysReplaced
  <2>2. [type |-> "replaced"] \in Replacements
    BY <1>1, <2>1 DEF Replacements
  <2>3. \A n \in Heard : n.type \notin {"updated", "command_set"}
    BY <2>1
  <2>4. \A n \in Heard : n \notin Stale(s, active'.commands)
    BY <2>3, WritesNothing
  <2> QED
    BY <2>1, <2>2, <2>4
<1>6. CASE SaysUpdated
  <2> DEFINE i == Request.index + 1
             n == [type |-> "updated", index |-> Request.index, fields |-> Request.fields]
             f == FieldOf(s)
             fields == Request.fields
             new == ApplyFields(active.commands[i], fields)
  <2>1. /\ Heard = {n} /\ i \in DOMAIN active.commands
        /\ active'.commands = [active.commands EXCEPT ![i] = new]
    BY <1>6 DEF SaysUpdated
  <2>2. /\ n \in Note /\ n.type = "updated" /\ n.index = Request.index /\ n.fields = fields
        /\ Request.index \in Nat /\ i = n.index + 1
    BY <1>1, <2>1 DEF Note
  <2>3. f \in Fields
    BY SlotTyped
  <2>4. new[f] = IF fields[f] = Keep THEN active.commands[i][f] ELSE fields[f]
    BY <2>3 DEF ApplyFields
  <2>5. DOMAIN active'.commands = DOMAIN active.commands
    BY <2>1
  <2>6. active'.commands[i] = new
        /\ \A j \in DOMAIN active.commands : j # i => active'.commands[j] = active.commands[j]
    BY <2>1
  <2>7. s \div Width = n.index <=> Row(s) = i
    <3>1. s \div Width \in Int
      BY SlotTyped
    <3> QED
      BY <2>2, <3>1 DEF Row
  <2> HIDE DEF i, n, f, fields, new
  <2>8. CASE Row(s) = i /\ fields[f] # Keep
    <3>1. n \in Writing(s)
      BY <2>2, <2>7, <2>8 DEF Writing, f
    <3>2. Written(n, s) = At(active'.commands, s) /\ Row(s) \in DOMAIN active'.commands
      BY <2>1, <2>2, <2>4, <2>5, <2>6, <2>8 DEF Written, At, f
    <3>3. n \notin Stale(s, active'.commands)
      BY <3>2 DEF Stale
    <3> QED
      BY <2>1, <3>1, <3>3
  <2>9. CASE ~(Row(s) = i /\ fields[f] # Keep)
    <3>1. n \notin Writing(s)
      BY <2>2, <2>7, <2>9 DEF Writing, f
    <3>2. Keeps(s)
      BY <2>4, <2>5, <2>6, <2>9 DEF Keeps, At, f
    <3> QED
      BY <2>1, <3>1, <3>2 DEF Stale
  <2> QED
    BY <2>8, <2>9
<1>7. CASE HandleMessage /\ SaysSet
  <2>1. PICK cs : /\ Heard = {[type |-> "command_set", commands |-> cs]}
                  /\ Request.set = Active => cs = active.commands
    BY <1>7 DEF SaysSet
  <2>2. Request.set = Active
    BY <1>7, CliAsksOwn DEF SaysSet, Own
  <2>3. active' = active /\ cs = active.commands
    BY <1>7, <2>1, <2>2 DEF SaysSet
  <2> DEFINE n == [type |-> "command_set", commands |-> cs]
  <2>4. Written(n, s) = At(active'.commands, s)
    BY <2>3 DEF Written
  <2>7. n \in Writing(s) => Row(s) \in DOMAIN active'.commands
    BY <2>3 DEF Writing
  <2> HIDE DEF n
  <2>5. n \notin Stale(s, active'.commands)
    BY <2>4, <2>7 DEF Stale
  <2>6. Keeps(s)
    BY <2>3 DEF Keeps
  <2> QED
    BY <2>1, <2>5, <2>6 DEF n
<1> QED
  BY <1>2, <1>4, <1>5, <1>6, <1>7 DEF Tells

\* The letters of the client that holds write access.
LEMMA InstallIsMade ==
  ASSUME TypeOK, HandleMessage, Sender = Cli, holder = Cli, Request \in Installs
  PROVE  /\ Len(active'.commands) = 2
         /\ \E n \in Heard : n \in Replacements
<1>1. /\ Request.type = "upsert_command_set" /\ Request.set = Active
      /\ Request.base_version = AnyVersion /\ Len(Request.commands) = 2
  BY DEF Installs
<1>2. UpsertActive
  BY <1>1 DEF HandleMessage, Handles, RequestWriteAccess, ReleaseWriteAccess, GetState,
       GetCommandSet, ListSavedSets, UpsertSaved, UpdateCommand,
       DeleteActive, DeleteSaved, SetDrivePower, SetMotionState, AcknowledgeError
<1>3. IsWriter /\ BaseVersionMatches(active.version)
  BY <1>1 DEF IsWriter, BaseVersionMatches
<1>4. /\ SetActiveCommands(Request.commands)
      /\ Announce(CommandSetChanged(active.version + 1, "all"),
                  CommandResult(TRUE, active.version + 1))
  BY <1>2, <1>3 DEF UpsertActive, ReplaceActive, Refuse
<1>5. active'.commands = Request.commands
  BY <1>4 DEF SetActiveCommands
<1>6. Heard = ToCli(Everyone, CommandSetChanged(active.version + 1, "all"))
                \cup ToCli(Sender, CommandResult(TRUE, active.version + 1))
  BY <1>4, CliIsController, AnnounceHeard
<1>7. [type |-> "replaced"] \in Heard
  BY <1>6, ContentsOf DEF ToCli
<1>8. [type |-> "replaced"] \in Replacements
  BY DEF Replacements, Note
<1> QED
  BY <1>1, <1>5, <1>7, <1>8

LEMMA FetchIsAnswered ==
  ASSUME TypeOK, HandleMessage, Sender = Cli, Request = Fetch, NEW s \in Slots,
         Row(s) \in DOMAIN active.commands
  PROVE  \E n \in Heard : n \in Writing(s)
<1>1. Request.type = "get_command_set" /\ Request.set = Active
  BY DEF Fetch
<1>2. GetCommandSet
  BY <1>1 DEF HandleMessage, Handles, RequestWriteAccess, ReleaseWriteAccess, GetState,
       UpsertActive, ListSavedSets, UpsertSaved, UpdateCommand,
       DeleteActive, DeleteSaved, SetDrivePower, SetMotionState, AcknowledgeError
<1> DEFINE body == [type |-> "command_set", version |-> active.version,
                    commands |-> active.commands]
           n == [type |-> "command_set", commands |-> active.commands]
<1>3. Reply(body)
  BY <1>1, <1>2 DEF GetCommandSet, Decline
<1>4. body.type \in Heeded /\ Contents(body) = n
  BY ContentsOf
<1> HIDE DEF body
<1>5. Heard = {n}
  BY <1>3, <1>4, ReplyHeard DEF ToCli
<1>6. n \in Note
  BY DEF Note, TypeOK, CommandSet
<1>7. n \in Writing(s)
  BY <1>6 DEF Writing
<1> QED
  BY <1>5, <1>7

LEMMA EditIsMade ==
  ASSUME TypeOK, HandleMessage, Sender = Cli, holder = Cli, NEW s \in Slots,
         NEW x \in Int, Request = Edit(s, x), Row(s) \in DOMAIN active.commands
  PROVE  \/ \E n \in Heard : n \in Writing(s)
         \/ active' = active /\ At(active.commands, s) = x
<1> DEFINE f == FieldOf(s)
           i == Request.index + 1
           new == ApplyFields(active.commands[i], Request.fields)
<1>1. /\ Request.type = "update_command" /\ Request.index = s \div Width /\ i = Row(s)
      /\ Request.fields = [g \in Fields |-> IF g = FieldOf(s) THEN x ELSE Keep]
  BY DEF Edit, Row
<1>2. UpdateCommand
  BY <1>1 DEF HandleMessage, Handles, RequestWriteAccess, ReleaseWriteAccess, GetState,
       GetCommandSet, UpsertActive, ListSavedSets, UpsertSaved,
       DeleteActive, DeleteSaved, SetDrivePower, SetMotionState, AcknowledgeError
<1>3. f \in Fields /\ x # Keep /\ Request.fields[f] = x
  BY <1>1, SlotTyped, LimitAssumption
<1>4. CASE new = active.commands[i]
  <2>1. UNCHANGED coreVars
    BY <1>1, <1>2, <1>4 DEF UpdateCommand, Decline, Refuse, IsWriter
  <2>2. new[f] = x
    BY <1>3 DEF ApplyFields
  <2> QED
    BY <1>1, <1>4, <2>1, <2>2 DEF At, coreVars
<1>5. CASE new # active.commands[i]
  <2> DEFINE n == [type |-> "updated", index |-> Request.index, fields |-> Request.fields]
  <2>1. Announce(CommandSetChanged(active.version + 1, "one"),
                 CommandResult(TRUE, active.version + 1))
    BY <1>1, <1>2, <1>5 DEF UpdateCommand, Decline, Refuse, IsWriter
  <2>2. Heard = ToCli(Everyone, CommandSetChanged(active.version + 1, "one"))
                  \cup ToCli(Sender, CommandResult(TRUE, active.version + 1))
    BY <2>1, CliIsController, AnnounceHeard
  <2>3. n \in Heard
    BY <2>2, ContentsOf DEF ToCli
  <2>4. Request.index \in Nat /\ Request.fields \in FieldUpdate
    BY <1>1, SlotTyped DEF FieldUpdate
  <2>5. n \in Note
    BY <2>4 DEF Note
  <2>6. n \in Writing(s)
    BY <1>1, <1>3, <2>5 DEF Writing
  <2> QED
    BY <2>3, <2>6
<1> QED
  BY <1>4, <1>5

\* While the client holds write access and keeps it, nobody shortens the active set.
LEMMA CoreKeepsTwo ==
  ASSUME TypeOK, Speaks, CoreStep, holder = Cli, Len(active.commands) = 2
  PROVE  Len(active'.commands) = 2
<1>1. Tells
  BY MessageTells, EventTells DEF CoreStep
<1>2. CASE active' = active
  BY <1>2
<1>3. CASE HandleMessage /\ SaysReplaced
  <2>1. Sender = Cli
    BY <1>3 DEF SaysReplaced
  <2>2. Request \in Own
    BY <1>3, <2>1, CliAsksOwn
  <2> QED
    BY <1>3, <2>2 DEF SaysReplaced, Own, Installs
<1>4. CASE SaysUpdated
  <2>1. DOMAIN active'.commands = DOMAIN active.commands
    BY <1>4 DEF SaysUpdated
  <2>2. active.commands \in Seq(Command) /\ active'.commands \in Seq(Command)
    <3>1. TypeOK'
      BY StepTyped DEF Next
    <3> QED
      BY <3>1 DEF TypeOK, CommandSet
  <2> QED
    BY <2>1, <2>2, LenProperties
<1> QED
  BY <1>1, <1>2, <1>3, <1>4
  DEF Tells, SaysNothing, SaysState, SaysNobody, SaysGranted, SaysDenied, SaysSet

Writer == Reachable /\ holder = Cli

\* The dialog is opened by a client that has been greeted.
DialogSeen == dialog # NoDialog => view # NoView

\* A note that would write an input wrongly is corrected by what follows.
NotesAreCurrent ==
  Reachable =>
    \A s \in Slots :
      Followed(inbox, Stale(s, active.commands), Writing(s) \cup Replacements)

\* A grant makes the client install its inputs, and once it has it reads the active
\* set anew.
Installing == Has(inbox, Grants) \/ Said(outbox, queue, Installs)

Refreshing ==
  \/ Installing
  \/ Has(inbox, Replacements)
  \/ Said(outbox, queue, {Fetch})

Shown(s) == inputs[s] = At(active.commands, s)

\* Something under way makes the input and the active set agree.
Settling(s) ==
  Has(inbox, Writing(s)) \/ Said(outbox, queue, {Edit(s, inputs[s])})

\* A client that holds write access without knowing is about to learn it by a grant.
WriterKnows ==
  Writer =>
    /\ Followed(inbox, OtherHolder(Cli), Grants)
    /\ view # NoView /\ view.holder # Cli => Has(inbox, Grants)

WriterInstalls == Writer => Installing \/ Len(active.commands) = 2

WriterShows ==
  Writer => Refreshing \/ \A s \in Slots : Shown(s) \/ Settling(s)

ShowsInv ==
  /\ EndsAreFinal
  /\ Speaks
  /\ DialogSeen
  /\ NotesAreCurrent
  /\ WriterKnows
  /\ WriterInstalls
  /\ WriterShows

\* Write access comes with a grant.
LEMMA GrantIsHeard ==
  ASSUME TypeOK, CoreStep, holder' = Cli, holder # Cli
  PROVE  \E n \in Heard : n \in Grants
<1>1. Heard \subseteq Note
  BY HeardIsNote
<1>2. Tells
  BY MessageTells, EventTells DEF CoreStep
<1>3. SaysGranted
  BY <1>2, CliIsController
  DEF Tells, SaysNothing, SaysState, SaysNobody, SaysDenied, SaysReplaced, SaysUpdated, SaysSet
<1>4. WriteAccessResult(TRUE, holder') \in Heard
  BY <1>3 DEF SaysGranted
<1>5. WriteAccessResult(TRUE, holder') \in Grants
  BY <1>1, <1>4 DEF WriteAccessResult, Grants
<1> QED
  BY <1>4, <1>5

\* What the client posted stays posted or is handled.
LEMMA CoreSaid ==
  ASSUME CliInv, CoreAdvances, NEW letters, Said(outbox, queue, letters)
  PROVE  \/ Said(outbox', queue', letters)
         \/ HandleMessage /\ Sender = Cli /\ Request \in letters
<1>1. outbox' = outbox /\ CoreStep /\ TypeOK
  BY DEF CoreAdvances, CliInv
<1> QED
  BY <1>1, CoreHears DEF Said

LEMMA CoreSpeaks ==
  ASSUME TypeOK, Speaks, CoreStep, outbox' = outbox
  PROVE  Speaks'
<1>1. CASE queue' = queue
  BY <1>1 DEF Speaks
<1>2. CASE queue # <<>> /\ queue' = Tail(queue)
  BY <1>2, TailSpeaks
<1> QED
  BY <1>1, <1>2, CoreTakes

\* The core's steps, as the holder of write access finds them.
LEMMA CoreInstalls ==
  ASSUME CliInv, ShowsInv, CoreAdvances, Writer, holder' = Cli
  PROVE  /\ Installing' \/ Len(active'.commands) = 2
         /\ Installing => Refreshing'
<1>1. /\ Has(inbox, Grants) => Has(inbox', Grants)
      /\ (\E n \in Heard : n \in Replacements) => Has(inbox', Replacements)
  BY CliFinds DEF Writer
<1>2. CASE Has(inbox, Grants)
  BY <1>1, <1>2 DEF Installing, Refreshing
<1>3. CASE Said(outbox, queue, Installs)
  <2>1. CASE Said(outbox', queue', Installs)
    BY <2>1 DEF Installing, Refreshing
  <2>2. CASE HandleMessage /\ Sender = Cli /\ Request \in Installs
    <3>1. /\ Len(active'.commands) = 2
          /\ \E n \in Heard : n \in Replacements
      BY <2>2, InstallIsMade DEF CliInv, Writer
    <3> QED
      BY <1>1, <3>1 DEF Refreshing
  <2> QED
    BY <1>3, <2>1, <2>2, CoreSaid
<1>4. CASE ~Installing
  <2>1. Len(active.commands) = 2
    BY <1>4 DEF ShowsInv, WriterInstalls
  <2>2. Len(active'.commands) = 2
    BY <2>1, CoreKeepsTwo DEF CliInv, ShowsInv, CoreAdvances, Writer
  <2> QED
    BY <1>4, <2>2
<1> QED
  BY <1>2, <1>3, <1>4 DEF Installing

LEMMA CoreRefreshes ==
  ASSUME CliInv, ShowsInv, CoreAdvances, Writer, holder' = Cli, ~Installing
  PROVE  Refreshing' \/ \A s \in Slots : Shown(s)' \/ Settling(s)'
<1> SUFFICES ASSUME NEW s \in Slots, ~Refreshing'
             PROVE  Shown(s)' \/ Settling(s)'
  OBVIOUS
<1>1. /\ Has(inbox, Replacements) \/ (\E n \in Heard : n \in Replacements)
           => Has(inbox', Replacements)
      /\ Has(inbox, Writing(s)) \/ (\E n \in Heard : n \in Writing(s))
           => Has(inbox', Writing(s))
  <2>1. Reachable
    BY DEF Writer
  <2> QED
    BY <2>1, CliFinds
<1>2. ~Has(inbox', Replacements) /\ ~Said(outbox', queue', {Fetch})
  BY DEF Refreshing
<1>3. inputs' = inputs
  BY DEF CoreAdvances, uiVars
<1>4. Has(inbox', Writing(s)) => Settling(s)'
  BY DEF Settling, Writing, Note, Row
<1>5. Row(s) \in DOMAIN active.commands
  <2>1. Len(active.commands) = 2
    BY DEF ShowsInv, WriterInstalls
  <2>2. active.commands \in Seq(Command)
    BY DEF CliInv, TypeOK, CommandSet
  <2> QED
    BY <2>1, <2>2, RowTyped
<1>6. CASE Said(outbox, queue, {Fetch})
  <2>1. HandleMessage /\ Sender = Cli /\ Request = Fetch
    BY <1>2, <1>6, CoreSaid
  <2>2. \E n \in Heard : n \in Writing(s)
    BY <1>5, <2>1, FetchIsAnswered DEF CliInv
  <2> QED
    BY <1>1, <1>4, <2>2
<1>7. CASE Has(inbox, Writing(s))
  BY <1>1, <1>4, <1>7
<1>8. CASE Said(outbox, queue, {Edit(s, inputs[s])})
  <2>1. CASE Said(outbox', queue', {Edit(s, inputs[s])})
    BY <1>3, <2>1 DEF Settling
  <2>2. CASE HandleMessage /\ Sender = Cli /\ Request = Edit(s, inputs[s])
    <3>1. inputs[s] \in Int
      BY DEF CliInv, ClientTyped, Values
    <3>2. \/ \E n \in Heard : n \in Writing(s)
          \/ active' = active /\ At(active.commands, s) = inputs[s]
      BY <1>5, <2>2, <3>1, EditIsMade DEF CliInv, Writer
    <3>3. CASE active' = active /\ At(active.commands, s) = inputs[s]
      BY <1>3, <3>3 DEF Shown, At, Row
    <3> QED
      BY <1>1, <1>4, <3>2, <3>3
  <2> QED
    BY <1>8, <2>1, <2>2, CoreSaid
<1>9. CASE Shown(s)
  <2>1. Keeps(s) \/ \E n \in Heard : n \in Writing(s) \cup Replacements
    BY CoreWrites DEF CliInv, ShowsInv, CoreAdvances
  <2>2. CASE Keeps(s)
    BY <1>3, <1>5, <1>9, <2>2 DEF Keeps, Shown, At, Row
  <2> QED
    BY <1>1, <1>2, <1>4, <2>1, <2>2
<1>10. \/ Said(outbox, queue, {Fetch}) \/ Has(inbox, Replacements)
       \/ Shown(s) \/ Settling(s)
  BY DEF ShowsInv, WriterShows, Refreshing
<1> QED
  BY <1>1, <1>2, <1>6, <1>7, <1>8, <1>9, <1>10 DEF Settling

\* Nothing of it is claimed of a client that has ended or was left.
LEMMA PartedShows ==
  ASSUME ~Reachable', EndsAreFinal', Speaks', DialogSeen'
  PROVE  ShowsInv'
BY DEF ShowsInv, NotesAreCurrent, WriterKnows, WriterInstalls, WriterShows, Writer

LEMMA CoreShows ==
  ASSUME CliInv, ShowsInv, CoreAdvances
  PROVE  ShowsInv'
<1>1. CoreStep /\ TypeOK /\ UNCHANGED <<inputs, view, dialog, running, outbox, session>>
  BY CoreKeepsSessions DEF CliInv, CoreAdvances, uiVars
<1>2. EndsAreFinal'
  BY <1>1, EndsStep DEF ShowsInv, Next
<1>3. Speaks' /\ DialogSeen'
  BY <1>1, CoreSpeaks DEF ShowsInv, DialogSeen
<1>4. CASE ~Reachable
  BY <1>1, <1>2, <1>3, <1>4, PartedShows DEF Reachable
<1>5. CASE Reachable
  <2>1. NotesAreCurrent'
    <3> SUFFICES ASSUME NEW s \in Slots
                 PROVE  Followed(inbox', Stale(s, active'.commands), Writing(s) \cup Replacements)
      BY DEF NotesAreCurrent, Slots, Width, Writing, Replacements, Stale, Note, Row, At,
             Written, FieldOf
    <3>1. /\ \A n \in Heard : n \notin Stale(s, active'.commands)
          /\ Keeps(s) \/ \E n \in Heard : n \in Writing(s) \cup Replacements
      BY <1>1, CoreWrites DEF ShowsInv
    <3>2. Keeps(s) => Stale(s, active'.commands) = Stale(s, active.commands)
      BY KeepsStale
    <3>3. Followed(inbox, Stale(s, active.commands), Writing(s) \cup Replacements)
      BY <1>5 DEF ShowsInv, NotesAreCurrent
    <3> HIDE DEF Keeps
    <3>4. \/ Followed(inbox, Stale(s, active'.commands), Writing(s) \cup Replacements)
          \/ \E n \in Heard : n \in Writing(s) \cup Replacements
      BY <3>1, <3>2, <3>3
    <3> QED
      BY <1>5, <3>1, <3>4, CliFinds
  <2>2. CASE holder' # Cli
    BY <1>2, <1>3, <2>1, <2>2 DEF ShowsInv, WriterKnows, WriterInstalls, WriterShows, Writer
  <2>3. CASE holder' = Cli
    <3>1. \A n \in Heard : n \notin OtherHolder(Cli)
      BY <1>1, <2>3, HeardIsCurrent
    <3>2. holder # Cli => \E n \in Heard : n \in Grants
      BY <1>1, <2>3, GrantIsHeard
    <3>3. /\ (\E n \in Heard : n \in Grants) => Has(inbox', Grants)
          /\ Has(inbox, Grants) => Has(inbox', Grants)
          /\ Followed(inbox, OtherHolder(Cli), Grants) \/ (\E n \in Heard : n \in Grants)
               => Followed(inbox', OtherHolder(Cli), Grants)
      BY <1>5, <3>1, CliFinds
    <3>4. CASE holder # Cli
      <4>1. Has(inbox', Grants) /\ Followed(inbox', OtherHolder(Cli), Grants)
        BY <3>2, <3>3, <3>4
      <4>2. Installing' /\ Refreshing'
        BY <4>1 DEF Installing, Refreshing, Grants, Note
      <4>3. WriterKnows'
        BY <4>1 DEF WriterKnows, Grants, Note, OtherHolder, HolderNotes
      <4> QED
        BY <1>2, <1>3, <2>1, <4>2, <4>3 DEF ShowsInv, WriterInstalls, WriterShows
    <3>5. CASE holder = Cli
      <4>1. Writer
        BY <1>5, <3>5 DEF Writer
      <4>2. WriterKnows'
        BY <1>1, <3>3, <4>1 DEF ShowsInv, WriterKnows, Grants, Note, OtherHolder, HolderNotes
      <4>3. WriterInstalls'
        BY <2>3, <4>1, CoreInstalls DEF WriterInstalls
      <4>4. WriterShows'
        <5>1. CASE Installing
          BY <2>3, <4>1, <5>1, CoreInstalls DEF WriterShows
        <5>2. CASE ~Installing
          BY <2>3, <4>1, <5>2, CoreRefreshes DEF WriterShows, Slots, Width
        <5> QED
          BY <5>1, <5>2
      <4> QED
        BY <1>2, <1>3, <2>1, <4>2, <4>3, <4>4 DEF ShowsInv
    <3> QED
      BY <3>4, <3>5
  <2> QED
    BY <2>2, <2>3
<1> QED
  BY <1>4, <1>5

\* The letters of the client.
LEMMA OwnLetters ==
  /\ Fetch \in Own
  /\ [type |-> "request_write_access"] \in Own
  /\ [type |-> "acknowledge_error"] \in Own
  /\ \A e \in BOOLEAN : [type |-> "set_drive_power", enabled |-> e] \in Own
  /\ \A a \in MotionActions : [type |-> "set_motion_state", action |-> a] \in Own
  /\ \A values \in Values : Install(values) \in Installs /\ Install(values) \in Own
  /\ \A values \in Values : \A s \in Slots :
       Change(values, s) = Edit(s, values[s]) /\ Change(values, s) \in Own
<1>1. \A values \in Values : Install(values) \in Installs
  <2> SUFFICES ASSUME NEW values \in Values PROVE Install(values) \in Installs
    OBVIOUS
  <2>1. /\ Install(values).type = "upsert_command_set" /\ Install(values).set = Active
        /\ Install(values).base_version = AnyVersion
        /\ Len(Install(values).commands) = 2
    BY DEF Install
  <2> QED
    BY <2>1, InstallTyped DEF Installs
<1>2. \A values \in Values : Install(values) \in Own
  <2> SUFFICES ASSUME NEW m \in Installs PROVE m \in Own
    BY <1>1
  <2> QED
    BY DEF Installs, Own
<1>3. \A values, s : Change(values, s) = Edit(s, values[s])
  BY DEF Change, Edit
<1>4. \A values \in Values : \A s \in Slots : Change(values, s) \in Own
  <2> SUFFICES ASSUME NEW values \in Values, NEW s \in Slots PROVE Change(values, s) \in Own
    OBVIOUS
  <2>1. Change(values, s).type = "update_command"
    BY DEF Change
  <2> QED
    BY <2>1, ChangeTyped DEF Own
<1>5. /\ Fetch \in Own
      /\ [type |-> "request_write_access"] \in Own
      /\ [type |-> "acknowledge_error"] \in Own
      /\ \A e \in BOOLEAN : [type |-> "set_drive_power", enabled |-> e] \in Own
      /\ \A a \in MotionActions : [type |-> "set_motion_state", action |-> a] \in Own
  BY AsksTyped DEF Own, Fetch
<1> QED
  BY <1>1, <1>2, <1>3, <1>4, <1>5

\* What is sent of it joins what was said.
LEMMA Sending ==
  ASSUME CliInv, Speaks, NEW messages \in Seq(Own \cup {Hangup}), Send(messages),
         queue' = queue
  PROVE  /\ Speaks'
         /\ \A letters :
              /\ Said(outbox, queue, letters) => Said(outbox', queue', letters)
              /\ Reachable /\ Has(messages, letters) => Said(outbox', queue', letters)
<1>1. outbox \in Seq(Own \cup {Hangup})
  BY DEF Speaks
<1>2. CASE session[Cli] = "closed"
  <2>1. outbox' = outbox /\ ~Reachable
    BY <1>2 DEF Send, Reachable
  <2> QED
    BY <2>1 DEF Speaks
<1>3. CASE session[Cli] # "closed"
  <2>1. outbox' = outbox \o messages
    BY <1>3 DEF Send
  <2>2. outbox' \in Seq(Own \cup {Hangup})
    BY <1>1, <2>1, ConcatProperties
  <2>3. ASSUME NEW letters, Has(outbox, letters) \/ Has(messages, letters)
        PROVE  Has(outbox', letters)
    BY <1>1, <2>1, <2>3, MoreHas
  <2>4. Speaks'
    BY <2>2 DEF Speaks
  <2> QED
    BY <2>3, <2>4 DEF Said
<1> QED
  BY <1>2, <1>3

LEMMA Asking ==
  ASSUME CliInv, Speaks, NEW m \in Own \cup {Hangup}, Asks(m), queue' = queue
  PROVE  /\ Speaks'
         /\ \A letters :
              /\ Said(outbox, queue, letters) => Said(outbox', queue', letters)
              /\ Reachable /\ m \in letters => Said(outbox', queue', letters)
<1>1. <<m>> \in Seq(Own \cup {Hangup})
  OBVIOUS
<1>2. Send(<<m>>)
  BY DEF Asks
<1>3. \A letters : m \in letters => Has(<<m>>, letters)
  BY DEF Has
<1> QED
  BY <1>1, <1>2, <1>3, Sending

\* What the client does with a note.
LEMMA TakingNote ==
  ASSUME CliInv, Speaks, HandleCoreMessage
  PROVE  /\ inbox # <<>> /\ Head(inbox) \in Note /\ inbox' = Tail(inbox)
         /\ UNCHANGED <<vars, dialog, running>>
         /\ Speaks'
         /\ \A letters : Said(outbox, queue, letters) => Said(outbox', queue', letters)
         /\ Reachable /\ Head(inbox) \in Grants => Said(outbox', queue', Installs)
         /\ Reachable /\ Head(inbox) \in Replacements => Said(outbox', queue', {Fetch})
<1> DEFINE n == Head(inbox)
<1>1. \A type : Takes(type) => /\ inbox # <<>> /\ inbox' = Tail(inbox) /\ n.type = type
                               /\ UNCHANGED <<vars, dialog, running>>
  BY DEF Takes
<1>2. inbox # <<>> => n \in Note
  BY HeadTailProperties DEF CliInv, ClientTyped
<1>3. UNCHANGED vars => queue' = queue
  BY DEF vars
<1>4. ASSUME outbox' = outbox, UNCHANGED vars
      PROVE  /\ Speaks'
             /\ \A letters : Said(outbox, queue, letters) => Said(outbox', queue', letters)
  BY <1>3, <1>4 DEF Speaks
<1>5. CASE TakeGreeting
  <2>1. Takes("connected") /\ Asks(Fetch)
    BY <1>5 DEF TakeGreeting
  <2> HIDE DEF n
  <2> QED
    BY <1>1, <1>2, <1>3, <2>1, Asking, OwnLetters DEF Grants, Replacements, n
<1>6. CASE TakeState \/ TakeUpdate \/ TakeSet
  <2>1. /\ Takes("state") \/ Takes("updated") \/ Takes("command_set")
        /\ outbox' = outbox
    BY <1>6 DEF TakeState, TakeUpdate, TakeSet
  <2> QED
    BY <1>1, <1>2, <1>4, <2>1 DEF Grants, Replacements
<1>7. CASE TakeHolder
  <2>1. Takes("write_access_changed") /\ outbox' = outbox
    BY <1>7 DEF TakeHolder
  <2> QED
    BY <1>1, <1>2, <1>4, <2>1 DEF Grants, Replacements
<1>8. CASE TakeResult
  <2>1. Takes("write_access_result")
    BY <1>8 DEF TakeResult
  <2>2. n \in Note /\ n.type = "write_access_result" /\ queue' = queue
    BY <1>1, <1>2, <1>3, <2>1
  <2>3. CASE n.granted
    <3>1. Asks(Install(inputs))
      BY <1>8, <2>3 DEF TakeResult
    <3>2. Install(inputs) \in Installs /\ Install(inputs) \in Own
      BY OwnLetters DEF CliInv, ClientTyped
    <3>3. /\ Speaks'
          /\ \A letters : Said(outbox, queue, letters) => Said(outbox', queue', letters)
          /\ Reachable => Said(outbox', queue', Installs)
      BY <2>2, <3>1, <3>2, Asking
    <3> QED
      BY <1>1, <2>1, <2>2, <3>3 DEF Replacements
  <2>4. CASE ~n.granted
    <3>1. outbox' = outbox
      BY <1>8, <2>4 DEF TakeResult
    <3> QED
      BY <1>1, <1>4, <2>1, <2>2, <2>4, <3>1 DEF Grants, Replacements
  <2> QED
    BY <2>3, <2>4
<1>9. CASE TakeReplacement
  <2>1. Takes("replaced") /\ Asks(Fetch)
    BY <1>9 DEF TakeReplacement
  <2> HIDE DEF n
  <2> QED
    BY <1>1, <1>2, <1>3, <2>1, Asking, OwnLetters DEF Grants, n
<1> QED
  BY <1>5, <1>6, <1>7, <1>8, <1>9 DEF HandleCoreMessage

LEMMA TakingWrites ==
  ASSUME CliInv, HandleCoreMessage, NEW s \in Slots
  PROVE  inputs'[s] = IF Head(inbox) \in Writing(s) THEN Written(Head(inbox), s) ELSE inputs[s]
<1> DEFINE n == Head(inbox)
<1>1. \A type : Takes(type) => n \in Note /\ n.type = type
  BY TakesTyped DEF CliInv
<1>2. CASE TakeUpdate
  <2>1. n \in Note /\ n.type = "updated"
    BY <1>1, <1>2 DEF TakeUpdate
  <2>2. inputs'[s] = IF s \div Width # n.index \/ n.fields[FieldOf(s)] = Keep
                       THEN inputs[s] ELSE n.fields[FieldOf(s)]
    BY <1>2 DEF TakeUpdate, Overwritten
  <2> HIDE DEF n
  <2> QED
    BY <2>1, <2>2 DEF Writing, Written, n
<1>3. CASE TakeSet
  <2>1. n \in Note /\ n.type = "command_set"
    BY <1>1, <1>3 DEF TakeSet
  <2>2. inputs'[s] = IF Row(s) \in DOMAIN n.commands THEN At(n.commands, s) ELSE inputs[s]
    BY <1>3 DEF TakeSet, Row, At
  <2> HIDE DEF n
  <2> QED
    BY <2>1, <2>2 DEF Writing, Written, n
<1>4. CASE TakeGreeting \/ TakeState \/ TakeHolder \/ TakeResult \/ TakeReplacement
  <2>1. inputs' = inputs /\ n.type \notin {"updated", "command_set"}
    BY <1>1, <1>4 DEF TakeGreeting, TakeState, TakeHolder, TakeResult, TakeReplacement
  <2> QED
    BY <2>1, WritesNothing
<1> QED
  BY <1>2, <1>3, <1>4 DEF HandleCoreMessage

LEMMA TakingView ==
  ASSUME CliInv, ViewTyped, HandleCoreMessage
  PROVE  /\ view' # NoView /\ Head(inbox) \in HolderNotes => view'.holder = Head(inbox).holder
         /\ Head(inbox) \notin HolderNotes => view' = view
         /\ view # NoView => view' # NoView
<1> DEFINE n == Head(inbox)
           View == [drive : DriveStates, holder : Controllers \cup {Nobody}]
<1>1. \A type : Takes(type) => n \in Note /\ n.type = type
  BY TakesTyped DEF CliInv
<1>2. CASE TakeGreeting \/ TakeState
  <2>1. n \in Note /\ n.type \in {"connected", "state"}
    BY <1>1, <1>2 DEF TakeGreeting, TakeState
  <2>2. view' = [drive |-> n.drive, holder |-> n.holder]
    BY <1>2 DEF TakeGreeting, TakeState
  <2>3. n.drive \in DriveStates /\ n.holder \in Controllers \cup {Nobody}
    BY <2>1 DEF Note
  <2> HIDE DEF n
  <2>4. view' \in View /\ view'.holder = n.holder
    BY <2>2, <2>3
  <2> QED
    BY <2>1, <2>4, CliAssumption DEF HolderNotes, n
<1>3. CASE TakeHolder \/ TakeResult
  <2>1. n \in Note /\ n.type \in {"write_access_changed", "write_access_result"}
    BY <1>1, <1>3 DEF TakeHolder, TakeResult
  <2>2. view' = IF view = NoView THEN view ELSE [view EXCEPT !.holder = n.holder]
    BY <1>3 DEF TakeHolder, TakeResult, Learns
  <2>3. n.holder \in Controllers \cup {Nobody}
    BY <2>1 DEF Note
  <2> HIDE DEF n
  <2>4. view # NoView => view' \in View /\ view'.holder = n.holder
    BY <2>2, <2>3 DEF ViewTyped
  <2> QED
    BY <2>1, <2>2, <2>4, CliAssumption DEF HolderNotes, n
<1>4. CASE TakeReplacement \/ TakeUpdate \/ TakeSet
  <2>1. view' = view /\ n.type \in {"replaced", "updated", "command_set"}
    BY <1>1, <1>4 DEF TakeReplacement, TakeUpdate, TakeSet
  <2> QED
    BY <2>1 DEF HolderNotes
<1> QED
  BY <1>2, <1>3, <1>4 DEF HandleCoreMessage

\* A note that is taken is the last of its kind, or is followed by what corrects it.
LEMMA TakingShows ==
  ASSUME CliInv, KnowsInv, ShowsInv, HandleCoreMessage
  PROVE  ShowsInv'
<1> DEFINE n == Head(inbox)
<1>1. /\ inbox # <<>> /\ n \in Note /\ inbox' = Tail(inbox)
      /\ UNCHANGED <<vars, dialog, running>>
      /\ Speaks'
      /\ \A letters : Said(outbox, queue, letters) => Said(outbox', queue', letters)
      /\ Reachable /\ n \in Grants => Said(outbox', queue', Installs)
      /\ Reachable /\ n \in Replacements => Said(outbox', queue', {Fetch})
  BY TakingNote DEF ShowsInv
<1>2. UNCHANGED <<active, holder, session, queue>> /\ Reachable' = Reachable
  BY <1>1 DEF vars, coreVars, Reachable
<1>3. inbox \in Seq(Note)
  BY DEF CliInv, ClientTyped
<1>4. \A these : Has(inbox, these) => n \in these \/ Has(inbox', these)
  BY <1>1, <1>3, TailHas
<1>5. \A these, those : Followed(inbox, these, those) =>
        Followed(inbox', these, those) /\ (n \in these => Has(inbox', those))
  BY <1>1, <1>3, TailFollowed
<1>6. /\ view' # NoView /\ n \in HolderNotes => view'.holder = n.holder
      /\ n \notin HolderNotes => view' = view
      /\ view # NoView => view' # NoView
  BY TakingView DEF KnowsInv
<1> HIDE DEF n
<1>7. EndsAreFinal' /\ DialogSeen'
  BY <1>1, <1>2, <1>6 DEF ShowsInv, EndsAreFinal, DialogSeen
<1>8. NotesAreCurrent'
  <2> SUFFICES ASSUME Reachable, NEW s \in Slots
               PROVE  Followed(inbox', Stale(s, active.commands), Writing(s) \cup Replacements)
    BY <1>2 DEF NotesAreCurrent, Slots, Width, Writing, Replacements, Stale, Note, Row, At,
             Written, FieldOf
  <2> QED
    BY <1>5 DEF ShowsInv, NotesAreCurrent
<1>9. WriterKnows'
  <2> SUFFICES ASSUME Writer
               PROVE  /\ Followed(inbox', OtherHolder(Cli), Grants)
                      /\ view' # NoView /\ view'.holder # Cli => Has(inbox', Grants)
    BY <1>2 DEF WriterKnows, Writer, Grants, Note, OtherHolder, HolderNotes
  <2>1. /\ Followed(inbox, OtherHolder(Cli), Grants)
        /\ view # NoView /\ view.holder # Cli => Has(inbox, Grants)
    BY DEF ShowsInv, WriterKnows
  <2>2. /\ Followed(inbox', OtherHolder(Cli), Grants)
        /\ n \in OtherHolder(Cli) => Has(inbox', Grants)
    BY <1>5, <2>1
  <2>3. ASSUME view' # NoView, view'.holder # Cli PROVE Has(inbox', Grants)
    <3>1. CASE n \in HolderNotes
      BY <1>6, <2>2, <2>3, <3>1 DEF OtherHolder
    <3>2. CASE n \notin HolderNotes
      <4>1. Has(inbox, Grants)
        BY <1>6, <2>1, <2>3, <3>2
      <4>2. n \notin Grants
        BY <3>2 DEF Grants, HolderNotes
      <4> QED
        BY <1>4, <4>1, <4>2
    <3> QED
      BY <3>1, <3>2
  <2> QED
    BY <2>2, <2>3
<1>10. Writer /\ Installing => Installing'
  <2> SUFFICES ASSUME Writer, Installing
               PROVE  Has(inbox', Grants) \/ Said(outbox', queue', Installs)
    BY DEF Installing, Grants, Note
  <2> QED
    BY <1>1, <1>4 DEF Installing, Writer
<1>11. WriterInstalls'
  BY <1>2, <1>10 DEF ShowsInv, WriterInstalls, Writer
<1>12. Writer /\ Refreshing => Refreshing'
  <2>1. Writer /\ Has(inbox, Replacements)
          => Has(inbox', Replacements) \/ Said(outbox', queue', {Fetch})
    BY <1>1, <1>4 DEF Writer
  <2>2. Said(outbox, queue, {Fetch}) => Said(outbox', queue', {Fetch})
    BY <1>1
  <2> QED
    BY <1>10, <2>1, <2>2 DEF Refreshing, Replacements, Note, Fetch
<1>13. WriterShows'
  <2> SUFFICES ASSUME Writer, ~Refreshing', NEW s \in Slots
               PROVE  Shown(s)' \/ Settling(s)'
    BY <1>2 DEF WriterShows, Writer, Slots, Width
  <2>1. Shown(s) \/ Has(inbox, Writing(s)) \/ Said(outbox, queue, {Edit(s, inputs[s])})
    BY <1>12 DEF ShowsInv, WriterShows, Settling
  <2>2. Has(inbox', Writing(s)) => Settling(s)'
    BY DEF Settling, Writing, Note, Row
  <2>3. CASE n \in Writing(s)
    <3>1. inputs'[s] = Written(n, s)
      BY <2>3, TakingWrites DEF n
    <3>2. Followed(inbox, Stale(s, active.commands), Writing(s) \cup Replacements)
      BY DEF ShowsInv, NotesAreCurrent, Writer
    <3>3. n \in Stale(s, active.commands) => Has(inbox', Writing(s) \cup Replacements)
      BY <1>5, <3>2
    <3>4. Has(inbox', Writing(s) \cup Replacements) => Has(inbox', Writing(s))
      <4>1. ~Has(inbox', Replacements)
        BY DEF Refreshing, Replacements, Note
      <4> QED
        BY <4>1 DEF Has
    <3>5. n \notin Stale(s, active.commands) => Shown(s)'
      BY <1>2, <2>3, <3>1 DEF Stale, Shown, At, Row
    <3> QED
      BY <2>2, <3>3, <3>4, <3>5
  <2>4. CASE n \notin Writing(s)
    <3>1. inputs'[s] = inputs[s]
      BY <2>4, TakingWrites DEF n
    <3>2. Shown(s) => Shown(s)'
      BY <1>2, <3>1 DEF Shown, At, Row
    <3>3. Has(inbox, Writing(s)) => Has(inbox', Writing(s))
      BY <1>4, <2>4
    <3>4. Said(outbox, queue, {Edit(s, inputs[s])}) => Settling(s)'
      BY <1>1, <3>1 DEF Settling
    <3> QED
      BY <2>1, <2>2, <3>2, <3>3, <3>4
  <2> QED
    BY <2>3, <2>4
<1> QED
  BY <1>1, <1>7, <1>8, <1>9, <1>11, <1>13 DEF ShowsInv

\* The notes and what they are about stay, and what is done to an input is said.
LEMMA SettledShows ==
  ASSUME ShowsInv, UNCHANGED <<holder, active, view, running, inbox>>,
         session'[Cli] = session[Cli],
         EndsAreFinal', Speaks', DialogSeen',
         \A letters : Said(outbox, queue, letters) => Said(outbox', queue', letters),
         Writer => \/ Installing'
                   \/ \A s \in Slots : \/ inputs'[s] = inputs[s]
                                       \/ Said(outbox', queue', {Edit(s, inputs'[s])})
  PROVE  ShowsInv'
<1>1. Writer' = Writer /\ Reachable' = Reachable
  BY DEF Writer, Reachable
<1>2. NotesAreCurrent' /\ WriterKnows'
  <2>1. NotesAreCurrent'
    BY <1>1 DEF ShowsInv, NotesAreCurrent, Slots, Width, Writing, Replacements,
                Stale, Note, Row, At, Written, FieldOf
  <2>2. WriterKnows'
    BY <1>1 DEF ShowsInv, WriterKnows, Grants, Note, OtherHolder, HolderNotes
  <2> QED
    BY <2>1, <2>2
<1>3. Installing => Installing'
  BY DEF Installing, Grants, Note
<1>4. Refreshing => Refreshing'
  <2>1. Has(inbox, Replacements) => Has(inbox', Replacements)
    OBVIOUS
  <2>2. Said(outbox, queue, {Fetch}) => Said(outbox', queue', {Fetch})
    OBVIOUS
  <2> QED
    BY <1>3, <2>1, <2>2 DEF Refreshing, Replacements, Note, Fetch
<1>5. WriterInstalls'
  BY <1>1, <1>3 DEF ShowsInv, WriterInstalls
<1>6. WriterShows'
  <2> SUFFICES ASSUME Writer, ~Refreshing', NEW s \in Slots
               PROVE  Shown(s)' \/ Settling(s)'
    BY <1>1 DEF WriterShows, Slots, Width
  <2>1. Shown(s) \/ Has(inbox, Writing(s)) \/ Said(outbox, queue, {Edit(s, inputs[s])})
    BY <1>4 DEF ShowsInv, WriterShows, Settling
  <2>2. \/ inputs'[s] = inputs[s]
        \/ Said(outbox', queue', {Edit(s, inputs'[s])})
    BY DEF Refreshing
  <2>3. Has(inbox, Writing(s)) => Settling(s)'
    BY DEF Settling, Writing, Note, Row
  <2>4. Said(outbox', queue', {Edit(s, inputs'[s])}) => Settling(s)'
    BY DEF Settling
  <2>5. CASE inputs'[s] = inputs[s]
    <3>1. Shown(s) => Shown(s)'
      BY <1>1, <2>5 DEF Shown, At, Row
    <3>2. Said(outbox, queue, {Edit(s, inputs[s])})
            => Said(outbox', queue', {Edit(s, inputs'[s])})
      BY <2>5
    <3> QED
      BY <2>1, <2>3, <2>4, <3>1, <3>2
  <2> QED
    BY <2>2, <2>4, <2>5
<1> QED
  BY <1>2, <1>5, <1>6 DEF ShowsInv

\* A key leaves the core and the notes alone.
LEMMA KeyKeepsShowing ==
  ASSUME ShowsInv, UNCHANGED <<vars, view, inbox, running>>,
         Speaks', DialogSeen',
         \A letters : Said(outbox, queue, letters) => Said(outbox', queue', letters),
         Writer => \/ Installing'
                   \/ \A s \in Slots : \/ inputs'[s] = inputs[s]
                                       \/ Said(outbox', queue', {Edit(s, inputs'[s])})
  PROVE  ShowsInv'
<1>1. UNCHANGED <<holder, active, session, queue>>
  BY DEF vars, coreVars
<1>2. EndsAreFinal'
  BY <1>1 DEF ShowsInv, EndsAreFinal
<1> QED
  BY <1>1, <1>2, SettledShows

\* update_input sends what it changes.
LEMMA NudgeShows ==
  ASSUME CliInv, ShowsInv, NEW slot \in Slots, NEW delta \in Steps, Nudge(slot, delta)
  PROVE  ShowsInv'
<1> DEFINE moved == Between(inputs[slot] + delta, 0, Limit[FieldOf(slot)])
           pushed == CASE slot = 0 /\ moved > inputs[Width] -> {Width}
                       [] slot = Width /\ moved < inputs[0] -> {0}
                       [] OTHER -> {}
           new == [s \in Slots |-> IF s \in {slot} \cup pushed THEN moved ELSE inputs[s]]
           more == [i \in 1..Cardinality(pushed) |-> Change(new, Width - slot)]
           all == <<Change(new, slot)>> \o more
<1>1. \/ pushed = {Width} /\ slot = 0
      \/ pushed = {0} /\ slot = Width
      \/ pushed = {}
  <2>1. CASE slot = 0 /\ moved > inputs[Width]
    BY <2>1, WidthType
  <2>2. CASE slot = Width /\ moved < inputs[0]
    BY <2>2, WidthType
  <2>3. CASE ~(slot = 0 /\ moved > inputs[Width]) /\ ~(slot = Width /\ moved < inputs[0])
    BY <2>3
  <2> QED
    BY <2>1, <2>2, <2>3
<1>2. /\ Key /\ inputs' = new /\ Send(all)
      /\ UNCHANGED <<vars, view, inbox, running, dialog>>
  BY DEF Nudge, WriterKey, Key
<1>3. new \in Values
  BY <1>2, NudgeKeeps DEF CliInv, ClientTyped
<1>4. \A s \in Slots : inputs'[s] # inputs[s] => s \in {slot} \cup pushed
  BY <1>2
<1> HIDE DEF moved, pushed, new
<1>5. Width - 0 = Width /\ Width - Width = 0 /\ 0 \in Slots /\ Width \in Slots
  BY WidthType DEF Slots
<1>6. \/ pushed = {} /\ more = <<>>
      \/ pushed = {Width - slot} /\ Width - slot \in Slots /\ more = <<Change(new, Width - slot)>>
  <2>1. CASE pushed = {}
    <3>1. 1..Cardinality(pushed) = {}
      BY <2>1, FS_EmptySet
    <3> QED
      BY <2>1, <3>1
  <2>2. CASE pushed # {}
    <3>1. pushed = {Width - slot} /\ Width - slot \in Slots
      BY <1>1, <1>5, <2>2
    <3>2. 1..Cardinality(pushed) = 1..1
      BY <3>1, FS_Singleton
    <3>3. more = [i \in 1..1 |-> Change(new, Width - slot)]
      BY <3>2
    <3>4. \A e : [i \in 1..1 |-> e] = <<e>>
      OBVIOUS
    <3>5. more = <<Change(new, Width - slot)>>
      BY <3>3, <3>4
    <3> QED
      BY <3>1, <3>5
  <2> QED
    BY <2>1, <2>2
<1>7. \A s \in Slots : Change(new, s) = Edit(s, new[s]) /\ Change(new, s) \in Own
  BY <1>3, OwnLetters
<1> HIDE DEF more
<1>8. more \in Seq(Own \cup {Hangup}) /\ <<Change(new, slot)>> \in Seq(Own \cup {Hangup})
  <2>1. \A e \in Own : <<e>> \in Seq(Own \cup {Hangup})
    OBVIOUS
  <2>2. <<>> \in Seq(Own \cup {Hangup})
    OBVIOUS
  <2>3. Change(new, slot) \in Own /\ \A s \in Slots : Change(new, s) \in Own
    BY <1>7
  <2> QED
    BY <1>6, <2>1, <2>2, <2>3
<1>9. all \in Seq(Own \cup {Hangup})
  BY <1>8, ConcatProperties
<1>10. ASSUME NEW s \in Slots, s \in {slot} \cup pushed
       PROVE  Has(all, {Edit(s, new[s])})
  <2>1. CASE s = slot
    <3>1. Has(<<Change(new, slot)>>, {Edit(s, new[s])})
      BY <1>7, <2>1 DEF Has
    <3> QED
      BY <1>8, <3>1, MoreHas
  <2>2. CASE s # slot
    <3>1. s = Width - slot /\ more = <<Change(new, s)>>
      BY <1>6, <1>10, <2>2
    <3>2. Has(more, {Edit(s, new[s])})
      BY <1>7, <3>1 DEF Has
    <3> QED
      BY <1>8, <3>2, MoreHas
  <2> QED
    BY <2>1, <2>2
<1> HIDE DEF all
<1>11. /\ Speaks'
       /\ \A letters :
            /\ Said(outbox, queue, letters) => Said(outbox', queue', letters)
            /\ Reachable /\ Has(all, letters) => Said(outbox', queue', letters)
  BY <1>2, <1>9, Sending DEF ShowsInv, vars
<1>12. DialogSeen'
  BY <1>2 DEF ShowsInv, DialogSeen
<1>13. ASSUME Writer, NEW s \in Slots
       PROVE  inputs'[s] = inputs[s] \/ Said(outbox', queue', {Edit(s, inputs'[s])})
  <2>1. inputs'[s] # inputs[s] => Has(all, {Edit(s, inputs'[s])})
    BY <1>2, <1>4, <1>10
  <2> QED
    BY <1>11, <1>13, <2>1 DEF Writer
<1> QED
  BY <1>2, <1>11, <1>12, <1>13, KeyKeepsShowing

LEMMA ApplyShows ==
  ASSUME CliInv, ShowsInv, NEW entry \in Entries, Apply(entry)
  PROVE  ShowsInv'
<1> DEFINE value == Between(entry, Lowest(dialog.field), Limit[dialog.field])
           new == [s \in Slots |-> IF s \in dialog.checked THEN value ELSE inputs[s]]
<1>1. /\ Key /\ dialog # NoDialog
      /\ UNCHANGED <<vars, view, inbox, running>>
      /\ inputs' = new /\ dialog' = NoDialog
      /\ IF view.holder # Nobody THEN Asks(Install(new)) ELSE UNCHANGED outbox
  BY DEF Apply, DialogKey, Key
<1>2. new \in Values
  BY <1>1, ApplyKeeps DEF CliInv, ClientTyped
<1> HIDE DEF new
<1>3. DialogSeen' /\ queue' = queue
  BY <1>1 DEF DialogSeen, vars
<1>4. CASE view.holder # Nobody
  <2>1. Install(new) \in Installs /\ Install(new) \in Own
    BY <1>2, OwnLetters
  <2>2. Asks(Install(new))
    BY <1>1, <1>4
  <2>3. /\ Speaks'
        /\ \A letters : Said(outbox, queue, letters) => Said(outbox', queue', letters)
        /\ Reachable => Said(outbox', queue', Installs)
    BY <1>3, <2>1, <2>2, Asking DEF ShowsInv
  <2>4. Writer => Installing'
    BY <2>3 DEF Writer, Installing, Installs, ClientMessage
  <2> QED
    BY <1>1, <1>3, <2>3, <2>4, KeyKeepsShowing
<1>5. CASE view.holder = Nobody
  <2>1. outbox' = outbox
    BY <1>1, <1>5
  <2>2. Speaks'
    BY <1>3, <2>1 DEF ShowsInv, Speaks
  <2>3. Writer => Has(inbox', Grants)
    BY <1>1, <1>5, CliIsController DEF ShowsInv, WriterKnows, DialogSeen
  <2>4. Writer => Installing'
    BY <2>3 DEF Installing, Grants, Note
  <2> QED
    BY <1>1, <1>3, <2>1, <2>2, <2>4, KeyKeepsShowing
<1> QED
  BY <1>4, <1>5

LEMMA PressingShows ==
  ASSUME CliInv, ShowsInv, PressKey, ~Leave
  PROVE  ShowsInv'
<1>1. ASSUME UNCHANGED <<vars, view, inbox, running, inputs, outbox>>, DialogSeen'
      PROVE  ShowsInv'
  <2>1. Speaks' /\ queue' = queue
    BY <1>1 DEF ShowsInv, Speaks, vars
  <2> QED
    BY <1>1, <2>1, KeyKeepsShowing
<1>2. ASSUME NEW m \in Own, Asks(m), UNCHANGED <<vars, view, inbox, running, dialog>>,
             inputs' = inputs \/ m \in Installs
      PROVE  ShowsInv'
  <2>1. queue' = queue /\ DialogSeen'
    BY <1>2 DEF ShowsInv, DialogSeen, vars
  <2>2. /\ Speaks'
        /\ \A letters :
             /\ Said(outbox, queue, letters) => Said(outbox', queue', letters)
             /\ Reachable /\ m \in letters => Said(outbox', queue', letters)
    BY <1>2, <2>1, Asking DEF ShowsInv
  <2>3. Writer /\ m \in Installs => Installing'
    BY <2>2 DEF Writer, Installing, Installs, ClientMessage
  <2> QED
    BY <1>2, <2>1, <2>2, <2>3, KeyKeepsShowing
<1>3. ASSUME NEW s \in Slots, OpenDialog(s) \/ Toggle(s) PROVE ShowsInv'
  BY <1>1, <1>3
  DEF OpenDialog, Toggle, WriterKey, DialogKey, Key, HasWriteAccess, ShowsInv, DialogSeen
<1>4. ASSUME NEW s \in Slots, NEW d \in Steps, Nudge(s, d) PROVE ShowsInv'
  BY <1>4, NudgeShows
<1>5. CASE PressClaim
  BY <1>2, <1>5, OwnLetters DEF PressClaim, Key
<1>6. CASE PressSwitch
  <2>1. MotionKey \in MotionActions /\ (view.drive = "Off") \in BOOLEAN
    BY DEF MotionKey, MotionActions
  <2>2. PICK request \in {[type |-> "set_drive_power", enabled |-> view.drive = "Off"],
                          [type |-> "set_motion_state", action |-> MotionKey],
                          [type |-> "acknowledge_error"]} : Asks(request)
    BY <1>6 DEF PressSwitch
  <2>3. request \in Own
    BY <2>1, OwnLetters
  <2> QED
    BY <1>2, <1>6, <2>2, <2>3 DEF PressSwitch, WriterKey, Key
<1>7. CASE PressReset
  <2>1. Initial \in Values
    BY CliAssumption DEF Values
  <2>2. Install(Initial) \in Own /\ Install(Initial) \in Installs
    BY <2>1, OwnLetters
  <2> QED
    BY <1>2, <1>7, <2>2 DEF PressReset, WriterKey, Key
<1>8. CASE Cancel
  BY <1>1, <1>8 DEF Cancel, DialogKey, Key, DialogSeen
<1>9. ASSUME NEW v \in Entries, Apply(v) PROVE ShowsInv'
  BY <1>9, ApplyShows
<1> QED
  BY <1>3, <1>4, <1>5, <1>6, <1>7, <1>8, <1>9 DEF PressKey

\* What was said stays said when something joins the queue.
LEMMA AppendSaid ==
  ASSUME TypeOK, NEW e \in Event, queue' = Append(queue, e), NEW letters
  PROVE  Has(queue, Posts(letters)) \/ e \in Posts(letters) => Has(queue', Posts(letters))
BY OneMore DEF TypeOK

\* Steps that the client sees nothing of.
LEMMA AloofShows ==
  ASSUME ShowsInv, EndsAreFinal', Speaks',
         UNCHANGED <<holder, active, inputs, view, dialog, running, inbox>>,
         session'[Cli] = session[Cli],
         \A letters : Said(outbox, queue, letters) => Said(outbox', queue', letters)
  PROVE  ShowsInv'
<1>1. DialogSeen'
  BY DEF ShowsInv, DialogSeen
<1> QED
  BY <1>1, SettledShows

LEMMA OthersShow ==
  ASSUME CliInv, ShowsInv, OthersAct
  PROVE  ShowsInv'
<1>1. UNCHANGED <<inputs, view, dialog, running, outbox, inbox>> /\ UNCHANGED coreVars
  BY DEF OthersAct, OpenSession, CloseSession, SendMessage, HidConnects, HidDisconnects,
         HidReport, DriveReports, Enqueue, uiVars
<1>2. session'[Cli] = session[Cli]
  BY CliIsController
  DEF OthersAct, OpenSession, CloseSession, SendMessage, HidConnects, HidDisconnects,
      HidReport, DriveReports, CliInv, TypeOK
<1>3. Next
  BY DEF OthersAct, Next, Environment
<1>4. EndsAreFinal'
  BY <1>3, EndsStep DEF CliInv, ShowsInv
<1>5. TypeOK' /\ TypeOK
  BY <1>3, StepTyped DEF CliInv
<1>6. PICK e : queue' = Append(queue, e) /\ (e.kind = "message" => e.from # Cli)
  <2> DEFINE Joins(e) == queue' = Append(queue, e) /\ (e.kind = "message" => e.from # Cli)
  <2>1. ASSUME NEW c \in WebSockets \ {Cli}, OpenSession(c) \/ CloseSession(c)
        PROVE  Joins(Connected(c)) \/ Joins(Disconnected(c))
    BY <2>1 DEF OpenSession, CloseSession, Enqueue, Connected, Disconnected
  <2>2. ASSUME NEW c \in WebSockets \ {Cli}, NEW m \in Requests, SendMessage(c, m)
        PROVE  Joins([kind |-> "message", from |-> c, msg |-> m])
    BY <2>2 DEF SendMessage, Enqueue
  <2>3. ASSUME HidConnects \/ HidDisconnects
        PROVE  Joins(Connected(Hid)) \/ Joins(Disconnected(Hid))
    BY <2>3 DEF HidConnects, HidDisconnects, Enqueue, Connected, Disconnected
  <2>4. ASSUME NEW r \in HidReports, HidReport(r)
        PROVE  Joins([kind |-> "hid_report", from |-> Hid, report |-> r])
    BY <2>4 DEF HidReport, Enqueue
  <2>5. ASSUME NEW s \in ReportedStates, DriveReports(s)
        PROVE  Joins([kind |-> "drive_state", state |-> s])
    BY <2>5 DEF DriveReports, Enqueue
  <2> HIDE DEF Joins
  <2>6. \E e : Joins(e)
    BY <2>1, <2>2, <2>3, <2>4, <2>5 DEF OthersAct
  <2> QED
    BY <2>6 DEF Joins
<1>7. e \in Event
  <2>1. /\ Len(queue) + 1 \in DOMAIN queue'
        /\ queue'[Len(queue) + 1] = e
    BY <1>5, <1>6, AppendProperties, LenProperties DEF TypeOK
  <2> QED
    BY <1>5, <2>1, ElementOfSeq, LenProperties DEF TypeOK
<1>8. Speaks'
  <2>1. outbox' \in Seq(Own \cup {Hangup})
    BY <1>1 DEF ShowsInv, Speaks
  <2> QED
    BY <1>5, <1>6, <1>7, <2>1, AppendSpeaks DEF ShowsInv
<1>9. \A letters : Said(outbox, queue, letters) => Said(outbox', queue', letters)
  BY <1>1, <1>5, <1>6, <1>7, AppendSaid DEF Said
<1> QED
  BY <1>1, <1>2, <1>4, <1>8, <1>9, AloofShows DEF coreVars

LEMMA ForwardShows ==
  ASSUME CliInv, ShowsInv, Forward
  PROVE  ShowsInv'
<1> DEFINE m == Head(outbox)
           e == [kind |-> "message", from |-> Cli, msg |-> m]
<1>1. /\ outbox # <<>> /\ m # Hangup /\ outbox' = Tail(outbox)
      /\ queue' = Append(queue, e) /\ UNCHANGED coreVars
      /\ UNCHANGED <<session, inputs, view, dialog, running, inbox>>
  BY DEF Forward, Enqueue, uiVars
<1>2. outbox \in Seq(Own \cup {Hangup}) /\ TypeOK
  BY DEF ShowsInv, Speaks, CliInv
<1>3. m \in Own /\ outbox' \in Seq(Own \cup {Hangup})
  BY <1>1, <1>2, HeadTailProperties
<1>4. e \in Event
  BY <1>3, CliIsController DEF Event, Own
<1>5. Speaks'
  BY <1>1, <1>2, <1>3, <1>4, AppendSpeaks DEF ShowsInv
<1>6. ASSUME NEW letters, Said(outbox, queue, letters) PROVE Said(outbox', queue', letters)
  <2>1. m \in letters => e \in Posts(letters)
    BY DEF Posts
  <2> HIDE DEF e, m
  <2>2. Has(queue, Posts(letters)) \/ e \in Posts(letters) => Has(queue', Posts(letters))
    BY <1>1, <1>2, <1>4, AppendSaid
  <2>3. Has(outbox, letters) => m \in letters \/ Has(outbox', letters)
    BY <1>1, <1>2, TailHas DEF m
  <2> QED
    BY <1>6, <2>1, <2>2, <2>3 DEF Said
<1>7. EndsAreFinal'
  <2>1. /\ Len(queue) \in Nat
        /\ DOMAIN queue = 1..Len(queue)
        /\ DOMAIN queue' = 1..(Len(queue) + 1)
        /\ queue'[Len(queue) + 1] = e
        /\ \A i \in DOMAIN queue : queue'[i] = queue[i]
    BY <1>1, <1>2, <1>4, AppendProperties, LenProperties DEF TypeOK
  <2>2. \A i \in DOMAIN queue' : i \in DOMAIN queue \/ i = Len(queue) + 1
    BY <2>1
  <2>3. e.kind = "message" /\ session' = session
    BY <1>1
  <2> HIDE DEF e
  <2> QED
    BY <2>1, <2>2, <2>3 DEF ShowsInv, EndsAreFinal
<1> HIDE DEF e, m
<1> QED
  BY <1>1, <1>5, <1>6, <1>7, AloofShows DEF coreVars

\* A controller whose session has never been open does not hold write access.
LEMMA ConnectShows ==
  ASSUME CliInv, KnowsInv, ShowsInv, Connect
  PROVE  ShowsInv'
<1>1. /\ session[Cli] = "fresh" /\ OpenSession(Cli)
      /\ queue' = Append(queue, Connected(Cli)) /\ UNCHANGED coreVars
      /\ UNCHANGED <<inputs, view, dialog, running, outbox, inbox>>
  BY DEF Connect, OpenSession, Enqueue, uiVars
<1>2. EndsAreFinal'
  <2>1. Next
    BY <1>1, CliIsController DEF Next, Environment
  <2> QED
    BY <2>1, EndsStep DEF CliInv, ShowsInv
<1>3. holder # Cli
  <2>1. SUFFICES ASSUME Gone(Cli) PROVE FALSE
    BY <1>1, CliIsController DEF CliInv, AccessInv, HolderIsLive
  <2>2. PICK i \in DOMAIN queue : queue[i] = Disconnected(Cli)
    BY <2>1 DEF Gone
  <2> QED
    BY <1>1, <2>2, CliIsController DEF Disconnected, ShowsInv, EndsAreFinal
<1>4. Connected(Cli) \in Event /\ Connected(Cli).kind # "message"
  BY CliIsController DEF Connected, Event
<1>5. Speaks'
  <2>1. outbox' \in Seq(Own \cup {Hangup})
    BY <1>1 DEF ShowsInv, Speaks
  <2> HIDE DEF Connected
  <2> QED
    BY <1>1, <1>4, <2>1, AppendSpeaks DEF CliInv, ShowsInv
<1>6. DialogSeen'
  BY <1>1 DEF ShowsInv, DialogSeen
<1>7. NotesAreCurrent'
  <2>1. inbox' = <<>>
    BY <1>1 DEF KnowsInv, Ungreeted
  <2>2. \A these, those : Followed(inbox', these, those)
    BY <2>1, NothingHas
  <2> QED
    BY <2>2 DEF NotesAreCurrent
<1>8. ~Writer'
  BY <1>1, <1>3 DEF Writer, coreVars
<1> QED
  BY <1>2, <1>5, <1>6, <1>7, <1>8 DEF ShowsInv, WriterKnows, WriterInstalls, WriterShows

LEMMA PartingShows ==
  ASSUME CliInv, ShowsInv, Close \/ Cut \/ Leave
  PROVE  ShowsInv'
<1>1. DialogSeen'
  BY DEF Close, Cut, Leave, Key, uiVars, ShowsInv, DialogSeen
<1>2. CASE Close \/ Cut
  <2>1. CloseSession(Cli) /\ outbox' = <<>>
    BY <1>2 DEF Close, Cut
  <2>2. Next
    BY <2>1, CliIsController DEF Next, Environment
  <2>3. EndsAreFinal'
    BY <2>2, EndsStep DEF CliInv, ShowsInv
  <2>4. ~Reachable'
    BY <2>1, CliIsController DEF CloseSession, CliInv, TypeOK, Reachable
  <2>5. queue' = Append(queue, Disconnected(Cli))
    BY <2>1 DEF CloseSession, Enqueue
  <2>6. Disconnected(Cli) \in Event /\ Disconnected(Cli).kind # "message"
    BY CliIsController DEF Disconnected, Event
  <2>7. outbox' \in Seq(Own \cup {Hangup})
    BY <2>1
  <2>8. Speaks'
    BY <2>5, <2>6, <2>7, AppendSpeaks DEF CliInv, ShowsInv
  <2> QED
    BY <1>1, <2>3, <2>4, <2>8, PartedShows
<1>3. CASE Leave
  <2>1. Asks(Hangup) /\ running' = FALSE /\ UNCHANGED <<queue, session>>
    BY <1>3 DEF Leave, Key, vars
  <2>2. Speaks'
    BY <2>1, Asking DEF ShowsInv
  <2>3. EndsAreFinal'
    BY <2>1 DEF ShowsInv, EndsAreFinal
  <2>4. ~Reachable'
    BY <2>1 DEF Reachable
  <2> QED
    BY <1>1, <2>2, <2>3, <2>4, PartedShows
<1> QED
  BY <1>2, <1>3

LEMMA ShowsStep ==
  ASSUME CliInv, KnowsInv, ShowsInv, [CliNext]_cliVars
  PROVE  ShowsInv'
<1>1. CASE CoreAdvances \/ OthersAct
  BY <1>1, CoreShows, OthersShow
<1>2. CASE Connect \/ Forward
  BY <1>2, ConnectShows, ForwardShows
<1>3. CASE Close \/ Cut \/ Leave
  BY <1>3, PartingShows
<1>4. CASE HandleCoreMessage
  BY <1>4, TakingShows
<1>5. CASE PressKey /\ ~Leave
  BY <1>5, PressingShows
<1>6. CASE UNCHANGED cliVars
  <2>1. UNCHANGED <<vars, inputs, view, dialog, running, outbox, inbox>>
    BY <1>6 DEF cliVars, uiVars
  <2>2. UNCHANGED <<holder, active, session, queue>>
    BY <2>1 DEF vars, coreVars
  <2>3. EndsAreFinal' /\ Speaks'
    BY <2>1, <2>2 DEF ShowsInv, EndsAreFinal, Speaks
  <2> QED
    BY <2>1, <2>2, <2>3, AloofShows
<1> QED
  BY <1>1, <1>2, <1>3, <1>4, <1>5, <1>6 DEF CliNext, HandleCoreMessage

LEMMA InitShows ==
  ASSUME CliInit
  PROVE  ShowsInv
<1>1. /\ queue = <<>> /\ outbox = <<>> /\ dialog = NoDialog
      /\ session = [c \in Controllers |-> "fresh"]
  BY DEF CliInit, Init
<1>2. EndsAreFinal /\ Speaks /\ DialogSeen
  BY <1>1 DEF EndsAreFinal, Speaks, DialogSeen
<1>3. ~Reachable
  BY <1>1, CliIsController DEF Reachable
<1> QED
  BY <1>2, <1>3 DEF ShowsInv, NotesAreCurrent, WriterKnows, WriterInstalls, WriterShows, Writer

\* When nothing is under way, the inputs of the client that holds write access are
\* the active set, whatever it and the others did before (puddle-cli.rs:232-281,
\* 328-356, 522-625).
THEOREM WriterSees == CliSpec => []WriterShowsActiveSet
<1> DEFINE Inv == CliInv /\ KnowsInv /\ ShowsInv
<1>1. CliInit => Inv
  BY InitCli, InitKnows, InitShows
<1>2. Inv /\ [CliNext]_cliVars => Inv'
  BY CliStep, KnowsStep, ShowsStep
<1>3. Inv => WriterShowsActiveSet
  <2> SUFFICES ASSUME Inv, Online, ~Unheard, holder = Cli
               PROVE  /\ Len(active.commands) = 2
                      /\ \A s \in Slots :
                           inputs[s] = active.commands[(s \div Width) + 1][FieldOf(s)]
    BY DEF WriterShowsActiveSet
  <2>1. Writer /\ inbox = <<>> /\ outbox = <<>>
    BY DEF Online, Writer, Reachable, Unheard
  <2>2. \A these : ~Has(inbox, these) /\ ~Has(outbox, these)
    BY <2>1, NothingHas
  <2>3. ASSUME NEW letters PROVE ~Has(queue, Posts(letters))
    <3> SUFFICES ASSUME NEW i \in DOMAIN queue, queue[i] \in Posts(letters) PROVE FALSE
      BY DEF Has
    <3>1. queue[i].kind = "message" /\ queue[i].from = Cli
      BY PostIs
    <3> QED
      BY <3>1 DEF Unheard
  <2>4. \A letters : ~Said(outbox, queue, letters)
    BY <2>2, <2>3 DEF Said
  <2>5. ~Installing /\ ~Refreshing
    BY <2>2, <2>4 DEF Installing, Refreshing
  <2>6. \A s \in Slots : ~Settling(s)
    BY <2>2, <2>4 DEF Settling
  <2>7. Len(active.commands) = 2 /\ \A s \in Slots : Shown(s)
    BY <2>1, <2>5, <2>6 DEF ShowsInv, WriterInstalls, WriterShows
  <2> QED
    BY <2>7 DEF Shown, At, Row
<1> QED
  BY <1>1, <1>2, <1>3, PTL DEF CliSpec
=============================================================================
