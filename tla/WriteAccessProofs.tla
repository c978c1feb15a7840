-------------------------- MODULE WriteAccessProofs --------------------------
(***************************************************************************)
(* Requests and write access, for any number of controllers, any requests  *)
(* and any interleaving: only the holder of write access commands the      *)
(* machine, and it is never a session that is gone; the core obeys the     *)
(* rules of the designated writer; and what it says agrees with what it    *)
(* did: changes are broadcast with the values they leave, every request is *)
(* answered once and last, and one that is refused has changed nothing.    *)
(***************************************************************************)
EXTENDS CoreManagerProofs

----------------------------------------------------------------------------
(* Only the designated writer commands the machine.                        *)

\* Handling something is seen in the channel or in the work in progress.
LEMMA HandlesActs ==
  ASSUME TypeOK, NEW type, Handles(type)
  PROVE  MessageReady /\ CoreActs
<1>1. CASE work # <<>>
  <2>1. Len(Tail(work)) = Len(work) - 1 /\ Len(work) \in Nat
    BY <1>1, HeadTailProperties, LenProperties DEF TypeOK
  <2>2. work' # work
    BY <1>1, <2>1 DEF Handles
  <2>3. MessageReady
    BY DEF Handles
  <2> QED
    BY <2>2, <2>3 DEF CoreActs
<1>2. CASE work = <<>>
  <2>1. queue # <<>> /\ queue' = Tail(queue)
    BY <1>2 DEF Handles, MessageReady
  <2>2. Len(Tail(queue)) = Len(queue) - 1 /\ Len(queue) \in Nat
    BY <2>1, HeadTailProperties, LenProperties DEF TypeOK
  <2>3. Len(queue') < Len(queue)
    BY <2>1, <2>2
  <2>4. MessageReady
    BY DEF Handles
  <2> QED
    BY <2>3, <2>4 DEF CoreActs
<1> QED
  BY <1>1, <1>2

LEMMA ReceivesActs ==
  ASSUME TypeOK, NEW kind, Receives(kind)
  PROVE  CoreActs
<1>1. queue # <<>> /\ queue' = Tail(queue)
  BY DEF Receives
<1>2. Len(Tail(queue)) = Len(queue) - 1 /\ Len(queue) \in Nat
  BY <1>1, HeadTailProperties, LenProperties DEF TypeOK
<1> QED
  BY <1>1, <1>2 DEF CoreActs

\* Power, motion, the active set and the one-off actions change only on behalf of
\* the holder of write access, or towards standstill when the holder is gone
\* (main.rs:219-227, 351, 382, 435, 483, 499, 536).
THEOREM WriterCommands == Spec => OnlyWriterCommands
<1>1. ASSUME TypeOK, [Next]_vars
      PROVE  Commands => ByWriter \/ ByLoss
  <2> USE <1>1
  <2>1. CASE HandleMessage
    <3>1. /\ \E type : Handles(type)
          /\ Commands => IsWriter /\ holder' = holder
      BY <2>1 DEF HandleMessage, RequestWriteAccess, ReleaseWriteAccess, GetState,
                  GetCommandSet, ListSavedSets, UpsertActive, UpsertSaved,
                  UpdateCommand, DeleteActive, DeleteSaved, SetDrivePower,
                  SetMotionState, AcknowledgeError, ReplaceActive, Decline, Refuse,
                  coreVars, Commands
    <3> QED
      BY <3>1, HandlesActs DEF IsWriter, ByWriter
  <2>2. CASE HandleDisconnected
    <3>1. Receives("disconnected") /\ CoreActs
      BY <2>2, ReceivesActs DEF HandleDisconnected
    <3>2. Head(queue) \in Event /\ Head(queue).kind = "disconnected"
      BY <3>1, ReceivesTyped
    <3>3. Head(queue) = Disconnected(Head(queue).from)
      BY <3>2 DEF Event, Disconnected
    <3> QED
      BY <2>2, <3>1, <3>3 DEF HandleDisconnected, Commands, ByLoss
  <2>3. CASE HandleConnected \/ HandleDriveState \/ HandleHidReport
    BY <2>3 DEF HandleConnected, HandleDriveState, HandleHidReport, coreVars, Commands
  <2>4. CASE Environment
    BY <2>4 DEF Environment, OpenSession, CloseSession, SendMessage, HidConnects,
                HidDisconnects, HidReport, DriveReports, DriveTakesActions, Enqueue,
                coreVars, Commands
  <2>5. CASE UNCHANGED vars
    BY <2>5 DEF vars, coreVars, Commands
  <2> QED
    BY <2>1, <2>2, <2>3, <2>4, <2>5 DEF Next, CoreStep, HandleEvent
<1>2. TypeOK /\ [Next]_vars => [Commands => ByWriter \/ ByLoss]_vars
  BY <1>1
<1> QED
  BY <1>2, Typing, PTL DEF Spec, OnlyWriterCommands

----------------------------------------------------------------------------
(* Write access does not stay with a session that is gone.                 *)

\* An event behind which its sender stands, or the end of whose session is in
\* the channel behind it.
Vouched(i) ==
  \/ session[queue[i].from] = "open"
  \/ \E j \in DOMAIN queue : j > i /\ queue[j] = Disconnected(queue[i].from)

\* HolderIsLive is preserved only because whatever may still win write access
\* is vouched for in the same way: the messages and the reports in the channel,
\* and the report being handled.
AccessInv ==
  /\ HolderIsLive
  /\ \A i \in DOMAIN queue :
       queue[i].kind \in {"message", "hid_report"} => Vouched(i)
  /\ work # <<>> => session[Hid] = "open" \/ Gone(Hid)

\* Access moves only to the sender of the request being handled.
LEMMA HolderMoves ==
  ASSUME TypeOK, [Next]_vars
  PROVE  \/ holder' = holder
         \/ holder' = Nobody
         \/ /\ Handles("request_write_access")
            /\ holder' = Sender
BY DEF Next, vars, coreVars, CoreStep, HandleEvent, HandleConnected,
       HandleDisconnected, HandleDriveState, HandleHidReport, HandleMessage,
       RequestWriteAccess, ReleaseWriteAccess, GetState, GetCommandSet,
       ListSavedSets, UpsertActive, UpsertSaved, UpdateCommand, DeleteActive,
       DeleteSaved, SetDrivePower, SetMotionState, AcknowledgeError, ReplaceActive,
       Decline, Refuse, Environment, OpenSession, CloseSession, SendMessage,
       HidConnects, HidDisconnects, HidReport, DriveReports, DriveTakesActions,
       Enqueue
\* A channel is not what is left of it once something was taken off it or put
\* into it.
LEMMA TailDiffers ==
  ASSUME NEW S, NEW q \in Seq(S), q # <<>>
  PROVE  /\ Tail(q) # q
         /\ \A e : Tail(q) # Append(q, e)
<1>0. \A n \in Nat : n - 1 # n /\ n - 1 # n + 1
  OBVIOUS
<1>1. Len(q) \in Nat /\ Len(Tail(q)) = Len(q) - 1
  BY HeadTailProperties, LenProperties
<1>2. ASSUME NEW e
      PROVE  Len(Append(q, e)) = Len(q) + 1
  <2>1. q \in Seq(S \cup {e})
    BY SeqMonotonic
  <2> QED
    BY <2>1, AppendProperties
<1>3. \A e : Len(Tail(q)) # Len(Append(q, e))
  BY <1>0, <1>1, <1>2, Zenon
<1>4. Len(Tail(q)) # Len(q)
  BY <1>0, <1>1, Zenon
<1>5. Tail(q) # q
  BY <1>4, Zenon
<1>6. \A e : Tail(q) # Append(q, e)
  BY <1>3, Zenon
<1> QED
  BY <1>5, <1>6

\* What becomes of the channel in a step.
LEMMA QueueMoves ==
  ASSUME TypeOK, [Next]_vars
  PROVE  \/ UNCHANGED <<queue, session>>
         \/ /\ queue # <<>>
            /\ queue' = Tail(queue)
            /\ session' = session
         \/ \E e \in Event :
              /\ queue' = Append(queue, e)
              /\ UNCHANGED <<holder, work>>
              /\ \/ /\ session' = session
                    /\ e.kind # "disconnected"
                    /\ e.kind \in {"message", "hid_report"} => session[e.from] = "open"
                 \/ \E c \in Controllers :
                      \/ e = Connected(c)
                         /\ session' = [session EXCEPT ![c] = "open"]
                      \/ e = Disconnected(c)
                         /\ session' = [session EXCEPT ![c] = "closed"]
<1>0. WebSockets \subseteq Controllers /\ Hid \in Controllers
  BY DEF Controllers
<1>1. CASE HandleMessage
  <2>1. PICK type : Handles(type)
    BY <1>1 DEF HandleMessage, RequestWriteAccess, ReleaseWriteAccess, GetState,
                GetCommandSet, ListSavedSets, UpsertActive, UpsertSaved,
                UpdateCommand, DeleteActive, DeleteSaved, SetDrivePower,
                SetMotionState, AcknowledgeError
  <2> QED
    BY <2>1 DEF Handles, MessageReady
<1>2. CASE HandleEvent
  BY <1>2 DEF HandleEvent, HandleConnected, HandleDisconnected, HandleDriveState,
              HandleHidReport, Receives
<1>3. ASSUME NEW c \in WebSockets, OpenSession(c) \/ CloseSession(c)
      PROVE  \E e \in Event :
               /\ queue' = Append(queue, e)
               /\ UNCHANGED <<holder, work>>
               /\ \/ e = Connected(c) /\ session' = [session EXCEPT ![c] = "open"]
                  \/ e = Disconnected(c) /\ session' = [session EXCEPT ![c] = "closed"]
  <2>1. Connected(c) \in Event /\ Disconnected(c) \in Event
    BY <1>0 DEF Connected, Disconnected, Event
  <2> QED
    BY <1>3, <2>1 DEF OpenSession, CloseSession, Enqueue, coreVars
<1>4. CASE HidConnects \/ HidDisconnects
  <2>1. Connected(Hid) \in Event /\ Disconnected(Hid) \in Event
    BY <1>0 DEF Connected, Disconnected, Event
  <2> QED
    BY <1>0, <1>4, <2>1 DEF HidConnects, HidDisconnects, Enqueue, coreVars
<1>5. ASSUME NEW c \in WebSockets, NEW m \in Requests, SendMessage(c, m)
      PROVE  \E e \in Event : /\ queue' = Append(queue, e)
                              /\ UNCHANGED <<holder, work, session>>
                              /\ session[e.from] = "open"
                              /\ e.kind # "disconnected"
  <2> DEFINE e == [kind |-> "message", from |-> c, msg |-> m]
  <2>1. e \in Event
    BY RequestAssumption DEF Event
  <2> QED
    BY <1>5, <2>1 DEF SendMessage, Enqueue, coreVars
<1>6. ASSUME NEW r \in HidReports, HidReport(r)
      PROVE  \E e \in Event : /\ queue' = Append(queue, e)
                              /\ UNCHANGED <<holder, work, session>>
                              /\ session[e.from] = "open"
                              /\ e.kind # "disconnected"
  <2> DEFINE e == [kind |-> "hid_report", from |-> Hid, report |-> r]
  <2>1. e \in Event
    BY DEF Event
  <2> QED
    BY <1>6, <2>1 DEF HidReport, Enqueue, coreVars
<1>7. ASSUME NEW d \in ReportedStates, DriveReports(d)
      PROVE  \E e \in Event : /\ queue' = Append(queue, e)
                              /\ UNCHANGED <<holder, work, session>>
                              /\ e.kind = "drive_state"
  <2> DEFINE e == [kind |-> "drive_state", state |-> d]
  <2>1. e \in Event
    BY RequestAssumption DEF Event
  <2> QED
    BY <1>7, <2>1 DEF DriveReports, Enqueue, coreVars
<1>8. CASE DriveTakesActions
  BY <1>8 DEF DriveTakesActions
<1>9. CASE UNCHANGED vars
  BY <1>9 DEF vars
<1> QED
  BY <1>0, <1>1, <1>2, <1>3, <1>4, <1>5, <1>6, <1>7, <1>8, <1>9
  DEF Next, CoreStep, Environment

\* The work in progress is only ever a report just taken off the channel, or
\* what was left of it.
LEMMA WorkMoves ==
  ASSUME TypeOK, [Next]_vars, work' # <<>>
  PROVE  \/ work # <<>> /\ (queue # <<>> => queue' # Tail(queue))
         \/ Receives("hid_report")
<1> DEFINE Kept == queue # <<>> => queue' # Tail(queue)
<1>1. queue \in Seq(Event)
  BY DEF TypeOK
<1>2. UNCHANGED queue => Kept
  BY <1>1, TailDiffers, Zenon
<1>3. CASE HandleMessage
  <2>1. PICK type : Handles(type)
    BY <1>3 DEF HandleMessage, RequestWriteAccess, ReleaseWriteAccess, GetState,
                GetCommandSet, ListSavedSets, UpsertActive, UpsertSaved,
                UpdateCommand, DeleteActive, DeleteSaved, SetDrivePower,
                SetMotionState, AcknowledgeError
  <2>2. work # <<>> /\ UNCHANGED queue
    BY <2>1 DEF Handles
  <2> QED
    BY <1>2, <2>2
<1>4. CASE HandleEvent
  BY <1>4 DEF HandleEvent, HandleConnected, HandleDisconnected, HandleDriveState,
              HandleHidReport, Receives
<1>5. CASE Environment
  <2>1. /\ work' = work
        /\ UNCHANGED queue \/ \E e : queue' = Append(queue, e)
    BY <1>5 DEF Environment, OpenSession, CloseSession, SendMessage,
       HidConnects, HidDisconnects, HidReport, DriveReports, DriveTakesActions,
       Enqueue
  <2> QED
    BY <1>1, <1>2, <2>1, TailDiffers, Zenon
<1>6. CASE UNCHANGED vars
  BY <1>2, <1>6 DEF vars
<1> QED
  BY <1>3, <1>4, <1>5, <1>6 DEF Next, CoreStep

\* Taking the end of the holder's session off the channel ends its access.
LEMMA LossRevokes ==
  ASSUME TypeOK, [Next]_vars,
         queue # <<>>, queue' = Tail(queue), Head(queue) = Disconnected(holder)
  PROVE  holder' = Nobody
<1>1. queue' # queue /\ \A e : queue' # Append(queue, e)
  BY TailDiffers, Zenon DEF TypeOK
<1>2. Head(queue).kind = "disconnected" /\ Head(queue).from = holder
  BY DEF Disconnected
<1>3. CASE HandleMessage
  <2>1. PICK type : Handles(type)
    BY <1>3 DEF HandleMessage, RequestWriteAccess, ReleaseWriteAccess, GetState,
                GetCommandSet, ListSavedSets, UpsertActive, UpsertSaved,
                UpdateCommand, DeleteActive, DeleteSaved, SetDrivePower,
                SetMotionState, AcknowledgeError
  <2> QED
    BY <1>1, <1>2, <2>1, Zenon DEF Handles, MessageReady
<1>4. CASE HandleEvent
  BY <1>2, <1>4 DEF HandleEvent, HandleConnected, HandleDisconnected,
                    HandleDriveState, HandleHidReport, Receives
<1>5. CASE Environment
  <2>1. UNCHANGED queue \/ \E e : queue' = Append(queue, e)
    BY <1>5 DEF Environment, OpenSession, CloseSession, SendMessage,
       HidConnects, HidDisconnects, HidReport, DriveReports, DriveTakesActions,
       Enqueue
  <2> QED
    BY <1>1, <2>1, Zenon
<1>6. CASE UNCHANGED vars
  BY <1>1, <1>6, Zenon DEF vars
<1> QED
  BY <1>3, <1>4, <1>5, <1>6 DEF Next, CoreStep

\* While an event is taken off the channel, what stood behind it still stands
\* behind the others.
LEMMA TailKeeps ==
  ASSUME TypeOK, queue # <<>>, queue' = Tail(queue), session' = session
  PROVE  /\ 1 \in DOMAIN queue
         /\ \A i \in DOMAIN queue' :
              /\ i + 1 \in DOMAIN queue
              /\ queue'[i] = queue[i + 1]
              /\ Vouched(i + 1) => Vouched(i)'
         /\ \A c : Vouched(1) /\ c = Head(queue).from =>
                    session'[c] = "open" \/ Gone(c)'
         /\ \A c : Gone(c) /\ Head(queue) # Disconnected(c) => Gone(c)'
<1>1. /\ Len(queue) \in Nat \ {0}
      /\ DOMAIN queue = 1..Len(queue)
      /\ queue' \in Seq(Event)
      /\ Len(queue') = Len(queue) - 1
      /\ DOMAIN queue' = 1..Len(queue')
      /\ \A i \in 1..Len(queue') : queue'[i] = queue[i + 1]
      /\ Head(queue) = queue[1]
  BY HeadTailProperties, LenProperties, EmptySeq DEF TypeOK
<1>2. ASSUME NEW j \in DOMAIN queue, j > 1
      PROVE  j - 1 \in DOMAIN queue' /\ queue'[j - 1] = queue[j]
  BY <1>1, <1>2
<1>3. ASSUME NEW i \in DOMAIN queue'
      PROVE  /\ i + 1 \in DOMAIN queue
             /\ queue'[i] = queue[i + 1]
             /\ i \in Nat \ {0}
  BY <1>1
<1>4. ASSUME NEW i \in DOMAIN queue', Vouched(i + 1)
      PROVE  Vouched(i)'
  <2>1. CASE session[queue[i + 1].from] = "open"
    BY <1>3, <2>1 DEF Vouched
  <2>2. ASSUME NEW j \in DOMAIN queue, j > i + 1,
               queue[j] = Disconnected(queue[i + 1].from)
        PROVE  Vouched(i)'
    <3>1. j \in Nat /\ j > 1 /\ j - 1 > i
      BY <1>1, <1>3, <2>2
    <3> QED
      BY <1>2, <1>3, <2>2, <3>1 DEF Vouched, Disconnected
  <2> QED
    BY <1>4, <2>1, <2>2 DEF Vouched
<1>5. ASSUME NEW c, Vouched(1), c = Head(queue).from
      PROVE  session'[c] = "open" \/ Gone(c)'
  <2>1. CASE session[queue[1].from] = "open"
    BY <1>1, <1>5, <2>1
  <2>2. ASSUME NEW j \in DOMAIN queue, j > 1, queue[j] = Disconnected(queue[1].from)
        PROVE  Gone(c)'
    BY <1>1, <1>2, <1>5, <2>2 DEF Gone, Disconnected
  <2> QED
    BY <1>5, <2>1, <2>2 DEF Vouched
<1>6. ASSUME NEW c, Gone(c), Head(queue) # Disconnected(c)
      PROVE  Gone(c)'
  <2>1. PICK j \in DOMAIN queue : queue[j] = Disconnected(c)
    BY <1>6 DEF Gone
  <2>2. j > 1
    BY <1>1, <1>6, <2>1
  <2> QED
    BY <1>2, <2>1, <2>2 DEF Gone, Disconnected
<1>7. 1 \in DOMAIN queue
  BY <1>1
<1>8. \A i \in DOMAIN queue' : Vouched(i + 1) => Vouched(i)'
  BY <1>4
<1>9. \A c : Gone(c) /\ Head(queue) # Disconnected(c) => Gone(c)'
  BY <1>6
<1>10. \A c : Vouched(1) /\ c = Head(queue).from => session'[c] = "open" \/ Gone(c)'
  BY <1>5
<1> QED
  BY <1>3, <1>7, <1>8, <1>9, <1>10, Zenon

\* Putting an event into the channel takes nothing away from those before it.
LEMMA AppendKeeps ==
  ASSUME TypeOK, NEW e \in Event, queue' = Append(queue, e)
  PROVE  /\ DOMAIN queue' = DOMAIN queue \cup {Len(queue) + 1}
         /\ queue'[Len(queue) + 1] = e
         /\ \A i \in DOMAIN queue : i < Len(queue) + 1 /\ queue'[i] = queue[i]
         /\ \A c : Gone(c) => Gone(c)'
<1>1. /\ Len(queue) \in Nat
      /\ DOMAIN queue = 1..Len(queue)
      /\ queue' \in Seq(Event)
      /\ Len(queue') = Len(queue) + 1
      /\ DOMAIN queue' = 1..Len(queue')
      /\ \A i \in 1..Len(queue) : queue'[i] = queue[i]
      /\ queue'[Len(queue) + 1] = e
  BY AppendProperties, LenProperties DEF TypeOK
<1>2. DOMAIN queue' = DOMAIN queue \cup {Len(queue) + 1}
  BY <1>1
<1>3. \A i \in DOMAIN queue : i < Len(queue) + 1 /\ queue'[i] = queue[i]
  BY <1>1
<1>4. \A c : Gone(c) => Gone(c)'
  BY <1>2, <1>3 DEF Gone, Disconnected
<1> QED
  BY <1>1, <1>2, <1>3, <1>4

\* Putting an event into the channel keeps the invariant, if the sender of a
\* message or a report is connected.
LEMMA AppendKeepsAccess ==
  ASSUME TypeOK, AccessInv, NEW e \in Event,
         queue' = Append(queue, e), UNCHANGED <<holder, work>>,
         \/ /\ session' = session
            /\ e.kind \in {"message", "hid_report"} => session[e.from] = "open"
         \/ \E c \in Controllers :
              \/ e = Connected(c) /\ session' = [session EXCEPT ![c] = "open"]
              \/ e = Disconnected(c) /\ session' = [session EXCEPT ![c] = "closed"]
  PROVE  AccessInv'
<1> USE DEF AccessInv, HolderIsLive
<1>0. /\ Hid \in Controllers
      /\ session \in [Controllers -> {"fresh", "open", "closed"}]
      /\ WebSockets \subseteq Controllers
      /\ \A i \in DOMAIN queue : queue[i] \in Event
  BY ElementOfSeq, LenProperties DEF Controllers, TypeOK
<1>10. PICK n : n = Len(queue) + 1
  OBVIOUS
<1>1. /\ DOMAIN queue' = DOMAIN queue \cup {n}
      /\ queue'[n] = e
      /\ \A i \in DOMAIN queue : i < n /\ queue'[i] = queue[i]
      /\ \A c : Gone(c) => Gone(c)'
  BY <1>10, AppendKeeps
<1>2. ASSUME NEW c \in Controllers, session[c] = "open"
      PROVE  session'[c] = "open" \/ (session'[c] = "closed" /\ e = Disconnected(c))
  <2>1. ASSUME NEW d \in Controllers,
               \/ session' = [session EXCEPT ![d] = "open"]
               \/ e = Disconnected(d) /\ session' = [session EXCEPT ![d] = "closed"]
        PROVE  session'[c] = "open" \/ (session'[c] = "closed" /\ e = Disconnected(c))
    <3>1. CASE c = d
      BY <1>0, <2>1, <3>1
    <3>2. CASE c # d
      BY <1>0, <1>2, <2>1, <3>2
    <3> QED
      BY <3>1, <3>2
  <2>2. \/ session' = session
        \/ \E d \in Controllers :
             \/ session' = [session EXCEPT ![d] = "open"]
             \/ e = Disconnected(d) /\ session' = [session EXCEPT ![d] = "closed"]
    OBVIOUS
  <2> QED
    BY <1>2, <2>1, <2>2
<1>3. ASSUME NEW c \in Controllers, session[c] = "open" \/ Gone(c)
      PROVE  session'[c] = "open" \/ Gone(c)'
  BY <1>1, <1>2, <1>3 DEF Gone, Disconnected
<1>4. ASSUME NEW i \in DOMAIN queue, queue[i].from \in Controllers, Vouched(i)
      PROVE  Vouched(i)'
  <2>1. CASE session[queue[i].from] = "open"
    BY <1>1, <1>2, <1>4, <2>1 DEF Vouched, Disconnected
  <2>2. CASE \E j \in DOMAIN queue : j > i /\ queue[j] = Disconnected(queue[i].from)
    BY <1>1, <2>2 DEF Vouched, Disconnected
  <2> QED
    BY <1>4, <2>1, <2>2 DEF Vouched
<1>5. e.kind \in {"message", "hid_report"} => Vouched(n)'
  <2>1. ASSUME NEW c PROVE /\ Connected(c).kind = "connected"
                           /\ Disconnected(c).kind = "disconnected"
    BY DEF Connected, Disconnected
  <2>2. e.kind \in {"message", "hid_report"} => session'[e.from] = "open"
    BY <2>1
  <2> QED
    BY <1>1, <2>2 DEF Vouched
<1>6. ASSUME NEW i \in DOMAIN queue, queue[i].kind \in {"message", "hid_report"}
      PROVE  queue[i].from \in Controllers
  BY <1>0, <1>6 DEF Event
<1>7. \A i \in DOMAIN queue' :
        queue'[i].kind \in {"message", "hid_report"} => Vouched(i)'
  BY <1>1, <1>4, <1>5, <1>6
<1>8. work' # <<>> => session'[Hid] = "open" \/ Gone(Hid)'
  BY <1>0, <1>3
<1>9. holder' \in Controllers => session'[holder'] = "open" \/ Gone(holder)'
  BY <1>3 DEF Gone, Disconnected
<1> QED
  BY <1>7, <1>8, <1>9

LEMMA AccessStep ==
  ASSUME TypeOK, AccessInv, [Next]_vars
  PROVE  AccessInv'
<1> USE DEF AccessInv, HolderIsLive
<1>0. /\ Hid \in Controllers
      /\ Nobody \notin Controllers
      /\ WebSockets \subseteq Controllers
      /\ queue \in Seq(Event)
      /\ session \in [Controllers -> {"fresh", "open", "closed"}]
      /\ \A i \in DOMAIN queue : queue[i] \in Event
  BY ControllerAssumption, ElementOfSeq, LenProperties DEF Controllers, TypeOK
<1>1. CASE UNCHANGED <<queue, session>>
  <2>1. \A i \in DOMAIN queue' : Vouched(i) => Vouched(i)'
    BY <1>1 DEF Vouched, Disconnected
  <2>2. \A c : Gone(c) => Gone(c)'
    BY <1>1 DEF Gone, Disconnected
  <2>3. queue # <<>> => queue' # Tail(queue)
    BY <1>0, <1>1, TailDiffers, Zenon
  <2>4. ~Receives("hid_report")
    BY <2>3 DEF Receives
  <2>5. work' # <<>> => work # <<>>
    BY <2>4, WorkMoves
  <2>6. ASSUME Handles("request_write_access"), holder' = Sender
        PROVE  holder' = Hid /\ work # <<>>
    <3>1. work # <<>>
      BY <2>3, <2>6 DEF Handles, MessageReady
    <3> QED
      BY <2>6, <3>1 DEF Sender
  <2>7. holder' = holder \/ holder' = Nobody \/ (holder' = Hid /\ work # <<>>)
    BY <2>6, HolderMoves
  <2> QED
    BY <1>0, <1>1, <2>1, <2>2, <2>5, <2>7
<1>2. CASE queue # <<>> /\ queue' = Tail(queue) /\ session' = session
  <2>1. /\ 1 \in DOMAIN queue
        /\ \A i \in DOMAIN queue' :
             /\ i + 1 \in DOMAIN queue
             /\ queue'[i] = queue[i + 1]
             /\ Vouched(i + 1) => Vouched(i)'
        /\ \A c : Vouched(1) /\ c = Head(queue).from =>
                   session'[c] = "open" \/ Gone(c)'
        /\ \A c : Gone(c) /\ Head(queue) # Disconnected(c) => Gone(c)'
    BY <1>2, TailKeeps, Zenon
  <2>2. Head(queue) = queue[1]
    BY <1>0, <1>2
  <2>3. \A i \in DOMAIN queue' :
          queue'[i].kind \in {"message", "hid_report"} => Vouched(i)'
    BY <2>1
  <2>4. ASSUME work' # <<>> PROVE session'[Hid] = "open" \/ Gone(Hid)'
    <3>1. Receives("hid_report")
      BY <1>2, <2>4, WorkMoves
    <3>2. Head(queue).kind = "hid_report" /\ Head(queue).from = Hid
      BY <1>0, <2>1, <2>2, <3>1 DEF Receives, Event
    <3> QED
      BY <2>1, <2>2, <3>2
  <2>5. ASSUME holder' \in Controllers PROVE session'[holder'] = "open" \/ Gone(holder)'
    <3>1. CASE holder' = holder
      <4>1. Head(queue) # Disconnected(holder)
        BY <1>0, <1>2, <2>5, <3>1, LossRevokes
      <4>2. Gone(holder) => Gone(holder)'
        BY <2>1, <3>1, <4>1 DEF Gone, Disconnected
      <4> QED
        BY <1>2, <2>5, <3>1, <4>2
    <3>2. CASE Handles("request_write_access") /\ holder' = Sender
      <4>1. work = <<>> /\ Head(queue).kind = "message"
        BY <1>0, <1>2, <3>2, TailDiffers, Zenon DEF Handles, MessageReady
      <4>2. holder' = Head(queue).from
        BY <3>2, <4>1 DEF Sender
      <4>3. Vouched(1)
        BY <2>1, <2>2, <4>1
      <4>4. session'[holder'] = "open" \/ \E c : c = holder' /\ Gone(c)'
        BY <2>1, <4>2, <4>3
      <4> QED
        BY <4>4 DEF Gone, Disconnected
    <3> QED
      BY <1>0, <2>5, <3>1, <3>2, HolderMoves
  <2> QED
    BY <2>3, <2>4, <2>5
<1>3. CASE \E e \in Event :
              /\ queue' = Append(queue, e)
              /\ UNCHANGED <<holder, work>>
              /\ \/ /\ session' = session
                    /\ e.kind \in {"message", "hid_report"} => session[e.from] = "open"
                 \/ \E c \in Controllers :
                      \/ e = Connected(c) /\ session' = [session EXCEPT ![c] = "open"]
                      \/ e = Disconnected(c) /\ session' = [session EXCEPT ![c] = "closed"]
  BY <1>3, AppendKeepsAccess
<1> QED
  BY <1>1, <1>2, <1>3, QueueMoves

LEMMA InitAccess ==
  ASSUME Init
  PROVE  AccessInv
<1>1. DOMAIN queue = {}
  BY EmptySeq, LenProperties DEF Init
<1> QED
  BY <1>1, ControllerAssumption DEF Init, AccessInv, HolderIsLive

\* A controller that holds write access is connected, or the event that will
\* revoke its access is in the channel: whatever sessions open, close and leave
\* behind in the channel, write access never stays with one that is gone
\* (main.rs:219-237, 270-286).
THEOREM LiveHolder == Spec => []HolderIsLive
<1>1. Init => AccessInv
  BY InitAccess
<1>2. TypeOK /\ AccessInv /\ [Next]_vars => AccessInv'
  BY AccessStep
<1>3. AccessInv => HolderIsLive
  BY DEF AccessInv
<1> QED
  BY <1>1, <1>2, <1>3, Typing, PTL DEF Spec

----------------------------------------------------------------------------
(* The rules of the designated writer: each step of the core is one of     *)
(* them or leaves their variables alone.                                   *)

\* The end of a WebSocket session is in the channel only once it has closed, and
\* it never opens again.
EndsAreFinal ==
  \A i \in DOMAIN queue :
    (queue[i].kind = "disconnected" /\ queue[i].from \in WebSockets)
      => session[queue[i].from] = "closed"

\* Sessions that have closed stay so.
LEMMA ClosedStays ==
  ASSUME TypeOK, [Next]_vars, NEW c \in WebSockets, session[c] = "closed"
  PROVE  session'[c] = "closed"
<1>1. /\ session \in [Controllers -> {"fresh", "open", "closed"}]
      /\ c \in Controllers
      /\ c # Hid
  BY ControllerAssumption DEF TypeOK, Controllers
<1>2. CASE session' = session
  BY <1>2
<1>3. ASSUME NEW d \in WebSockets, OpenSession(d)
      PROVE  session'[c] = "closed"
  BY <1>1, <1>3 DEF OpenSession
<1>4. ASSUME NEW d \in WebSockets, CloseSession(d)
      PROVE  session'[c] = "closed"
  BY <1>1, <1>4 DEF CloseSession
<1>5. CASE HidConnects \/ HidDisconnects
  BY <1>1, <1>5 DEF HidConnects, HidDisconnects
<1>6. CASE HandleMessage
  BY <1>2, <1>6 DEF HandleMessage, RequestWriteAccess, ReleaseWriteAccess, GetState,
                    GetCommandSet, ListSavedSets, UpsertActive, UpsertSaved,
                    UpdateCommand, DeleteActive, DeleteSaved, SetDrivePower,
                    SetMotionState, AcknowledgeError, Handles
<1>7. CASE HandleEvent
  BY <1>2, <1>7 DEF HandleEvent, HandleConnected, HandleDisconnected,
                    HandleDriveState, HandleHidReport, Receives
<1> QED
  BY <1>2, <1>3, <1>4, <1>5, <1>6, <1>7
  DEF Next, CoreStep, Environment, SendMessage, HidReport, DriveReports,
      DriveTakesActions, vars

LEMMA EndsStep ==
  ASSUME TypeOK, EndsAreFinal, [Next]_vars
  PROVE  EndsAreFinal'
<1>1. queue \in Seq(Event)
  BY DEF TypeOK
<1>2. \A c \in WebSockets : session[c] = "closed" => session'[c] = "closed"
  BY ClosedStays
<1>3. CASE queue' = queue
  BY <1>2, <1>3 DEF EndsAreFinal
<1>4. CASE queue # <<>> /\ queue' = Tail(queue)
  <2>1. /\ Len(queue) \in Nat
        /\ DOMAIN queue = 1..Len(queue)
        /\ DOMAIN queue' = 1..(Len(queue) - 1)
        /\ \A i \in DOMAIN queue' : queue'[i] = queue[i + 1]
    BY <1>1, <1>4, HeadTailProperties, LenProperties
  <2>2. \A i \in DOMAIN queue' : i + 1 \in DOMAIN queue
    BY <2>1
  <2> QED
    BY <1>2, <2>1, <2>2 DEF EndsAreFinal
<1>5. ASSUME NEW e \in Event, queue' = Append(queue, e),
             (e.kind = "disconnected" /\ e.from \in WebSockets)
               => session'[e.from] = "closed"
      PROVE  EndsAreFinal'
  <2>1. /\ Len(queue) \in Nat
        /\ DOMAIN queue = 1..Len(queue)
        /\ DOMAIN queue' = 1..(Len(queue) + 1)
        /\ queue'[Len(queue) + 1] = e
        /\ \A i \in DOMAIN queue : queue'[i] = queue[i]
    BY <1>1, <1>5, AppendProperties, LenProperties
  <2>2. ASSUME NEW i \in DOMAIN queue', queue'[i].kind = "disconnected",
               queue'[i].from \in WebSockets
        PROVE  session'[queue'[i].from] = "closed"
    <3>1. CASE i \in DOMAIN queue
      BY <1>2, <2>1, <2>2, <3>1 DEF EndsAreFinal
    <3>2. CASE i = Len(queue) + 1
      BY <1>5, <2>1, <2>2, <3>2
    <3> QED
      BY <2>1, <2>2, <3>1, <3>2
  <2> QED
    BY <2>2 DEF EndsAreFinal
<1>6. ASSUME NEW e \in Event, queue' = Append(queue, e),
             e.kind # "disconnected" \/
             \E c \in Controllers :
               \/ e = Connected(c)
               \/ e = Disconnected(c) /\ session' = [session EXCEPT ![c] = "closed"]
      PROVE  EndsAreFinal'
  BY <1>5, <1>6 DEF Connected, Disconnected, TypeOK
<1> QED
  BY <1>3, <1>4, <1>6, QueueMoves

----------------------------------------------------------------------------
(* The steps of the rules.                                                 *)

OpenNow == {c \in Controllers : session[c] = "open"}

LEMMA InitMaps ==
  ASSUME Init
  PROVE  Rules!Init
BY DEF Init, Rules!Init

\* What the rules see of a step that is none of theirs.
LEMMA Unseen ==
  ASSUME UNCHANGED <<holder, driveState, session>>,
         shared'.power = shared.power, shared'.motion = shared.motion
  PROVE  UNCHANGED Rules!vars
BY DEF Rules!vars

LEMMA SetActiveUnseen ==
  ASSUME TypeOK, NEW cs, SetActiveCommands(cs)
  PROVE  shared'.power = shared.power /\ shared'.motion = shared.motion
BY DEF TypeOK, SetActiveCommands

LEMMA MessageMaps ==
  ASSUME TypeOK, HandleMessage
  PROVE  [Rules!Next]_(Rules!vars)
<1> DEFINE Goal == [Rules!Next]_(Rules!vars)
<1>0. session' = session
  BY DEF HandleMessage, RequestWriteAccess, ReleaseWriteAccess, GetState,
         GetCommandSet, ListSavedSets, UpsertActive, UpsertSaved, UpdateCommand,
         DeleteActive, DeleteSaved, SetDrivePower, SetMotionState,
         AcknowledgeError, Handles
<1>1. ASSUME UNCHANGED <<holder, driveState, shared>> PROVE Goal
  BY <1>0, <1>1, Unseen
<1>2. ASSUME NEW cs, SetActiveCommands(cs), UNCHANGED <<holder, driveState>>
      PROVE  Goal
  BY <1>0, <1>2, SetActiveUnseen, Unseen
<1>3. ASSUME holder # Nobody, Rules!Command PROVE Goal
  BY <1>3 DEF Rules!Next
<1>4. CASE RequestWriteAccess
  <2>1. CASE /\ CanTakeWriteAccess
             /\ holder' = Sender
             /\ UNCHANGED <<driveState, shared>>
    <3>1. Sender \in Controllers
      BY <1>4, HandlesTyped DEF RequestWriteAccess
    <3>2. Rules!Claim(Sender)
      BY <1>0, <2>1 DEF Rules!Claim, CanTakeWriteAccess
    <3> QED
      BY <3>1, <3>2 DEF Rules!Next
  <2> QED
    BY <1>1, <1>4, <2>1 DEF RequestWriteAccess
<1>5. CASE ReleaseWriteAccess
  <2>1. CASE /\ IsWriter
             /\ holder' = Nobody
             /\ UNCHANGED <<driveState, shared>>
    <3>1. holder # Nobody
      BY <1>5, <2>1, HandlesTyped, ControllerAssumption
      DEF ReleaseWriteAccess, IsWriter
    <3>2. Rules!Release
      BY <1>0, <2>1, <3>1 DEF Rules!Release
    <3> QED
      BY <3>2 DEF Rules!Next
  <2> QED
    BY <1>1, <1>5, <2>1 DEF ReleaseWriteAccess, Refuse, coreVars
<1>6. CASE GetState \/ GetCommandSet \/ ListSavedSets
  BY <1>1, <1>6 DEF GetState, GetCommandSet, ListSavedSets, Decline, coreVars
<1>7. CASE UpsertSaved \/ DeleteSaved \/ AcknowledgeError
  BY <1>1, <1>7 DEF UpsertSaved, DeleteSaved, AcknowledgeError, Decline, Refuse,
                    coreVars
<1>8. ASSUME NEW cs, ReplaceActive(cs) PROVE Goal
  BY <1>1, <1>2, <1>8 DEF ReplaceActive, Decline, Refuse, coreVars
<1>9. CASE UpsertActive \/ DeleteActive
  BY <1>8, <1>9 DEF UpsertActive, DeleteActive
<1>10. CASE UpdateCommand
  BY <1>1, <1>2, <1>10 DEF UpdateCommand, Decline, Refuse, coreVars
<1>11. CASE SetDrivePower
  <2>1. CASE /\ IsWriter
             /\ shared' = [shared EXCEPT !.power = Request.enabled,
                                         !.motion = Request.enabled /\ @]
             /\ UNCHANGED <<holder, driveState>>
    <3>1. Sender \in Controllers /\ Request.enabled \in BOOLEAN
      BY <1>11, HandlesTyped, RequestTyped DEF SetDrivePower
    <3>2. holder # Nobody
      BY <2>1, <3>1, ControllerAssumption DEF IsWriter
    <3>3. /\ shared'.power = Request.enabled
          /\ shared'.motion = (Request.enabled /\ shared.motion)
      BY <2>1 DEF TypeOK
    <3>4. shared.motion \in BOOLEAN
      BY DEF TypeOK
    <3>5. \/ shared'.power = TRUE /\ shared'.motion = shared.motion
          \/ shared'.power = FALSE /\ shared'.motion = FALSE
      BY <3>1, <3>3, <3>4
    <3> QED
      BY <1>0, <1>3, <2>1, <3>2, <3>5 DEF Rules!Command
  <2> QED
    BY <1>1, <1>11, <2>1 DEF SetDrivePower, Refuse, coreVars
<1>12. CASE SetMotionState
  <2>1. CASE /\ IsWriter
             /\ shared' = [shared EXCEPT !.motion = Enables(Request.action)]
             /\ UNCHANGED <<holder, driveState>>
    <3>1. Sender \in Controllers
      BY <1>12, HandlesTyped DEF SetMotionState
    <3>2. holder # Nobody
      BY <2>1, <3>1, ControllerAssumption DEF IsWriter
    <3>3. Enables(Request.action) \in BOOLEAN
      BY DEF Enables
    <3>4. shared'.power = shared.power /\ shared'.motion \in BOOLEAN
      BY <2>1, <3>3 DEF TypeOK
    <3> QED
      BY <1>0, <1>3, <2>1, <3>2, <3>4 DEF Rules!Command
  <2> QED
    BY <1>1, <1>12, <2>1 DEF SetMotionState, Decline, Refuse, coreVars
<1> QED
  BY <1>4, <1>5, <1>6, <1>7, <1>9, <1>10, <1>11, <1>12 DEF HandleMessage

LEMMA EventMaps ==
  ASSUME TypeOK, EndsAreFinal, HandleEvent
  PROVE  [Rules!Next]_(Rules!vars)
<1> DEFINE Goal == [Rules!Next]_(Rules!vars)
<1>0. session' = session
  BY DEF HandleEvent, HandleConnected, HandleDisconnected, HandleDriveState,
         HandleHidReport, Receives
<1>1. ASSUME UNCHANGED <<holder, driveState, shared>> PROVE Goal
  BY <1>0, <1>1, Unseen
<1>2. CASE HandleConnected \/ HandleHidReport
  BY <1>1, <1>2 DEF HandleConnected, HandleHidReport, coreVars
<1>3. CASE HandleDriveState
  <2>1. driveState' \in DriveStates
    BY <1>3, ReceivesTyped, EventTyped DEF HandleDriveState
  <2>2. Rules!Report
    BY <1>0, <1>3, <2>1 DEF HandleDriveState, Rules!Report
  <2> QED
    BY <2>2 DEF Rules!Next
<1>4. CASE HandleDisconnected
  <2>1. /\ queue # <<>>
        /\ Head(queue) \in Event
        /\ Head(queue).kind = "disconnected"
        /\ Head(queue).from \in Controllers
    BY <1>4, ReceivesTyped, EventTyped DEF HandleDisconnected
  <2>2. CASE /\ holder = Head(queue).from
             /\ holder' = Nobody
             /\ shared' = [shared EXCEPT !.power = FALSE, !.motion = FALSE]
             /\ driveState' = driveState
    <3>1. holder # Nobody
      BY <2>1, <2>2, ControllerAssumption
    <3>2. 1 \in DOMAIN queue /\ Head(queue) = queue[1]
      BY <2>1, LenProperties DEF TypeOK
    <3>3. holder \notin OpenNow \/ holder = Hid
      BY <2>1, <2>2, <3>2 DEF EndsAreFinal, OpenNow, Controllers
    <3>4. shared'.power = FALSE /\ shared'.motion = FALSE
      BY <2>2 DEF TypeOK
    <3>5. Rules!Revoke
      BY <1>0, <2>2, <3>1, <3>3, <3>4 DEF Rules!Revoke, OpenNow
    <3> QED
      BY <3>5 DEF Rules!Next
  <2> QED
    BY <1>1, <1>4, <2>2 DEF HandleDisconnected
<1> QED
  BY <1>2, <1>3, <1>4 DEF HandleEvent

LEMMA EnvironmentMaps ==
  ASSUME TypeOK, Environment
  PROVE  [Rules!Next]_(Rules!vars)
<1> DEFINE Goal == [Rules!Next]_(Rules!vars)
<1>0. /\ WebSockets \subseteq Controllers
      /\ Hid \in Controllers
      /\ session \in [Controllers -> {"fresh", "open", "closed"}]
  BY DEF Controllers, TypeOK
<1>1. ASSUME UNCHANGED <<holder, driveState, shared, session>> PROVE Goal
  BY <1>1, Unseen
<1>2. ASSUME NEW c \in Controllers, session' = [session EXCEPT ![c] = "open"],
             UNCHANGED <<holder, driveState, shared>>
      PROVE  Goal
  <2>1. OpenNow' = OpenNow \cup {c}
    BY <1>0, <1>2 DEF OpenNow
  <2>2. Rules!Join(c)
    BY <1>2, <2>1 DEF Rules!Join, OpenNow
  <2> QED
    BY <2>2 DEF Rules!Next
<1>3. ASSUME NEW c \in Controllers, session' = [session EXCEPT ![c] = "closed"],
             UNCHANGED <<holder, driveState, shared>>
      PROVE  Goal
  <2>1. OpenNow' = OpenNow \ {c}
    BY <1>0, <1>3 DEF OpenNow
  <2>2. Rules!Leave(c)
    BY <1>3, <2>1 DEF Rules!Leave, OpenNow
  <2> QED
    BY <2>2 DEF Rules!Next
<1>4. ASSUME NEW c \in WebSockets, OpenSession(c) PROVE Goal
  BY <1>0, <1>2, <1>4 DEF OpenSession, Enqueue, coreVars
<1>5. ASSUME NEW c \in WebSockets, CloseSession(c) PROVE Goal
  BY <1>0, <1>3, <1>5 DEF CloseSession, Enqueue, coreVars
<1>6. CASE HidConnects
  BY <1>0, <1>2, <1>6 DEF HidConnects, Enqueue, coreVars
<1>7. CASE HidDisconnects
  BY <1>0, <1>3, <1>7 DEF HidDisconnects, Enqueue, coreVars
<1>8. CASE \/ \E c \in WebSockets, m \in Requests : SendMessage(c, m)
           \/ \E r \in HidReports : HidReport(r)
           \/ \E s \in ReportedStates : DriveReports(s)
           \/ DriveTakesActions
  BY <1>1, <1>8 DEF SendMessage, HidReport, DriveReports, DriveTakesActions,
                    Enqueue, coreVars
<1> QED
  BY <1>4, <1>5, <1>6, <1>7, <1>8 DEF Environment

\* The core implements the rules of the designated writer: it starts as they do,
\* and each of its steps is one of theirs or changes nothing that they speak of
\* (main.rs:219-237, 270-312, 351-553). That a lost writer is eventually revoked
\* is not part of this theorem.
THEOREM ObeysRules == Spec => Rules!Init /\ [][Rules!Next]_(Rules!vars)
<1>1. Init => EndsAreFinal
  <2> SUFFICES ASSUME Init PROVE EndsAreFinal
    OBVIOUS
  <2>1. DOMAIN queue = {}
    BY EmptySeq, LenProperties DEF Init
  <2> QED
    BY <2>1 DEF EndsAreFinal
<1>2. TypeOK /\ EndsAreFinal /\ [Next]_vars => EndsAreFinal'
  BY EndsStep
<1>3. ASSUME TypeOK, EndsAreFinal, [Next]_vars
      PROVE  [Rules!Next]_(Rules!vars)
  <2>1. CASE UNCHANGED vars
    BY <2>1 DEF vars, coreVars, Rules!vars
  <2> QED
    BY <1>3, <2>1, MessageMaps, EventMaps, EnvironmentMaps DEF Next, CoreStep
<1>4. TypeOK /\ EndsAreFinal /\ [Next]_vars => [Rules!Next]_(Rules!vars)
  BY <1>3
<1> QED
  BY <1>1, <1>2, <1>4, InitMaps, Typing, PTL DEF Spec

----------------------------------------------------------------------------
(* The shape of what is sent.                                              *)

LEMMA ReplyShape ==
  ASSUME Sender \in Controllers, NEW body, Reply(body)
  PROVE  /\ Len(sent') = 1
         /\ DOMAIN sent' = {1}
         /\ sent'[1].to = Sender
         /\ sent'[1].body = body
<1>1. /\ Len(sent') = 1
      /\ DOMAIN sent' = {1}
      /\ sent'[1] = To(Sender, body)
  BY DEF Reply
<1> QED
  BY <1>1 DEF To

LEMMA AnnounceShape ==
  ASSUME Sender \in Controllers, NEW broadcast, NEW reply, Announce(broadcast, reply)
  PROVE  /\ Len(sent') = 2
         /\ DOMAIN sent' = {1, 2}
         /\ sent'[1].to = Everyone
         /\ sent'[1].body = broadcast
         /\ sent'[2].to = Sender
         /\ sent'[2].body = reply
<1>1. /\ Len(sent') = 2
      /\ DOMAIN sent' = {1, 2}
      /\ sent'[1] = To(Everyone, broadcast)
      /\ sent'[2] = To(Sender, reply)
  BY DEF Announce
<1> QED
  BY <1>1 DEF To

LEMMA Bodies ==
  /\ \A new, old : WriteAccessChanged(new, old).type = "write_access_changed"
  /\ \A v, u : /\ CommandSetChanged(v, u).type = "command_set_changed"
               /\ CommandSetChanged(v, u).version = v
  /\ ~IsFailure(Ack(TRUE, ""))
  /\ \A v : ~IsFailure(CommandResult(TRUE, v))
  /\ \A c : ~IsFailure(WriteAccessResult(TRUE, c))
BY DEF WriteAccessChanged, CommandSetChanged, Ack, CommandResult,
       WriteAccessResult, IsFailure

----------------------------------------------------------------------------
(* The four ways in which a request ends.                                  *)

\* Nothing changed; the answer may be a failure.
Declines == \E body : Decline(body)

\* Something changed that is not broadcast.
Accepts ==
  \E body : Reply(body) /\ ~IsFailure(body) /\ UNCHANGED <<holder, active>>

MovesAccess ==
  /\ holder' # holder
  /\ active' = active
  /\ \E reply : /\ Announce(WriteAccessChanged(holder', holder), reply)
                /\ ~IsFailure(reply)

ChangesSet ==
  /\ holder' = holder
  /\ active' # active
  /\ \E update, reply : /\ Announce(CommandSetChanged(active'.version, update), reply)
                        /\ ~IsFailure(reply)

Answered == Declines \/ Accepts \/ MovesAccess \/ ChangesSet

LEMMA NewVersion ==
  ASSUME TypeOK, NEW cs, SetActiveCommands(cs)
  PROVE  active'.version = active.version + 1 /\ active' # active
<1>1. active.version \in Nat
  BY DEF TypeOK, CommandSet
<1>2. active'.version = active.version + 1
  BY DEF SetActiveCommands
<1> QED
  BY <1>1, <1>2

LEMMA SetReplaced ==
  ASSUME TypeOK, NEW cs, NEW update, SetActiveCommands(cs), holder' = holder,
         Announce(CommandSetChanged(active.version + 1, update),
                  CommandResult(TRUE, active.version + 1))
  PROVE  ChangesSet
BY NewVersion, Bodies DEF ChangesSet

LEMMA ReplaceAnswers ==
  ASSUME TypeOK, NEW cs, ReplaceActive(cs)
  PROVE  Answered
<1>1. CASE /\ SetActiveCommands(cs)
           /\ Announce(CommandSetChanged(active.version + 1, "all"),
                       CommandResult(TRUE, active.version + 1))
           /\ holder' = holder
  BY <1>1, SetReplaced DEF Answered
<1>2. CASE Decline(CommandResult(FALSE, active.version)) \/ Refuse
  BY <1>2 DEF Answered, Declines, Decline, Refuse
<1> QED
  BY <1>1, <1>2 DEF ReplaceActive

LEMMA MessageAnswers ==
  ASSUME TypeOK, HandleMessage
  PROVE  Answered
<1>1. ASSUME Refuse PROVE Answered
  BY <1>1 DEF Refuse, Decline, Answered, Declines
<1>2. ASSUME NEW body, Decline(body) PROVE Answered
  BY <1>2 DEF Answered, Declines
<1>3. ASSUME NEW body, Reply(body), ~IsFailure(body), UNCHANGED <<holder, active>>
      PROVE  Answered
  BY <1>3 DEF Answered, Accepts
<1>4. CASE RequestWriteAccess
  <2>1. CASE /\ holder' = Sender
             /\ holder # Sender
             /\ Announce(WriteAccessChanged(Sender, holder),
                         WriteAccessResult(TRUE, Sender))
             /\ active' = active
    BY <2>1, Bodies DEF Answered, MovesAccess
  <2>2. CASE /\ holder' = Sender
             /\ holder = Sender
             /\ Reply(WriteAccessResult(TRUE, Sender))
             /\ active' = active
    BY <1>3, <2>2, Bodies
  <2>3. CASE /\ Reply(WriteAccessResult(FALSE, holder))
             /\ UNCHANGED coreVars
    BY <1>2, <2>3 DEF Decline
  <2> QED
    BY <1>4, <2>1, <2>2, <2>3 DEF RequestWriteAccess, coreVars
<1>5. CASE ReleaseWriteAccess
  <2>1. CASE /\ IsWriter
             /\ holder' = Nobody
             /\ Announce(WriteAccessChanged(Nobody, holder), Ack(TRUE, ""))
             /\ active' = active
    <3>1. holder # Nobody
      BY <1>5, <2>1, HandlesTyped, ControllerAssumption
      DEF ReleaseWriteAccess, IsWriter
    <3> QED
      BY <2>1, <3>1, Bodies DEF Answered, MovesAccess
  <2> QED
    BY <1>1, <1>5, <2>1 DEF ReleaseWriteAccess
<1>6. CASE GetState \/ GetCommandSet \/ ListSavedSets
  BY <1>2, <1>6 DEF GetState, GetCommandSet, ListSavedSets
<1>7. CASE UpsertActive \/ DeleteActive
  BY <1>7, ReplaceAnswers DEF UpsertActive, DeleteActive
<1>8. CASE UpsertSaved \/ DeleteSaved
  BY <1>2, <1>3, <1>8, Bodies DEF UpsertSaved, DeleteSaved
<1>9. CASE UpdateCommand
  <2>1. ASSUME NEW cs, SetActiveCommands(cs), holder' = holder,
               Announce(CommandSetChanged(active.version + 1, "one"),
                        CommandResult(TRUE, active.version + 1))
        PROVE  Answered
    BY <2>1, SetReplaced DEF Answered
  <2> QED
    BY <1>1, <1>2, <1>9, <2>1 DEF UpdateCommand
<1>10. CASE SetDrivePower \/ SetMotionState \/ AcknowledgeError
  BY <1>1, <1>2, <1>3, <1>10, Bodies DEF SetDrivePower, SetMotionState, AcknowledgeError
<1> QED
  BY <1>4, <1>5, <1>6, <1>7, <1>8, <1>9, <1>10 DEF HandleMessage

\* The request is one that some controller made.
LEMMA MessageHasSender ==
  ASSUME TypeOK, HandleMessage
  PROVE  Sender \in Controllers
<1>1. \E type : Handles(type)
  BY DEF HandleMessage, RequestWriteAccess, ReleaseWriteAccess, GetState,
         GetCommandSet, ListSavedSets, UpsertActive, UpsertSaved, UpdateCommand,
         DeleteActive, DeleteSaved, SetDrivePower, SetMotionState, AcknowledgeError
<1> QED
  BY <1>1, HandlesTyped

----------------------------------------------------------------------------
(* Steps that are not the core's, and steps that are not about a request.  *)

LEMMA EnvironmentDoesNotAct ==
  ASSUME TypeOK, Environment
  PROVE  ~CoreActs
<1>1. /\ work' = work
      /\ queue' = queue \/ \E e : queue' = Append(queue, e)
  BY DEF Environment, OpenSession, CloseSession, SendMessage, HidConnects,
         HidDisconnects, HidReport, DriveReports, DriveTakesActions, Enqueue
<1>2. queue \in Seq(Event) /\ Len(queue) \in Nat
  BY LenProperties DEF TypeOK
<1>3. ASSUME NEW e PROVE Len(Append(queue, e)) = Len(queue) + 1
  <2>1. queue \in Seq(Event \cup {e})
    BY <1>2, SeqMonotonic
  <2> QED
    BY <2>1, AppendProperties
<1> QED
  BY <1>1, <1>2, <1>3 DEF CoreActs

LEMMA IdleDoesNotAct ==
  ASSUME TypeOK, UNCHANGED vars
  PROVE  ~CoreActs
<1>1. Len(queue) \in Nat
  BY LenProperties DEF TypeOK
<1> QED
  BY <1>1 DEF vars, CoreActs

\* No event is taken off the channel while a request waits at its head.
LEMMA EventIsNoMessage ==
  ASSUME TypeOK, HandleEvent
  PROVE  ~MessageReady
BY DEF HandleEvent, HandleConnected, HandleDisconnected, HandleDriveState,
       HandleHidReport, Receives, MessageReady

----------------------------------------------------------------------------
(* Requests.                                                               *)

\* Every request is answered exactly once, and a request answered with a failure
\* has changed nothing (every branch of main.rs:268-555).
THEOREM FaithfulRefusals == Spec => RefusalChangesNothing
<1> DEFINE Faithful ==
      \E n \in DOMAIN sent' :
        /\ \A i \in DOMAIN sent' : sent'[i].to = Sender <=> i = n
        /\ IsFailure(sent'[n].body) => UNCHANGED coreVars
<1>1. ASSUME TypeOK, [Next]_vars, CoreActs, MessageReady
      PROVE  Faithful
  <2>1. HandleMessage
    BY <1>1, EnvironmentDoesNotAct, IdleDoesNotAct, EventIsNoMessage
    DEF Next, CoreStep
  <2>2. Sender \in Controllers /\ Sender # Everyone
    BY <1>1, <2>1, MessageHasSender, ControllerAssumption
  <2>3. ASSUME NEW body, Reply(body), IsFailure(body) => UNCHANGED coreVars
        PROVE  Faithful
    <3>1. Len(sent') = 1 /\ DOMAIN sent' = {1} /\ sent'[1].to = Sender /\ sent'[1].body = body
      BY <2>2, <2>3, ReplyShape
    <3>2. \A i \in DOMAIN sent' : sent'[i].to = Sender <=> i = 1
      BY <3>1
    <3> QED
      BY <2>3, <3>1, <3>2
  <2>4. ASSUME NEW broadcast, NEW reply, Announce(broadcast, reply), ~IsFailure(reply)
        PROVE  Faithful
    <3>1. /\ Len(sent') = 2
          /\ DOMAIN sent' = {1, 2}
          /\ sent'[1].to = Everyone
          /\ sent'[2].to = Sender
          /\ sent'[2].body = reply
      BY <2>2, <2>4, AnnounceShape
    <3>2. \A i \in DOMAIN sent' : sent'[i].to = Sender <=> i = 2
      BY <2>2, <3>1
    <3> QED
      BY <2>4, <3>1, <3>2
  <2> QED
    BY <1>1, <2>1, <2>3, <2>4, MessageAnswers
    DEF Answered, Declines, Decline, Accepts, MovesAccess, ChangesSet
<1>2. TypeOK /\ [Next]_vars => [CoreActs /\ MessageReady => Faithful]_vars
  BY <1>1
<1> QED
  BY <1>2, Typing, PTL DEF Spec, RefusalChangesNothing

----------------------------------------------------------------------------
(* Broadcasts.                                                             *)

\* What is broadcast as a change is what changed.
Announced ==
  /\ (holder' # holder) <=> (Broadcasts("write_access_changed")' # {})
  /\ (active' # active) <=> (Broadcasts("command_set_changed")' # {})
  /\ \A i \in Broadcasts("write_access_changed")' :
       sent'[i].body = WriteAccessChanged(holder', holder)
  /\ \A i \in Broadcasts("command_set_changed")' :
       sent'[i].body.version = active'.version

LEMMA MessageAnnounced ==
  ASSUME TypeOK, HandleMessage
  PROVE  Announced
<1>1. Sender \in Controllers
  BY MessageHasSender
<1>2. CASE Declines \/ Accepts
  <2>1. PICK body : Reply(body) /\ UNCHANGED <<holder, active>>
    BY <1>2 DEF Declines, Accepts, Decline, coreVars
  <2>2. /\ Broadcasts("write_access_changed")' = {}
        /\ Broadcasts("command_set_changed")' = {}
    BY <1>1, <2>1, ReplyShape, ControllerAssumption DEF Broadcasts
  <2> QED
    BY <2>1, <2>2 DEF Announced
<1>3. CASE MovesAccess
  <2> DEFINE moved == WriteAccessChanged(holder', holder)
  <2>1. PICK reply : Announce(moved, reply)
    BY <1>3 DEF MovesAccess
  <2>2. moved.type = "write_access_changed"
    BY DEF WriteAccessChanged
  <2>3. /\ DOMAIN sent' = {1, 2}
        /\ sent'[1].to = Everyone
        /\ sent'[1].body = moved
        /\ sent'[2].to # Everyone
    <3> HIDE DEF moved
    <3> QED
      BY <1>1, <2>1, AnnounceShape, ControllerAssumption
  <2>4. /\ Broadcasts("write_access_changed")' = {1}
        /\ Broadcasts("command_set_changed")' = {}
    BY <2>2, <2>3 DEF Broadcasts
  <2> QED
    BY <1>3, <2>3, <2>4 DEF MovesAccess, Announced
<1>4. CASE ChangesSet
  <2>1. PICK update, reply : Announce(CommandSetChanged(active'.version, update), reply)
    BY <1>4 DEF ChangesSet
  <2> DEFINE changed == CommandSetChanged(active'.version, update)
  <2>2. changed.type = "command_set_changed" /\ changed.version = active'.version
    BY DEF CommandSetChanged
  <2>3. /\ DOMAIN sent' = {1, 2}
        /\ sent'[1].to = Everyone
        /\ sent'[1].body = changed
        /\ sent'[2].to # Everyone
    <3>1. Announce(changed, reply)
      BY <2>1
    <3> HIDE DEF changed
    <3> QED
      BY <1>1, <3>1, AnnounceShape, ControllerAssumption
  <2>4. /\ Broadcasts("write_access_changed")' = {}
        /\ Broadcasts("command_set_changed")' = {1}
    BY <2>2, <2>3 DEF Broadcasts
  <2> QED
    BY <1>4, <2>2, <2>3, <2>4 DEF ChangesSet, Announced
<1> QED
  BY <1>2, <1>3, <1>4, MessageAnswers DEF Answered

LEMMA EventAnnounced ==
  ASSUME TypeOK, HandleEvent
  PROVE  Announced
<1>1. ASSUME NEW c, NEW body, sent' = <<To(c, body)>>,
             body.type \notin {"write_access_changed", "command_set_changed"},
             UNCHANGED <<holder, active>>
      PROVE  Announced
  <2>1. DOMAIN sent' = {1} /\ sent'[1].body = body
    BY <1>1 DEF To
  <2> QED
    BY <1>1, <2>1 DEF Broadcasts, Announced
<1>2. ASSUME sent' = <<>>, UNCHANGED <<holder, active>>
      PROVE  Announced
  <2>1. DOMAIN sent' = {}
    BY <1>2
  <2> QED
    BY <1>2, <2>1 DEF Broadcasts, Announced
<1>3. CASE HandleConnected
  BY <1>1, <1>3 DEF HandleConnected, coreVars
<1>4. CASE HandleDriveState
  BY <1>1, <1>4 DEF HandleDriveState
<1>5. CASE HandleHidReport
  BY <1>2, <1>5 DEF HandleHidReport, coreVars
<1>6. CASE HandleDisconnected
  <2>1. CASE /\ holder = Head(queue).from
             /\ holder' = Nobody
             /\ active' = active
             /\ sent' = <<To(Everyone, WriteAccessChanged(Nobody, holder))>>
    <3>1. Receives("disconnected")
      BY <1>6 DEF HandleDisconnected
    <3>2. Head(queue).from \in Controllers
      BY <3>1, ReceivesTyped, EventTyped
    <3>3. holder # Nobody
      BY <2>1, <3>2, ControllerAssumption
    <3>4. /\ DOMAIN sent' = {1}
          /\ sent'[1].to = Everyone
          /\ sent'[1].body = WriteAccessChanged(Nobody, holder)
      BY <2>1 DEF To
    <3>5. /\ Broadcasts("write_access_changed")' = {1}
          /\ Broadcasts("command_set_changed")' = {}
      <4>1. sent'[1].body.type = "write_access_changed"
        BY <3>4, Bodies
      <4>2. "write_access_changed" # "command_set_changed"
        OBVIOUS
      <4>3. \A i \in DOMAIN sent' : i = 1
        BY <3>4
      <4>4. 1 \in DOMAIN sent'
        BY <3>4
      <4>5. Broadcasts("write_access_changed")' = {1}
        BY <3>4, <4>1, <4>3, <4>4 DEF Broadcasts
      <4>6. Broadcasts("command_set_changed")' = {}
        BY <4>1, <4>2, <4>3 DEF Broadcasts
      <4> QED
        BY <4>5, <4>6
    <3> QED
      BY <2>1, <3>3, <3>4, <3>5 DEF Announced
  <2> QED
    BY <1>2, <1>6, <2>1 DEF HandleDisconnected
<1> QED
  BY <1>3, <1>4, <1>5, <1>6 DEF HandleEvent

\* Every change of the holder of write access or of the active set is broadcast
\* in the step that makes it, with the value it leaves, and nothing else is
\* broadcast as a change (main.rs:229-232, 277-282, 301-304, 359-362, 385-397,
\* 443-446).
THEOREM FaithfulBroadcasts == Spec => ChangesAreAnnounced
<1>1. ASSUME TypeOK, [Next]_vars, CoreActs
      PROVE  Announced
  BY <1>1, EnvironmentDoesNotAct, IdleDoesNotAct, MessageAnnounced, EventAnnounced
  DEF Next, CoreStep
<1>2. TypeOK /\ [Next]_vars => [CoreActs => Announced]_vars
  BY <1>1
<1> QED
  BY <1>2, Typing, PTL DEF Spec, ChangesAreAnnounced, Announced
=============================================================================
