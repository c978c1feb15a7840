--------------------------- MODULE WebSocketServer ---------------------------
(***************************************************************************)
(* The WebSocket server (src/src/websocket.rs): one thread that waits for  *)
(* readiness events, accepts connections, turns what clients send into     *)
(* events for the core, and writes what the core sends. Readiness is edge  *)
(* triggered: an event is raised when something arrives, once, however     *)
(* much arrives before it is handled.                                      *)
(*                                                                         *)
(* A connection is identified by the token it will be accepted under. Its  *)
(* bytes are frames: the upgrade request, text that parses as a message,   *)
(* anything else, and the end of the stream. The core is reduced to what it*)
(* owes its clients: a greeting when a session opens, a reply to a message, *)
(* and broadcasts.                                                         *)
(***************************************************************************)
EXTENDS Naturals, FiniteSets, SequencesExt

CONSTANTS
  Tokens,       \* connection tokens; next_token never repeats one
  SERVER,       \* the listener's token
  WAKER,        \* the token of the core's waker
  Everyone,     \* the destination of a broadcast
  MaxFrames,    \* bound: frames of a connection not yet read
  MaxInbound,   \* bound: events waiting for the core before peers send more
  MaxOutbound   \* bound: messages waiting for the server before the core goes on

ASSUME ServerAssumption ==
  /\ SERVER \notin Tokens /\ WAKER \notin Tokens /\ SERVER # WAKER
  /\ Everyone \notin Tokens
  /\ IsFiniteSet(Tokens)
  /\ {MaxFrames, MaxInbound, MaxOutbound} \subseteq Nat \ {0}

VARIABLES
  \* the peers
  peer,       \* what each peer has done so far
  wire,       \* the frames of each connection that were not read
  \* the event loop
  ready,      \* the tokens with a readiness event
  backlog,    \* connections not yet accepted
  clients,    \* the map of clients
  draining,   \* handle_outbound is under way
  \* the channels and the core
  inbound,    \* events for the core
  outbound,   \* messages of the core
  wakes,      \* the core has sent a message and is about to wake the server
  known       \* each session, as the core has been told

peerVars == <<peer, wire>>
loopVars == <<ready, backlog, clients, draining>>
vars == <<peerVars, loopVars, inbound, outbound, wakes, known>>

Event(kind, t) == [kind |-> kind, from |-> t]

Init ==
  /\ peer = [t \in Tokens |-> "idle"]
  /\ wire = [t \in Tokens |-> <<>>]
  /\ ready = {}
  /\ backlog = <<>>
  /\ clients = [t \in Tokens |-> "none"]
  /\ draining = FALSE
  /\ inbound = <<>>
  /\ outbound = <<>>
  /\ wakes = FALSE
  /\ known = [t \in Tokens |-> "fresh"]

----------------------------------------------------------------------------
(* Peers.                                                                  *)

Dial(t) ==
  /\ peer[t] = "idle"
  /\ peer' = [peer EXCEPT ![t] = "dialed"]
  /\ backlog' = Append(backlog, t)
  /\ ready' = ready \cup {SERVER}
  /\ UNCHANGED <<wire, clients, draining, inbound, outbound, wakes, known>>

\* Something arrives on a connection: an event is raised once it is accepted.
Arrives(t, frame) ==
  /\ clients[t] # "none" \/ t \in ToSet(backlog)
  /\ Len(wire[t]) < MaxFrames
  /\ Len(inbound) < MaxInbound
  /\ wire' = [wire EXCEPT ![t] = Append(@, frame)]
  /\ ready' = IF clients[t] # "none" THEN ready \cup {t} ELSE ready
  /\ UNCHANGED <<backlog, clients, draining, inbound, outbound, wakes, known>>

Upgrade(t) ==
  /\ peer[t] = "dialed"
  /\ \/ peer' = [peer EXCEPT ![t] = "open"] /\ Arrives(t, "upgrade")
     \/ peer' = [peer EXCEPT ![t] = "ended"] /\ Arrives(t, "junk")

Talk(t) ==
  /\ peer[t] = "open"
  /\ \E frame \in {"text", "other"} : Arrives(t, frame)
  /\ UNCHANGED peer

\* The peer closes, properly or not. A peer that just disappears does nothing.
End(t) ==
  /\ peer[t] \in {"dialed", "open"}
  /\ peer' = [peer EXCEPT ![t] = "ended"]
  /\ Arrives(t, "end")

----------------------------------------------------------------------------
(* The event loop: one readiness event at a time, unless it is draining.   *)

Takes(token) ==
  /\ ~draining
  /\ token \in ready

\* What the core gets of frames that are read: a message for each text.
Messages(t, frames) ==
  [i \in 1..Cardinality({j \in DOMAIN frames : frames[j] = "text"}) |->
     Event("message", t)]

\* Mutant: one frame is read per event.
ReadOne(t, frames, announced) ==
  LET ends == frames # <<>> /\ Head(frames) = "end"
  IN /\ wire' = [wire EXCEPT ![t] = IF frames = <<>> THEN <<>> ELSE Tail(frames)]
     /\ clients' = [clients EXCEPT ![t] = IF ends THEN "none" ELSE "connected"]
     /\ inbound' = inbound \o announced
          \o (IF frames # <<>> /\ Head(frames) = "text" THEN <<Event("message", t)>> ELSE <<>>)
          \o (IF ends THEN <<Event("disconnected", t)>> ELSE <<>>)

\* Mutant: the end of a session is not reported.
EndsSilently(t, frames, announced) ==
  /\ wire' = [wire EXCEPT ![t] = <<>>]
  /\ clients' = [clients EXCEPT ![t] = IF "end" \in ToSet(frames) THEN "none" ELSE "connected"]
  /\ inbound' = inbound \o announced
       \o Messages(t, frames)

\* Read until reading would block, after what was announced already.
ReadAll(t, frames, announced) ==
  LET ends == "end" \in ToSet(frames)
  IN /\ wire' = [wire EXCEPT ![t] = <<>>]
     /\ clients' = [clients EXCEPT ![t] = IF ends THEN "none" ELSE "connected"]
     /\ inbound' = inbound \o announced
          \o Messages(t, frames)
          \o (IF ends THEN <<Event("disconnected", t)>> ELSE <<>>)

\* accept_connections: accept until that would block. A handshake whose request
\* is there completes at once; reading is left to the event that registering
\* the socket has raised.
AcceptConnections ==
  /\ Takes(SERVER)
  /\ LET head(t) == IF wire[t] = <<>> THEN "nothing" ELSE Head(wire[t])
         completed == {i \in DOMAIN backlog : head(backlog[i]) = "upgrade"}
     IN /\ clients' = [t \in Tokens |->
              IF t \notin ToSet(backlog) THEN clients[t]
              ELSE CASE head(t) = "upgrade" -> "connected"
                     [] head(t) = "nothing" -> "handshaking"
                     [] OTHER -> "none"]
        /\ wire' = [t \in Tokens |->
              IF t \in ToSet(backlog) /\ wire[t] # <<>> THEN Tail(wire[t]) ELSE wire[t]]
        /\ \E at \in SetToSeqs(completed) :
             /\ \A i, j \in DOMAIN at : i < j => at[i] < at[j]
             /\ inbound' = inbound
                  \o [i \in DOMAIN at |-> Event("connected", backlog[at[i]])]
  /\ ready' = (ready \ {SERVER}) \cup ToSet(backlog)
  /\ backlog' = <<>>
  /\ UNCHANGED <<peer, draining, outbound, wakes, known>>

\* handle_client_event: an event of a client that is gone is ignored; a
\* handshake that completes is followed by reading.
HandleClientEvent(t) ==
  /\ Takes(t)
  /\ ready' = ready \ {t}
  /\ CASE clients[t] = "connected" -> ReadAll(t, wire[t], <<>>)
       [] clients[t] = "handshaking" /\ wire[t] # <<>> /\ Head(wire[t]) = "upgrade" ->
            ReadAll(t, Tail(wire[t]), <<Event("connected", t)>>)
       [] clients[t] = "handshaking" /\ wire[t] # <<>> /\ Head(wire[t]) # "upgrade" ->
            /\ clients' = [clients EXCEPT ![t] = "none"]
            /\ UNCHANGED <<wire, inbound>>
       [] OTHER -> UNCHANGED <<wire, clients, inbound>>
  /\ UNCHANGED <<peer, backlog, draining, outbound, wakes, known>>

StartDraining ==
  /\ Takes(WAKER)
  /\ ready' = ready \ {WAKER}
  /\ draining' = TRUE
  /\ UNCHANGED <<peerVars, backlog, clients, inbound, outbound, wakes, known>>

\* Mutant: a client that cannot be written to is kept.
KeepsFailing(failing) == clients

\* A client that cannot be written to is dropped.
Drops(failing) == [t \in Tokens |-> IF t \in failing THEN "none" ELSE clients[t]]

\* One message of handle_outbound. A client that is gone or full fails, and is
\* reported to the core in the order the map of clients happens to have; a
\* message to an unknown client is dropped.
DeliverOne ==
  /\ draining
  /\ outbound # <<>>
  /\ LET dest == {t \in Tokens : clients[t] = "connected" /\ Head(outbound) \in {t, Everyone}}
     IN \E failing \in SUBSET dest : \E order \in SetToSeqs(failing) :
          /\ clients' = Drops(failing)
          /\ inbound' = inbound \o [i \in DOMAIN order |-> Event("disconnected", order[i])]
  /\ outbound' = Tail(outbound)
  /\ UNCHANGED <<peerVars, ready, backlog, draining, wakes, known>>

\* Mutant: one message per wake.
StopsAfterOne ==
  /\ draining
  /\ draining' = FALSE
  /\ UNCHANGED <<peerVars, ready, backlog, clients, inbound, outbound, wakes, known>>

StopDraining ==
  /\ draining
  /\ outbound = <<>>
  /\ draining' = FALSE
  /\ UNCHANGED <<peerVars, ready, backlog, clients, inbound, outbound, wakes, known>>

----------------------------------------------------------------------------
(* The core, on its own thread.                                            *)

\* Server::send queues the message; the wake follows.
Send(destination) ==
  /\ ~wakes
  /\ Len(outbound) < MaxOutbound
  /\ outbound' = Append(outbound, destination)
  /\ wakes' = TRUE
  /\ UNCHANGED <<peerVars, loopVars>>

Wake ==
  /\ wakes
  /\ wakes' = FALSE
  /\ ready' = ready \cup {WAKER}
  /\ UNCHANGED <<peerVars, backlog, clients, draining, inbound, outbound, known>>

\* How the core's picture of a session follows from the events it is sent.
After(session, kind) ==
  CASE session = "fresh" /\ kind = "connected" -> "open"
    [] session = "open" /\ kind = "message" -> "open"
    [] session = "open" /\ kind = "disconnected" -> "closed"
    [] OTHER -> "illegal"

CoreHandles ==
  /\ inbound # <<>>
  /\ LET t == Head(inbound).from
         kind == Head(inbound).kind
     IN /\ known' = [known EXCEPT ![t] = After(@, kind)]
        /\ \/ kind # "disconnected" /\ Send(t)
           \/ kind = "disconnected" /\ ~wakes
              /\ UNCHANGED <<outbound, wakes, peerVars, loopVars>>
  /\ inbound' = Tail(inbound)

Broadcast ==
  /\ Send(Everyone)
  /\ UNCHANGED <<inbound, known>>

----------------------------------------------------------------------------
ServerStep ==
  \/ AcceptConnections
  \/ \E t \in Tokens : HandleClientEvent(t)
  \/ StartDraining \/ DeliverOne \/ StopDraining

PeerStep == \E t \in Tokens : Dial(t) \/ Upgrade(t) \/ Talk(t) \/ End(t)

Next == ServerStep \/ CoreHandles \/ Wake \/ Broadcast \/ PeerStep

\* Every round of the loop handles all the events that poll has returned before
\* it polls again. The core takes its events in order, broadcasts being what it
\* makes of some of them, and wakes the server after every message.
Fairness ==
  /\ SF_vars(AcceptConnections)
  /\ \A t \in Tokens : SF_vars(HandleClientEvent(t))
  /\ SF_vars(StartDraining) /\ WF_vars(DeliverOne) /\ WF_vars(StopDraining)
  /\ SF_vars(CoreHandles) /\ WF_vars(Wake)

Spec == Init /\ [][Next]_vars /\ Fairness
----------------------------------------------------------------------------
(* Properties.                                                             *)

Tells(events, kind, t, n) == \E i \in 1..(n - 1) : events[i] = Event(kind, t)

\* A session is open for the core, as far as the events before the n-th tell.
Opens(session, events, t, n) ==
  /\ session = "open" \/ Tells(events, "connected", t, n)
  /\ ~Tells(events, "disconnected", t, n)

\* Every event of the session finds it as it must be.
InOrder(session, events, t) ==
  \A n \in DOMAIN events : events[n].from = t =>
    IF events[n].kind = "connected"
      THEN session = "fresh" /\ \A i \in 1..(n - 1) : events[i].from # t
      ELSE Opens(session, events, t, n)

\* The core is told of a session once, before the messages of the session, and
\* of its end once, after them, and what it is told agrees with the map of
\* clients: whichever of reading and writing notices the end first
\* (websocket.rs:107-111, 172-175, 211-216, 253-264).
SessionProtocol ==
  \A t \in Tokens :
    /\ known[t] # "illegal"
    /\ InOrder(known[t], inbound, t)
    /\ clients[t] = "connected" <=> Opens(known[t], inbound, t, Len(inbound) + 1)

\* The loop gets back to polling: now and then the server has written all that the
\* core has sent. The loop does not see to it; a core that sends faster than the
\* server writes keeps it from reading.
CatchesUp == []<>~draining

\* Nothing that a client has sent is left unread, although readiness is
\* signalled only once (websocket.rs:223-252).
FramesAreRead ==
  CatchesUp =>
    \A t \in Tokens :
      (clients[t] = "connected" /\ wire[t] # <<>>)
        ~> (wire[t] = <<>> \/ clients[t] = "none")

\* A message of the core does not wait for the next one: its wake is not lost,
\* although wakes coalesce and messages are queued while others are written
\* (websocket.rs:58-62, 83, 132).
MessagesAreWritten == (outbound # <<>>) ~> draining

\* The core learns that an announced client has gone (websocket.rs:253-264).
EndIsReported ==
  CatchesUp =>
    \A t \in Tokens :
      (clients[t] = "connected" /\ "end" \in ToSet(wire[t])) ~> (known[t] = "closed")
=============================================================================
