----------------------------- MODULE HidDisplay -----------------------------
(***************************************************************************)
(* The way back to the handheld: the UI manager sends it those display     *)
(* variables whose values it has not sent before, and the HID I/O thread   *)
(* (src/src/hid.rs) writes what it is sent, but only after it has read an  *)
(* input report. The queue between the two outlives the device.            *)
(***************************************************************************)
EXTENDS HidUi

CONSTANTS
  Unknown,         \* the value of a variable that was not sent
  MaxPayload,      \* the bytes of a HID report that are left for variables
  MaxOutbound      \* bound: reports for the handheld waiting before it reads or is greeted

ASSUME OutboundAssumption == MaxOutbound \in Nat \ {0} /\ MaxPayload \in Nat

VARIABLES
  lastSent,    \* last_sent_variables
  outbound,    \* the reports waiting for the I/O thread
  flushing,    \* the I/O thread is writing what waits
  shown        \* the variables as the handheld knows them

displayVars == <<lastSent, outbound, flushing, shown>>
hidVars == <<uiVars, displayVars>>

\* Display variables. What is shown of the drive state, of the start button and
\* of each value stands for all the variables computed from it.
Variables == {"start", "end", "speed", "accel", "state", "holding", "reset"}

NothingSent == [v \in Variables |-> Unknown]

HidInit ==
  /\ UiInit
  /\ lastSent = NothingSent
  /\ outbound = <<>>
  /\ flushing = FALSE
  /\ shown = NothingSent

----------------------------------------------------------------------------
(* The UI manager, on the core's thread.                                   *)

\* A report for the handheld takes effect on what it shows.
Update(known, report) ==
  [v \in Variables |->
     IF v \in DOMAIN report THEN report[v] ELSE known[v]]

\* The screen carries no variables.
Screen == <<>>

\* All variables are computed from the commands that result from the report, but
\* from the drive state before it. The reset is a variable like the others.
Values(u) ==
  [start |-> u.commands[1].position, end |-> u.commands[2].position,
   speed |-> u.commands[1].velocity, accel |-> u.commands[1].acceleration,
   state |-> driveState, holding |-> u.holding,
   reset |-> IF u.reset THEN TRUE ELSE lastSent.reset]

Changed(values) == {v \in Variables : values[v] # lastSent[v]}

SendVariables(values) ==
  /\ lastSent' = values
  /\ outbound' = IF Changed(values) = {} THEN outbound
                   ELSE Append(outbound, [v \in Changed(values) |-> values[v]])

ReportAndDisplay ==
  /\ ProcessReport
  /\ SendVariables(Values(Processed))
  /\ UNCHANGED <<flushing, shown>>

\* Mutant: what was sent to the previous device counts as sent.
GreetKeepingVariables ==
  /\ HandleConnected
  /\ Head(queue).from = Hid
  /\ outbound' = Append(outbound, Screen)
  /\ UNCHANGED <<ui, lastSent, flushing, shown>>

\* A handheld that connects is sent the screen, and all variables again.
Greet ==
  /\ HandleConnected
  /\ Head(queue).from = Hid
  /\ outbound' = Append(outbound, Screen)
  /\ lastSent' = NothingSent
  /\ UNCHANGED <<ui, flushing, shown>>

GreetOther ==
  /\ HandleConnected
  /\ Head(queue).from # Hid
  /\ UNCHANGED <<ui, displayVars>>

----------------------------------------------------------------------------
(* The I/O thread.                                                         *)

Plug ==
  /\ Len(outbound) < MaxOutbound
  /\ HidConnects
  /\ shown' = NothingSent
  /\ UNCHANGED <<ui, lastSent, outbound, flushing>>

\* The device does not answer with its firmware version, or has another.
FailToOpen ==
  /\ session[Hid] # "open"
  /\ HidDisconnects
  /\ UNCHANGED <<ui, displayVars>>

Read(r) ==
  /\ ~flushing
  /\ Len(outbound) < MaxOutbound
  /\ HidReport(r)
  /\ flushing' = TRUE
  /\ UNCHANGED <<ui, lastSent, outbound, shown>>

\* A report with another id is ignored, but what waits is written after it.
ReadOther ==
  /\ ~flushing
  /\ session[Hid] = "open"
  /\ flushing' = TRUE
  /\ UNCHANGED <<uiVars, lastSent, outbound, shown>>

\* The device is gone, or has sent a report that is too short.
Unplug ==
  /\ session[Hid] = "open"
  /\ ~flushing
  /\ HidDisconnects
  /\ UNCHANGED <<ui, displayVars>>

\* What a variable takes in a report: numbers, short strings, hardware controls.
Size(v) ==
  CASE v \in {"start", "end", "speed", "accel"} -> 4
    [] v \in {"state", "holding"} -> 8
    [] v = "reset" -> 2

Order == <<"start", "end", "speed", "accel", "state", "holding", "reset">>

\* A variable is put into the report that is being filled, or into the next one if
\* it does not fit.
AddEntry(packed, v) ==
  IF packed.used + Size(v) > MaxPayload /\ packed.filling # {}
    THEN [reports |-> Append(packed.reports, packed.filling), filling |-> {v}, used |-> Size(v)]
    ELSE [packed EXCEPT !.filling = @ \cup {v}, !.used = @ + Size(v)]

\* The variables of a report, packed in their order.
Packed(report) ==
  LET packed[n \in 0..Len(Order)] ==
        IF n = 0 THEN [reports |-> <<>>, filling |-> {}, used |-> 0]
        ELSE IF Order[n] \in DOMAIN report THEN AddEntry(packed[n - 1], Order[n])
        ELSE packed[n - 1]
  IN packed[Len(Order)]

\* Mutant: the report that was not filled is not written.
PacketsWhenFull(report) == Packed(report).reports

Packets(report) ==
  LET packed == Packed(report)
  IN IF packed.filling = {} THEN packed.reports
       ELSE Append(packed.reports, packed.filling)

\* What the handheld knows when these reports have arrived, one after the other.
AllUpdates(known, reports) ==
  LET updated[n \in 0..Len(reports)] ==
        IF n = 0 THEN known ELSE Update(updated[n - 1], reports[n])
  IN updated[Len(reports)]

\* The reports that a variable update is written in.
Split(report) ==
  LET packets == Packets(report)
  IN [n \in DOMAIN packets |-> [v \in packets[n] |-> report[v]]]

\* A variable update is written in as many reports as it takes.
WriteReport ==
  /\ flushing
  /\ outbound # <<>>
  /\ \A v \in DOMAIN Head(outbound) : Size(v) <= MaxPayload
  /\ shown' = AllUpdates(shown, Split(Head(outbound)))
  /\ outbound' = Tail(outbound)
  /\ UNCHANGED <<uiVars, lastSent, flushing>>

\* A report that could not be written, or has a variable that fits none, is lost
\* with the connection. The device that connects next is told everything.
WriteFails ==
  /\ flushing
  /\ outbound # <<>>
  /\ outbound' = Tail(outbound)
  /\ flushing' = FALSE
  /\ HidDisconnects
  /\ UNCHANGED <<ui, lastSent, shown>>

Flushed ==
  /\ flushing
  /\ outbound = <<>>
  /\ flushing' = FALSE
  /\ UNCHANGED <<uiVars, lastSent, outbound, shown>>

----------------------------------------------------------------------------
HidNext ==
  \/ (Claim \/ OtherStep) /\ UNCHANGED displayVars
  \/ ReportAndDisplay \/ Greet \/ GreetOther
  \/ Plug \/ FailToOpen \/ Unplug
  \/ (\E r \in HidReports : Read(r)) \/ ReadOther
  \/ WriteReport \/ WriteFails \/ Flushed

HidSpec == HidInit /\ [][HidNext]_hidVars
----------------------------------------------------------------------------
(* Properties.                                                             *)

\* The variables that the handheld will show once everything that waits is
\* written.
Displayed == AllUpdates(shown, outbound)

\* What the UI manager believes it has sent is what the handheld shows, or will
\* show, once the core has heard of the last change of device: a variable left
\* out as already sent is never one that went to an earlier device, or was lost
\* (ui_manager.rs:92-96, 476-485; hid.rs:111-122).
DisplayIsCurrent ==
  session[Hid] = "open" /\ Connected(Hid) \notin ToSet(queue)
    => \A v \in Variables : lastSent[v] \in {Unknown, Displayed[v]}
=============================================================================
