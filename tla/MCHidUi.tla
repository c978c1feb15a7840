------------------------------ MODULE MCHidUi ------------------------------
(***************************************************************************)
(* Small instances of the core with the handheld for TLC. Positions are    *)
(* 0..2, everything else is 0 or 1, and decelerations are limited to 0.    *)
(***************************************************************************)
EXTENDS HidUi

MCFields == {"position", "velocity", "acceleration", "deceleration"}
MCLimit == [f \in MCFields |-> CASE f = "position" -> 2
                                 [] f = "deceleration" -> 0
                                 [] OTHER -> 1]

\* Velocity, acceleration and deceleration are the three numbers of x.
Stroke(p, x) ==
  [position |-> p, velocity |-> x[1], acceleration |-> x[2], deceleration |-> x[3]]

\* DEFAULT_COMMANDS is not subject to the limits.
MCDefault == Stroke(0, <<1, 1, 1>>)

Still == [e \in Encoders |-> 0]
Report(deltas, events) == [deltas |-> deltas, events |-> events]
Turn(e, d) == Report([Still EXCEPT ![e] = d], <<>>)
One(type, e) == <<[type |-> type, encoder |-> e]>>
Button(type, e) == Report(Still, One(type, e))

\* Both ends of the stroke, alone and together, by one notch or by a fast turn,
\* with and without the start button held; speed and acceleration; every button,
\* alone and with another in the same report.
MCReports ==
  {Report(Still, <<>>), Turn(0, 1), Turn(1, -1), Turn(3, -1),
   Report([Still EXCEPT ![0] = 2, ![1] = -1, ![2] = -1], <<>>),
   Report([Still EXCEPT ![0] = -1, ![1] = 1], One("hold_end", 0)),
   Button("hold_start", 0), Button("click", 3),
   Report(Still, One("click", 0) \o One("click", 1)),
   Report([Still EXCEPT ![1] = 1], One("click", 1) \o One("click", 0))}

\* Another controller.
RivalRequests ==
  {[type |-> "request_write_access"],
   [type |-> "upsert_command_set", set |-> Active, base_version |-> AnyVersion,
    commands |-> <<Stroke(1, <<0, 0, 0>>)>>]}
=============================================================================
