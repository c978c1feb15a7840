---------------------------- MODULE MCCoreManager ----------------------------
(***************************************************************************)
(* Small instances of the core for TLC. A command has two fields, whose    *)
(* limits are 1, and clients send positions on both sides of them.         *)
(***************************************************************************)
EXTENDS CoreManager

MCFields == {"position", "velocity"}
MCLimit == [f \in MCFields |-> 1]

Cmd(p) == [position |-> p, velocity |-> 1]
Stroke == <<Cmd(0), Cmd(2)>>
Default == <<Cmd(0), Cmd(0)>>

Plain(type) == [type |-> type]
Power(b) == [type |-> "set_drive_power", enabled |-> b]
Motion(a) == [type |-> "set_motion_state", action |-> a]
Read(set) == [type |-> "get_command_set", set |-> set]
Upsert(set, base, commands) ==
  [type |-> "upsert_command_set", set |-> set, base_version |-> base,
   commands |-> commands]
Delete(set, base) ==
  [type |-> "delete_command_set", set |-> set, base_version |-> base]
Update(i, p) == [type |-> "update_command", index |-> i, fields |-> [position |-> p, velocity |-> Keep]]

\* Who may command the machine: claims, releases, and what a writer does.
AccessRequests ==
  {Plain("request_write_access"), Plain("release_write_access"),
   Power(TRUE), Motion("Start")}
AccessHid == {<<Power(TRUE), Motion("Resume")>>}

\* Everything a client can ask of the command sets.
CommandRequests ==
  {Plain("request_write_access"), Plain("get_state"), Plain("list_saved_sets"),
   Plain("acknowledge_error"), Motion("Stop"),
   Update(0, -1), Update(2, 1), Read(Active)}
    \cup {Read(n) : n \in SetNames}
    \cup {Upsert(n, b, Stroke) : n \in SetNames \cup {Active}, b \in {AnyVersion, 1}}
    \cup {Delete(n, b) : n \in SetNames \cup {Active}, b \in {AnyVersion, 1}}
CommandHid == {<<Upsert(Active, AnyVersion, Default)>>, <<Update(0, 1), Update(1, 1)>>}

MCReports == {"report"}
MCUiCommands == {Default}

\* The core implements the designated-writer rules, including that a lost
\* writer is eventually revoked (main.rs:219-237, 270-312, 351-553).
ImplementsRules == Rules!Spec
=============================================================================
