--------------------------- MODULE MCCommandLine ---------------------------
(***************************************************************************)
(* A small instance of the core with the command line client for TLC: a    *)
(* command is a position.                                                  *)
(***************************************************************************)
EXTENDS CommandLine

MCFields == {"position"}
MCLimit == [f \in MCFields |-> 1]
MCOrder == <<"position">>
MCInitial == [s \in Slots |-> 0]
MCSteps == {-1, 1}
MCEntries == {2}
Set(list) == [i \in DOMAIN list |-> [f \in MCFields |-> list[i]]]

\* The rival is the handheld, which installs a shorter range.
MCUiCommands == {Set(<<0, 1>>)}
MCHidRequests == {<<>>}
=============================================================================
