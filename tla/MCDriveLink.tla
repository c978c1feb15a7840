----------------------------- MODULE MCDriveLink -----------------------------
(***************************************************************************)
(* Small instances of the core, the drive thread and the drive for TLC.    *)
(***************************************************************************)
EXTENDS DriveLink

NoFields == {}
NoLimit == [f \in NoFields |-> 0]

\* A stroke and a single target between its ends: of different lengths, so that
\* an index of one is out of range in the other.
TwoLists == {<<0, 2>>, <<1>>}
OneStroke == {<<0, 1>>}
=============================================================================
