---------------------------- MODULE MCHidDisplay ----------------------------
(***************************************************************************)
(* A small instance of the core with the handheld and its display for TLC. *)
(***************************************************************************)
EXTENDS MCHidUi, HidDisplay

\* What the display depends on.
DisplayReports == {Turn(1, 1), Turn(1, -1), Button("click", 2)}
=============================================================================
