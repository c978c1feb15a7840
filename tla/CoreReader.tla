----------------------------- MODULE CoreReader -----------------------------
(***************************************************************************)
(* The core, and a client that at some moment has read one of the command  *)
(* sets and keeps what it read, to write it back later.                    *)
(***************************************************************************)
EXTENDS CoreManager

VARIABLE copy    \* the set, its version and its commands, as they were read

readerVars == <<vars, copy>>

Entry(name, set) == [set |-> name, version |-> set.version, commands |-> set.commands]

\* What get_command_set can answer.
Readable ==
  {Entry(Active, active)}
    \cup {Entry(n, saved[n]) : n \in {m \in SetNames : saved[m] # Absent}}

ReaderInit == Init /\ copy \in Readable

Reads ==
  /\ copy' \in Readable
  /\ UNCHANGED vars

ReaderNext ==
  \/ Next /\ UNCHANGED copy
  \/ Reads

ReaderSpec == ReaderInit /\ [][ReaderNext]_readerVars

VersionIdentifies(names) ==
  \A now \in Readable :
    now.set \in names /\ now.set = copy.set /\ now.version = copy.version => now = copy

\* A base_version that matches proves that the active set is still the one the
\* client read, however long ago, through updates, replacements and deletions: a
\* conditional update cannot overwrite a change unseen (main.rs:352-353, 386,
\* 436-437).
ActiveVersionIdentifies == VersionIdentifies({Active})
=============================================================================
