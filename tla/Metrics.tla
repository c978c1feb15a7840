------------------------------ MODULE Metrics ------------------------------
(***************************************************************************)
(* The metrics of the drive loop (src/src/metrics.rs): after each exchange *)
(* the drive thread hands a record to a thread of its own, which adds it   *)
(* to a buffer of rows and now and then flushes the buffer to QuestDB,     *)
(* reconnecting for as long as it takes. Records are numbered. A record    *)
(* that cannot be added is dropped with a warning, and the part of its row *)
(* that was written stays in the buffer.                                   *)
(*                                                                         *)
(* A sender that "must close" has failed a flush before, and the thread    *)
(* drops it when a flush fails: must_close never finds one.                *)
(***************************************************************************)
EXTENDS Integers, Sequences, FiniteSets

CONSTANTS
  FlushLimit,
  MaxRecords,      \* bound: records that are made
  MaxFailures      \* bound: times that QuestDB does not answer

ASSUME MetricsAssumption ==
  FlushLimit \in Nat /\ MaxRecords \in Nat /\ MaxFailures \in Nat

VARIABLES
  made,        \* records that the drive thread has sent
  queue,       \* those that wait
  record,      \* the one at work, or None
  added,       \* added_to_buffer
  connected,   \* there is a sender
  buffer,      \* rows that wait for a flush
  torn,        \* part of a row follows the rows of the buffer
  refused,     \* records that could not be added
  due,         \* the flush interval has elapsed since the last flush
  table,       \* rows that QuestDB has stored
  failures,
  twice        \* flushes that were stored although they failed

threadVars == <<queue, record, added, connected, buffer, torn, refused, due, table>>
vars == <<made, threadVars, failures, twice>>

None == 0

\* MetricSender::new: it goes on without a connection.
Init ==
  /\ made = 0 /\ queue = <<>> /\ record = None /\ added = FALSE
  /\ connected \in BOOLEAN
  /\ buffer = <<>> /\ torn = FALSE /\ refused = {} /\ due = FALSE
  /\ table = <<>> /\ failures = 0 /\ twice = 0

\* A complete response makes a record; the drive thread never waits.
Make ==
  /\ made < MaxRecords
  /\ made' = made + 1
  /\ queue' = Append(queue, made')
  /\ UNCHANGED <<record, added, connected, buffer, torn, refused, due, table, failures, twice>>

Take ==
  /\ record = None /\ queue # <<>>
  /\ record' = Head(queue) /\ queue' = Tail(queue)
  /\ added' = FALSE
  /\ UNCHANGED <<made, connected, buffer, torn, refused, due, table, failures, twice>>

\* Mutant: a row is added again after each reconnection.
ConnectAnew ==
  /\ record # None /\ ~connected
  /\ connected' = TRUE
  /\ added' = FALSE
  /\ UNCHANGED <<made, queue, record, buffer, torn, refused, due, table, failures, twice>>

\* The buffer outlives the sender.
Connect ==
  /\ record # None /\ ~connected
  /\ connected' = TRUE
  /\ UNCHANGED <<made, queue, record, added, buffer, torn, refused, due, table, failures, twice>>

ConnectFails ==
  /\ record # None /\ ~connected
  /\ failures < MaxFailures
  /\ failures' = failures + 1
  /\ UNCHANGED <<made, threadVars, twice>>

\* A new row cannot begin inside another.
Add ==
  /\ record # None /\ connected /\ ~added
  /\ ~torn
  /\ buffer' = Append(buffer, record)
  /\ added' = TRUE
  /\ UNCHANGED <<made, queue, record, connected, torn, refused, due, table, failures, twice>>

\* The table's name or a value is not accepted: the record is given up, whether
\* its row was begun or not, and nothing is flushed. Nobody takes a begun row back.
AddFails ==
  /\ record # None /\ connected /\ ~added
  /\ torn' \in {torn, TRUE}
  /\ refused' = refused \cup {record}
  /\ record' = None
  /\ UNCHANGED <<made, queue, added, connected, buffer, due, table, failures, twice>>

\* Mutant: the limit is exceeded by one row more.
LateFlush == Len(buffer) > FlushLimit + 1 \/ due

NeedsFlush == Len(buffer) > FlushLimit \/ due

Keep ==
  /\ record # None /\ connected /\ added
  /\ ~NeedsFlush
  /\ record' = None
  /\ UNCHANGED <<made, queue, added, connected, buffer, torn, refused, due, table, failures, twice>>

Flush ==
  /\ record # None /\ connected /\ added
  /\ NeedsFlush
  /\ table' = table \o buffer
  /\ buffer' = <<>> /\ due' = FALSE /\ record' = None
  /\ UNCHANGED <<made, queue, added, connected, torn, refused, failures, twice>>

\* A flush that fails keeps its rows, which may have been stored.
FlushFails ==
  /\ record # None /\ connected /\ added
  /\ NeedsFlush
  /\ failures < MaxFailures
  /\ failures' = failures + 1
  /\ connected' = FALSE
  /\ \/ UNCHANGED <<table, twice>>
     \/ table' = table \o buffer /\ twice' = twice + 1
  /\ UNCHANGED <<made, queue, record, added, buffer, torn, refused, due>>

Elapse ==
  /\ due' = TRUE
  /\ UNCHANGED <<made, queue, record, added, connected, buffer, torn, refused, table, failures, twice>>

Work == Take \/ Connect \/ Add \/ AddFails \/ Keep \/ Flush

Next ==
  \/ Make
  \/ Take \/ Connect \/ ConnectFails \/ Add \/ AddFails \/ Keep \/ Flush \/ FlushFails
  \/ Elapse

Spec == Init /\ [][Next]_vars /\ WF_vars(Work)

-----------------------------------------------------------------------------

Rows == table \o buffer

Stored == {table[i] : i \in DOMAIN table}
Waiting == {buffer[i] : i \in DOMAIN buffer}

Copies(rows, n) == Cardinality({i \in DOMAIN rows : rows[i] = n})

\* The records that the thread has put into the buffer or given up are the first
\* ones made.
Handled == made - Len(queue) - IF record # None /\ ~added THEN 1 ELSE 0

\* Through any failures no record is lost or repeated but those that could not be
\* added: what was stored or waits in the buffer is every other record handled, in
\* the order of the exchanges, and a row is there again only if QuestDB had stored
\* a flush that failed (metrics.rs:140-194).
RowsAreComplete ==
  /\ {Rows[i] : i \in DOMAIN Rows} = (1..Handled) \ refused
  /\ \A i, j \in DOMAIN buffer : i < j => buffer[i] < buffer[j]
  /\ \A n \in 1..Handled : Copies(Rows, n) <= 1 + twice

\* Every record gets its turn, and once more rows than the limit wait, or one was
\* added after the flush interval, all that wait are stored at last, however often
\* QuestDB was lost and whatever could not be added in between. (Until then they
\* wait: only a record that was added makes the thread look at count and time,
\* metrics.rs:168-190.)
RowsAreStored ==
  \A n \in 1..MaxRecords :
    /\ made >= n ~> n \in Stored \cup Waiting \cup refused
    /\ n \in Waiting /\ (Len(buffer) > FlushLimit \/ (due /\ record # None /\ added))
         ~> n \in Stored
=============================================================================
