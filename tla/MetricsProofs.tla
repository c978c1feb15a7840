--------------------------- MODULE MetricsProofs ---------------------------
(***************************************************************************)
(* The rows of the metrics are complete but for the records that could not *)
(* be added, for any number of records and of failures, wherever QuestDB   *)
(* goes away and whatever it stored of a flush that it did not confirm.    *)
(***************************************************************************)
EXTENDS Metrics, SequenceTheorems, FiniteSetTheorems, TLAPS

TypeOK ==
  /\ made \in Nat /\ failures \in Nat /\ twice \in Nat
  /\ queue \in Seq(Nat) /\ buffer \in Seq(Nat) /\ table \in Seq(Nat)
  /\ record \in Nat
  /\ added \in BOOLEAN /\ connected \in BOOLEAN /\ due \in BOOLEAN
  /\ torn \in BOOLEAN /\ refused \subseteq Nat

In(rows) == {rows[i] : i \in DOMAIN rows}

Rising(rows) == \A i, j \in DOMAIN rows : i < j => rows[i] < rows[j]

\* The records that wait are the last ones made, and the one at work is the one
\* before them.
InOrder ==
  /\ Len(queue) <= made
  /\ \A i \in 1..Len(queue) : queue[i] = made - Len(queue) + i
  /\ record # None => record = made - Len(queue)

\* A row of the buffer is in the table only if a flush was stored although it
\* failed; any other row was stored once besides.
Counted ==
  \A n \in Nat : Copies(table, n) <= IF n \in In(buffer) THEN twice ELSE 1 + twice

\* The records handled are in the table, in the buffer, or were refused.
Accepted == (1..Handled) \ refused

RowsInv ==
  /\ InOrder
  /\ refused \subseteq 1..Handled
  /\ In(table) \cup In(buffer) = Accepted
  /\ Rising(buffer)
  /\ Counted
----------------------------------------------------------------------------
(* Sequences of rows.                                                      *)

LEMMA CopiesType ==
  ASSUME NEW s \in Seq(Nat), NEW n
  PROVE  /\ IsFiniteSet({i \in DOMAIN s : s[i] = n})
         /\ Copies(s, n) \in Nat
<1>1. DOMAIN s = 1..Len(s) /\ Len(s) \in Nat
  BY LenProperties
<1>2. IsFiniteSet(DOMAIN s)
  BY <1>1, FS_Interval
<1>3. IsFiniteSet({i \in DOMAIN s : s[i] = n})
  BY <1>2, FS_Subset
<1> QED
  BY <1>3, FS_CardinalityType DEF Copies

\* What is not in a sequence is there no time.
LEMMA NoCopies ==
  ASSUME NEW s \in Seq(Nat), NEW n, n \notin In(s)
  PROVE  Copies(s, n) = 0
<1>1. {i \in DOMAIN s : s[i] = n} = {}
  BY DEF In
<1> QED
  BY <1>1, FS_EmptySet DEF Copies

LEMMA InConcat ==
  ASSUME NEW s \in Seq(Nat), NEW t \in Seq(Nat)
  PROVE  In(s \o t) = In(s) \cup In(t)
<1>1. /\ Len(s) \in Nat /\ DOMAIN s = 1..Len(s)
      /\ Len(t) \in Nat /\ DOMAIN t = 1..Len(t)
      /\ DOMAIN (s \o t) = 1..(Len(s) + Len(t))
  BY LenProperties, ConcatProperties
<1>2. \A i \in 1..(Len(s) + Len(t)) :
        (s \o t)[i] = IF i <= Len(s) THEN s[i] ELSE t[i - Len(s)]
  BY ConcatProperties
<1>3. In(s \o t) \subseteq In(s) \cup In(t)
  <2> SUFFICES ASSUME NEW i \in 1..(Len(s) + Len(t))
               PROVE  (s \o t)[i] \in In(s) \cup In(t)
    BY <1>1 DEF In
  <2>1. CASE i <= Len(s)
    BY <1>1, <1>2, <2>1 DEF In
  <2>2. CASE ~(i <= Len(s))
    <3>1. i - Len(s) \in 1..Len(t)
      BY <1>1, <2>2
    <3> QED
      BY <1>1, <1>2, <2>2, <3>1 DEF In
  <2> QED
    BY <2>1, <2>2
<1>4. In(s) \subseteq In(s \o t)
  <2> SUFFICES ASSUME NEW i \in 1..Len(s)
               PROVE  s[i] \in In(s \o t)
    BY <1>1 DEF In
  <2>1. i \in 1..(Len(s) + Len(t)) /\ (s \o t)[i] = s[i]
    BY <1>1, <1>2
  <2> QED
    BY <1>1, <2>1 DEF In
<1>5. In(t) \subseteq In(s \o t)
  <2> SUFFICES ASSUME NEW i \in 1..Len(t)
               PROVE  t[i] \in In(s \o t)
    BY <1>1 DEF In
  <2>1. i + Len(s) \in 1..(Len(s) + Len(t)) /\ (s \o t)[i + Len(s)] = t[i]
    BY <1>1, <1>2
  <2> QED
    BY <1>1, <2>1 DEF In
<1> QED
  BY <1>3, <1>4, <1>5

\* Rows that rise add at most one copy of each.
LEMMA CopiesConcat ==
  ASSUME NEW s \in Seq(Nat), NEW t \in Seq(Nat), Rising(t), NEW n
  PROVE  Copies(s \o t, n) <= Copies(s, n) + IF n \in In(t) THEN 1 ELSE 0
<1> DEFINE A == {i \in DOMAIN s : s[i] = n}
           C == {i \in DOMAIN (s \o t) : (s \o t)[i] = n}
<1>1. /\ Len(s) \in Nat /\ DOMAIN s = 1..Len(s)
      /\ Len(t) \in Nat /\ DOMAIN t = 1..Len(t)
      /\ DOMAIN (s \o t) = 1..(Len(s) + Len(t))
  BY LenProperties, ConcatProperties
<1>2. \A i \in 1..(Len(s) + Len(t)) :
        (s \o t)[i] = IF i <= Len(s) THEN s[i] ELSE t[i - Len(s)]
  BY ConcatProperties
<1>3. IsFiniteSet(A) /\ Cardinality(A) \in Nat
  BY CopiesType DEF Copies
<1>4. \A i \in C : i \in A \/ (i - Len(s) \in 1..Len(t) /\ t[i - Len(s)] = n)
  BY <1>1, <1>2
<1>5. CASE n \notin In(t)
  <2>1. C \in SUBSET A
    BY <1>1, <1>4, <1>5 DEF In
  <2> QED
    BY <1>3, <1>5, <2>1, FS_Subset DEF Copies
<1>6. CASE n \in In(t)
  <2>1. PICK k \in 1..Len(t) : t[k] = n
    BY <1>1, <1>6 DEF In
  <2>2. \A j \in 1..Len(t) : t[j] = n => j = k
    <3> SUFFICES ASSUME NEW j \in 1..Len(t), t[j] = n, j # k
                 PROVE  FALSE
      OBVIOUS
    <3>1. t[j] \in Nat /\ t[k] \in Nat
      BY ElementOfSeq
    <3>2. j < k => t[j] < t[k]
      BY <1>1 DEF Rising
    <3>3. k < j => t[k] < t[j]
      BY <1>1 DEF Rising
    <3> QED
      BY <1>1, <2>1, <3>1, <3>2, <3>3
  <2> DEFINE B == A \cup {k + Len(s)}
  <2>3. C \in SUBSET B
    <3> SUFFICES ASSUME NEW i \in C, i \notin A
                 PROVE  i = k + Len(s)
      OBVIOUS
    <3>1. i \in Nat /\ i - Len(s) \in 1..Len(t) /\ t[i - Len(s)] = n
      BY <1>1, <1>4
    <3>2. i - Len(s) = k
      BY <2>2, <3>1
    <3> QED
      BY <1>1, <3>1, <3>2
  <2>4. IsFiniteSet(B) /\ Cardinality(B) <= Cardinality(A) + 1
    <3> HIDE DEF A
    <3>1. /\ IsFiniteSet(B)
          /\ Cardinality(B) = IF k + Len(s) \in A THEN Cardinality(A) ELSE Cardinality(A) + 1
      BY <1>3, FS_AddElement
    <3> QED
      BY <1>3, <3>1
  <2>5. Cardinality(C) <= Cardinality(B) /\ IsFiniteSet(C)
    BY <2>3, <2>4, FS_Subset
  <2>6. Cardinality(C) \in Nat /\ Cardinality(B) \in Nat
    BY <2>4, <2>5, FS_CardinalityType
  <2> HIDE DEF A, B, C
  <2>7. Cardinality(C) <= Cardinality(A) + 1
    BY <1>3, <2>4, <2>5, <2>6
  <2> QED
    BY <1>6, <2>7 DEF Copies, A, C
<1> QED
  BY <1>5, <1>6

LEMMA InAppend ==
  ASSUME NEW s \in Seq(Nat), NEW n \in Nat
  PROVE  In(Append(s, n)) = In(s) \cup {n}
<1>1. /\ Len(s) \in Nat /\ DOMAIN s = 1..Len(s)
      /\ DOMAIN Append(s, n) = 1..(Len(s) + 1)
      /\ \A i \in 1..Len(s) : Append(s, n)[i] = s[i]
      /\ Append(s, n)[Len(s) + 1] = n
  BY LenProperties, AppendProperties
<1>2. \A i \in 1..(Len(s) + 1) : i \in 1..Len(s) \/ i = Len(s) + 1
  BY <1>1
<1>3. 1..Len(s) \subseteq 1..(Len(s) + 1) /\ Len(s) + 1 \in 1..(Len(s) + 1)
  BY <1>1
<1> QED
  BY <1>1, <1>2, <1>3 DEF In
----------------------------------------------------------------------------
(* The invariant, step by step.                                            *)

LEMMA RowsTyped ==
  ASSUME TypeOK, [Next]_vars
  PROVE  TypeOK'
<1> USE DEF TypeOK
<1>1. CASE Make
  <2>1. made' \in Nat /\ made' = made + 1
    BY <1>1 DEF Make
  <2>2. Append(queue, made') \in Seq(Nat)
    BY <2>1, AppendProperties
  <2> QED
    BY <1>1, <2>1, <2>2 DEF Make
<1>2. CASE Take
  <2>1. Head(queue) \in Nat /\ Tail(queue) \in Seq(Nat)
    BY <1>2, HeadTailProperties DEF Take
  <2>2. added' \in BOOLEAN
    BY <1>2 DEF Take
  <2> QED
    BY <1>2, <2>1, <2>2 DEF Take
<1>3. CASE Connect
  BY <1>3 DEF Connect
<1>4. CASE ConnectFails
  BY <1>4 DEF ConnectFails, threadVars
<1>5. CASE Add
  <2>1. Append(buffer, record) \in Seq(Nat)
    BY AppendProperties
  <2> QED
    BY <1>5, <2>1 DEF Add
<1>6. CASE Keep
  BY <1>6 DEF Keep, None
<1>11. CASE AddFails
  <2>1. torn' = torn \/ torn' = TRUE
    BY <1>11 DEF AddFails
  <2>2. torn' \in BOOLEAN
    BY <2>1, Zenon
  <2>3. refused' \subseteq Nat
    BY <1>11 DEF AddFails
  <2> QED
    BY <1>11, <2>2, <2>3 DEF AddFails, None
<1>7. CASE Flush
  <2>1. table \o buffer \in Seq(Nat) /\ <<>> \in Seq(Nat)
    BY ConcatProperties, EmptySeq
  <2> QED
    BY <1>7, <2>1 DEF Flush, None
<1>8. CASE FlushFails
  <2>1. table \o buffer \in Seq(Nat)
    BY ConcatProperties
  <2>2. failures' = failures + 1
    BY <1>8 DEF FlushFails
  <2>3. /\ table' \in {table, table \o buffer}
        /\ twice' \in {twice, twice + 1}
    BY <1>8 DEF FlushFails
  <2>4. failures' \in Nat /\ table' \in Seq(Nat) /\ twice' \in Nat
    <3>1. table' = table \/ table' = table \o buffer
      BY <2>3
    <3>2. table' \in Seq(Nat)
      BY <2>1, <3>1
    <3> QED
      BY <2>2, <2>3, <3>2
  <2>5. connected' \in BOOLEAN
    BY <1>8, Zenon DEF FlushFails
  <2> QED
    BY <1>8, <2>4, <2>5 DEF FlushFails
<1>9. CASE Elapse
  BY <1>9 DEF Elapse
<1>10. CASE UNCHANGED vars
  BY <1>10 DEF vars, threadVars
<1> QED
  BY <1>1, <1>2, <1>3, <1>4, <1>5, <1>6, <1>7, <1>8, <1>9, <1>10, <1>11 DEF Next

\* The records on their way, when nothing happens to them.
LEMMA SameRecords ==
  ASSUME RowsInv, UNCHANGED <<made, queue, record, added, refused>>
  PROVE  /\ InOrder' /\ Handled' = Handled /\ Accepted' = Accepted
         /\ refused' \subseteq 1..Handled'
BY DEF RowsInv, InOrder, Accepted, Handled

LEMMA MakeKeepsRows ==
  ASSUME TypeOK, RowsInv, Make
  PROVE  RowsInv'
<1>1. /\ made \in Nat /\ Len(queue) \in Nat /\ record \in Nat
      /\ made' = made + 1
      /\ queue' = Append(queue, made + 1)
      /\ UNCHANGED <<record, added, buffer, refused, table, twice>>
  BY LenProperties DEF Make, TypeOK
<1>2. /\ Len(queue') = Len(queue) + 1
      /\ \A i \in 1..Len(queue) : queue'[i] = queue[i]
      /\ queue'[Len(queue) + 1] = made + 1
  BY <1>1, AppendProperties DEF TypeOK
<1>3. InOrder'
  <2>1. Len(queue') <= made' /\ (record' # None => record' = made' - Len(queue'))
    <3>1. Len(queue) <= made /\ (record # None => record = made - Len(queue))
      BY DEF RowsInv, InOrder
    <3> QED
      BY <1>1, <1>2, <3>1
  <2>2. ASSUME NEW i \in 1..Len(queue')
        PROVE  queue'[i] = made' - Len(queue') + i
    <3>1. i \in 1..Len(queue) \/ i = Len(queue) + 1
      BY <1>1, <1>2
    <3> QED
      BY <1>1, <1>2, <3>1 DEF RowsInv, InOrder
  <2> QED
    BY <2>1, <2>2 DEF InOrder
<1>4. Handled' = Handled
  BY <1>1, <1>2 DEF Handled
<1> QED
  BY <1>1, <1>3, <1>4 DEF RowsInv, Accepted, In, Rising, Counted

LEMMA TakeKeepsRows ==
  ASSUME TypeOK, RowsInv, Take
  PROVE  RowsInv'
<1>1. /\ made \in Nat /\ Len(queue) \in Nat \ {0}
      /\ record = None /\ ~added'
      /\ record' = Head(queue) /\ queue' = Tail(queue)
      /\ UNCHANGED <<made, buffer, refused, table, twice>>
  BY EmptySeq DEF Take, TypeOK
<1>2. /\ Len(queue') = Len(queue) - 1
      /\ \A i \in 1..Len(queue') : queue'[i] = queue[i + 1]
      /\ record' = queue[1]
  BY <1>1, HeadTailProperties DEF TypeOK
<1>3. record' = made' - Len(queue') /\ record' # None
  BY <1>1, <1>2 DEF RowsInv, InOrder, None
<1>4. InOrder'
  <2>1. ASSUME NEW i \in 1..Len(queue')
        PROVE  queue'[i] = made' - Len(queue') + i
    <3>1. i + 1 \in 1..Len(queue)
      BY <1>1, <1>2
    <3> QED
      BY <1>1, <1>2, <3>1 DEF RowsInv, InOrder
  <2> QED
    BY <1>1, <1>2, <1>3, <2>1 DEF RowsInv, InOrder
<1>5. Handled' = Handled
  <2>1. Handled = made - Len(queue)
    BY <1>1 DEF Handled
  <2>2. Handled' = made' - Len(queue') - 1
    BY <1>1, <1>3 DEF Handled
  <2> QED
    BY <1>1, <1>2, <2>1, <2>2
<1> QED
  BY <1>1, <1>4, <1>5 DEF RowsInv, Accepted, In, Rising, Counted

\* The record at work is the one after those handled.
LEMMA AtWork ==
  ASSUME TypeOK, RowsInv, record # None, ~added
  PROVE  /\ record \in Nat \ {0} /\ Handled = record - 1
         /\ record = made - Len(queue) /\ record \notin refused
<1>1. made \in Nat /\ Len(queue) \in Nat /\ record \in Nat
  BY LenProperties DEF TypeOK
<1>2. record = made - Len(queue)
  BY DEF RowsInv, InOrder
<1>3. Handled = made - Len(queue) - 1
  BY DEF Handled
<1>4. refused \subseteq 1..Handled
  BY DEF RowsInv
<1> QED
  BY <1>1, <1>2, <1>3, <1>4 DEF None

\* The record at work is the next one: nothing that was added is as large.
LEMMA AddKeepsRows ==
  ASSUME TypeOK, RowsInv, Add
  PROVE  RowsInv'
<1>1. /\ made \in Nat /\ Len(queue) \in Nat /\ twice \in Nat
      /\ record \in Nat /\ record # None /\ ~added
      /\ buffer \in Seq(Nat) /\ table \in Seq(Nat)
      /\ buffer' = Append(buffer, record) /\ added'
      /\ UNCHANGED <<made, queue, record, refused, table, twice>>
  BY LenProperties DEF Add, TypeOK
<1>2. In(table) \cup In(buffer) = (1..Handled) \ refused
  BY DEF RowsInv, Accepted
<1>3. /\ record = made - Len(queue) /\ record \notin refused
      /\ Handled = record - 1 /\ Handled' = record
  <2>1. Handled' = made' - Len(queue') - 0
    BY <1>1 DEF Handled
  <2> QED
    BY <1>1, <2>1, AtWork
<1>4. record \notin In(table)
  BY <1>1, <1>2, <1>3
<1>5. In(buffer') = In(buffer) \cup {record}
  BY <1>1, InAppend
<1>6. /\ In(table') \cup In(buffer') = Accepted'
      /\ refused' \subseteq 1..Handled'
  <2>1. 1..record = 1..(record - 1) \cup {record}
    BY <1>1 DEF None
  <2>2. refused \subseteq 1..Handled
    BY DEF RowsInv
  <2> QED
    BY <1>1, <1>2, <1>3, <1>5, <2>1, <2>2 DEF Accepted
<1>7. Rising(buffer')
  <2>1. /\ Len(buffer) \in Nat /\ DOMAIN buffer = 1..Len(buffer)
        /\ DOMAIN buffer' = 1..(Len(buffer) + 1)
        /\ \A i \in 1..Len(buffer) : buffer'[i] = buffer[i]
        /\ buffer'[Len(buffer) + 1] = record
    BY <1>1, LenProperties, AppendProperties
  <2>2. \A i \in 1..Len(buffer) : buffer[i] < record
    <3>1. \A i \in 1..Len(buffer) : buffer[i] \in 1..Handled
      BY <1>2, <2>1 DEF In
    <3> QED
      BY <1>1, <1>3, <3>1
  <2>3. Rising(buffer)
    BY DEF RowsInv
  <2> SUFFICES ASSUME NEW i \in 1..(Len(buffer) + 1), NEW j \in 1..(Len(buffer) + 1),
                      i < j
               PROVE  buffer'[i] < buffer'[j]
    BY <2>1 DEF Rising
  <2>4. CASE j = Len(buffer) + 1
    BY <2>1, <2>2, <2>4
  <2>5. CASE j \in 1..Len(buffer)
    BY <2>1, <2>3, <2>5 DEF Rising
  <2> QED
    BY <2>1, <2>4, <2>5
<1>8. Counted'
  <2>1. SUFFICES ASSUME NEW n \in Nat
                 PROVE  Copies(table, n) <= IF n \in In(buffer') THEN twice ELSE 1 + twice
    BY <1>1 DEF Counted
  <2>2. Copies(table, n) <= IF n \in In(buffer) THEN twice ELSE 1 + twice
    BY DEF RowsInv, Counted
  <2>3. CASE n = record
    <3>1. Copies(table, n) = 0
      BY <1>1, <1>4, <2>3, NoCopies
    <3> QED
      BY <1>1, <3>1
  <2>4. CASE n # record
    BY <1>5, <2>2, <2>4
  <2> QED
    BY <2>3, <2>4
<1>9. InOrder'
  BY <1>1 DEF RowsInv, InOrder
<1> QED
  BY <1>6, <1>7, <1>8, <1>9 DEF RowsInv

\* A record that cannot be added is handled, and is in neither place.
LEMMA AddFailsKeepsRows ==
  ASSUME TypeOK, RowsInv, AddFails
  PROVE  RowsInv'
<1>1. /\ record # None /\ ~added /\ record' = None
      /\ refused' = refused \cup {record}
      /\ UNCHANGED <<made, queue, added, buffer, table, twice>>
  BY DEF AddFails
<1>2. /\ made \in Nat /\ Len(queue) \in Nat
      /\ record \in Nat \ {0} /\ Handled = record - 1
      /\ record = made - Len(queue)
  BY <1>1, AtWork, LenProperties DEF TypeOK
<1>3. Handled' = record
  <2>1. Handled' = made' - Len(queue') - 0
    BY <1>1 DEF Handled
  <2> QED
    BY <1>1, <1>2, <2>1
<1>4. Accepted' = Accepted /\ refused' \subseteq 1..Handled'
  <2>1. 1..record = 1..(record - 1) \cup {record}
    BY <1>2
  <2>2. record \notin 1..(record - 1)
    BY <1>2
  <2>3. refused \subseteq 1..Handled
    BY DEF RowsInv
  <2> QED
    BY <1>1, <1>2, <1>3, <2>1, <2>2, <2>3 DEF Accepted
<1>5. InOrder'
  BY <1>1 DEF RowsInv, InOrder
<1> QED
  BY <1>1, <1>4, <1>5 DEF RowsInv, In, Rising, Counted

\* What a flush stores.
LEMMA StoredRows ==
  ASSUME TypeOK, RowsInv, NEW n \in Nat
  PROVE  Copies(table \o buffer, n) <= 1 + twice
<1>1. /\ table \in Seq(Nat) /\ buffer \in Seq(Nat) /\ twice \in Nat
      /\ table \o buffer \in Seq(Nat)
  BY ConcatProperties DEF TypeOK
<1>2. /\ Copies(table, n) \in Nat
      /\ Copies(table \o buffer, n) \in Nat
  BY <1>1, CopiesType
<1>3. Copies(table \o buffer, n)
        <= Copies(table, n) + IF n \in In(buffer) THEN 1 ELSE 0
  BY <1>1, CopiesConcat DEF RowsInv
<1>4. Copies(table, n) <= IF n \in In(buffer) THEN twice ELSE 1 + twice
  BY DEF RowsInv, Counted
<1> QED
  BY <1>1, <1>2, <1>3, <1>4

LEMMA FlushKeepsRows ==
  ASSUME TypeOK, RowsInv, Flush
  PROVE  RowsInv'
<1>1. /\ made \in Nat /\ Len(queue) \in Nat /\ twice \in Nat
      /\ record # None /\ added /\ record' = None
      /\ buffer \in Seq(Nat) /\ table \in Seq(Nat)
      /\ table' = table \o buffer /\ buffer' = <<>>
      /\ UNCHANGED <<made, queue, added, refused, twice>>
  BY LenProperties DEF Flush, TypeOK
<1>2. Handled' = Handled /\ Accepted' = Accepted
  BY <1>1 DEF Handled, Accepted
<1>3. In(buffer') = {} /\ In(table') = In(table) \cup In(buffer)
  <2>1. In(buffer') = {}
    BY <1>1 DEF In
  <2> QED
    BY <1>1, <2>1, InConcat
<1>4. /\ In(table') \cup In(buffer') = Accepted'
      /\ refused' \subseteq 1..Handled'
  BY <1>1, <1>2, <1>3 DEF RowsInv
<1>5. Rising(buffer')
  BY <1>1 DEF Rising
<1>6. Counted'
  BY <1>1, <1>3, StoredRows DEF Counted
<1>7. InOrder'
  BY <1>1 DEF RowsInv, InOrder
<1> QED
  BY <1>4, <1>5, <1>6, <1>7 DEF RowsInv

\* A flush that was stored although it failed is counted.
LEMMA FlushFailsKeepsRows ==
  ASSUME TypeOK, RowsInv, FlushFails
  PROVE  RowsInv'
<1>1. /\ buffer \in Seq(Nat) /\ table \in Seq(Nat) /\ twice \in Nat
      /\ UNCHANGED <<made, queue, record, added, buffer, refused>>
      /\ \/ UNCHANGED <<table, twice>>
         \/ table' = table \o buffer /\ twice' = twice + 1
  BY DEF FlushFails, TypeOK
<1>2. InOrder' /\ Accepted' = Accepted /\ refused' \subseteq 1..Handled'
  BY <1>1, SameRecords
<1>3. Rising(buffer')
  BY <1>1 DEF RowsInv, Rising
<1>4. CASE UNCHANGED <<table, twice>>
  BY <1>1, <1>2, <1>3, <1>4 DEF RowsInv, Counted, In
<1>5. CASE table' = table \o buffer /\ twice' = twice + 1
  <2>1. In(buffer') = In(buffer) /\ In(table') = In(table) \cup In(buffer)
    BY <1>1, <1>5, InConcat
  <2>2. In(table') \cup In(buffer') = Accepted'
    BY <1>2, <2>1 DEF RowsInv
  <2>3. Counted'
    <3> SUFFICES ASSUME NEW n \in Nat
                 PROVE  Copies(table', n) <= IF n \in In(buffer') THEN twice' ELSE 1 + twice'
      BY DEF Counted
    <3>1. Copies(table', n) <= 1 + twice
      BY <1>5, StoredRows
    <3>2. Copies(table', n) \in Nat
      BY <1>1, <1>5, ConcatProperties, CopiesType
    <3> QED
      BY <1>1, <1>5, <3>1, <3>2
  <2> QED
    BY <1>2, <1>3, <2>2, <2>3 DEF RowsInv
<1> QED
  BY <1>1, <1>4, <1>5

LEMMA RowsStep ==
  ASSUME TypeOK, RowsInv, [Next]_vars
  PROVE  RowsInv'
<1>1. CASE UNCHANGED <<made, queue, record, added, buffer, refused, table, twice>>
  BY <1>1, SameRecords DEF RowsInv, Rising, Counted, In
<1>2. CASE Keep
  <2>1. /\ record # None /\ added /\ record' = None
        /\ UNCHANGED <<made, queue, added, buffer, refused, table, twice>>
    BY <1>2 DEF Keep
  <2>2. InOrder' /\ Handled' = Handled /\ Accepted' = Accepted
    BY <2>1 DEF RowsInv, InOrder, Handled, Accepted
  <2> QED
    BY <2>1, <2>2 DEF RowsInv, Rising, Counted, In
<1> QED
  BY <1>1, <1>2, MakeKeepsRows, TakeKeepsRows, AddKeepsRows, AddFailsKeepsRows,
     FlushKeepsRows, FlushFailsKeepsRows
     DEF Next, Connect, ConnectFails, Elapse, vars, threadVars

----------------------------------------------------------------------------
(* Theorems.                                                               *)

\* What was stored or waits in the buffer is every record the thread is done
\* with but those that could not be added, in the order of the exchanges, each at
\* most once more than there were flushes that QuestDB stored and did not confirm
\* (metrics.rs:140-195).
THEOREM CompleteRows == Spec => []RowsAreComplete
<1>1. Init => TypeOK /\ RowsInv
  <2> SUFFICES ASSUME Init
               PROVE  TypeOK /\ RowsInv
    OBVIOUS
  <2>1. /\ made = 0 /\ queue = <<>> /\ record = None /\ failures = 0 /\ twice = 0
        /\ buffer = <<>> /\ table = <<>> /\ refused = {}
    BY DEF Init
  <2>2. <<>> \in Seq(Nat) /\ Len(queue) = 0 /\ In(table) = {} /\ In(buffer) = {}
    BY <2>1, EmptySeq DEF In
  <2>3. /\ added \in BOOLEAN /\ connected \in BOOLEAN /\ due \in BOOLEAN
        /\ torn \in BOOLEAN
    BY DEF Init
  <2>4. TypeOK
    BY <2>1, <2>2, <2>3 DEF TypeOK, None
  <2>5. InOrder /\ Accepted = {} /\ refused \subseteq 1..Handled
    <3>1. InOrder
      BY <2>1, <2>2 DEF InOrder
    <3>2. Handled = made - Len(queue) - 0
      BY <2>1 DEF Handled
    <3> QED
      BY <2>1, <2>2, <3>1, <3>2 DEF Accepted
  <2>6. Rising(buffer)
    BY <2>1 DEF Rising
  <2>7. Counted
    <3> SUFFICES ASSUME NEW n \in Nat
                 PROVE  Copies(table, n) <= 1 + twice
      BY <2>2 DEF Counted
    <3>1. Copies(table, n) = 0
      BY <2>1, <2>2, NoCopies
    <3> QED
      BY <2>1, <3>1
  <2> QED
    BY <2>2, <2>4, <2>5, <2>6, <2>7 DEF RowsInv
<1>2. TypeOK /\ RowsInv /\ [Next]_vars => (TypeOK /\ RowsInv)'
  BY RowsTyped, RowsStep
<1>3. TypeOK /\ RowsInv => RowsAreComplete
  <2> SUFFICES ASSUME TypeOK, RowsInv
               PROVE  RowsAreComplete
    OBVIOUS
  <2>1. In(Rows) = (1..Handled) \ refused
    BY InConcat DEF Rows, RowsInv, Accepted, TypeOK
  <2>2. \A n \in 1..Handled : Copies(Rows, n) <= 1 + twice
    BY StoredRows DEF Rows
  <2> QED
    BY <2>1, <2>2 DEF RowsAreComplete, RowsInv, Rising, In
<1> QED
  BY <1>1, <1>2, <1>3, PTL DEF Spec
=============================================================================
