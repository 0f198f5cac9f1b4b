------------------------ MODULE DirectConsumerProofs -------------------------
(***************************************************************************)
(* What DirectConsumer does for every set of alarms and databases, size of *)
(* a batch and number of failures: it implements RowDelivery.              *)
(***************************************************************************)
EXTENDS DirectConsumer, SequenceTheorems, FiniteSetTheorems, TLAPS

\* Where the process is tells how full its batch is: get_queue_exp returns it
\* full and the loop takes from it what there is.
BatchFits ==
    /\ pc = "fetch" => Len(batch) < Step
    /\ pc = "row" => batch # <<>>
    /\ pc = "list" => Len(batch) < Step
    /\ pc = "dead" => batch = <<>>

Inv == TypeOK /\ BatchFits

\* What an alarm of the list is.
LEMMA AlarmType ==
    ASSUME TypeOK
    PROVE  /\ Len(sent) \in Nat
           /\ \A i \in Index : /\ sent[i] \in Alarms
                               /\ Db(i) \in Dbs
                               /\ Field(i) \in Fields
  <1>1. Len(sent) \in Nat
    BY LenProperties DEF TypeOK
  <1>2. ASSUME NEW i \in Index
        PROVE  sent[i] \in Alarms
    BY <1>2, ElementOfSeq DEF TypeOK, Index
  <1> QED
    BY <1>1, <1>2, AlarmsAssumption DEF Db, Field, Fields

\* A batch can lose its first element, or all of them.
LEMMA BatchTail ==
    ASSUME TypeOK, batch # <<>>
    PROVE  /\ Head(batch) \in Index
           /\ Tail(batch) \in Seq(Index)
           /\ Len(Tail(batch)) < Step
  <1>1. /\ Head(batch) \in Index
        /\ Tail(batch) \in Seq(Index)
        /\ Len(Tail(batch)) = Len(batch) - 1 /\ Len(batch) \in Nat
    BY HeadTailProperties, LenProperties DEF TypeOK
  <1> QED
    BY <1>1, StepAssumption DEF TypeOK

\* An empty batch is a batch.
LEMMA Empty == <<>> \in Seq(Index) /\ Len(<<>>) = 0 /\ 0 < Step
  BY EmptySeq, StepAssumption

\* Where the loop over the batch goes on, the batch is as full as it should be.
LEMMA ContinueFits ==
    ASSUME pc' = Continue(batch'), Len(batch') < Step
    PROVE  pc' \in {"fetch", "row"} /\ BatchFits'
  BY DEF Continue, BatchFits

\* So it is after an exception.
LEMMA RaiseFits ==
    ASSUME pc' \in {"fetch", "dead"}, batch' = <<>>
    PROVE  /\ BatchFits' /\ batch' \in Seq(Index) /\ Len(batch') <= Step
           /\ Nothing \in [Dbs -> SUBSET Fields]
  BY Empty, StepAssumption DEF BatchFits, Nothing

\* A row of a database is inserted there, and a field is listed there.
LEMMA Insertion ==
    ASSUME TypeOK, NEW i \in Index
    PROVE  [table EXCEPT ![Db(i)] = Append(@, i)] \in [Dbs -> Seq(Index)]
  <1>1. \A s \in Seq(Index) : Append(s, i) \in Seq(Index)
    BY AppendProperties
  <1> QED
    BY <1>1, AlarmType DEF TypeOK

\* Listing the field of a row keeps the type of the table of fields.
LEMMA FieldListed ==
    ASSUME TypeOK, NEW i \in Index, NEW t \in [Dbs -> SUBSET Fields]
    PROVE  [t EXCEPT ![Db(i)] = @ \cup {Field(i)}] \in [Dbs -> SUBSET Fields]
  BY AlarmType DEF TypeOK

\* What is kept of the databases made again.
Made ==
    /\ remakes \in Nat
    /\ dropped \in [Dbs -> Nat] /\ \A d \in Dbs : dropped[d] <= Len(table[d])
    /\ stale \in [Dbs -> SUBSET Fields]

\* It holds on while the tables grow.
LEMMA MadeStays ==
    ASSUME TypeOK, UNCHANGED made,
           \/ UNCHANGED table
           \/ \E i \in Index : table' = [table EXCEPT ![Db(i)] = Append(@, i)]
    PROVE  Made'
  <1>1. ASSUME NEW d \in Dbs
        PROVE  Len(table[d]) \in Nat /\ Len(table'[d]) \in Nat /\ Len(table[d]) <= Len(table'[d])
    <2>1. table[d] \in Seq(Index) /\ table \in [Dbs -> Seq(Index)]
      BY DEF TypeOK
    <2>2. CASE UNCHANGED table
      BY <2>1, <2>2, LenProperties
    <2>3. ASSUME NEW i \in Index, table' = [table EXCEPT ![Db(i)] = Append(@, i)]
          PROVE  Len(table[d]) \in Nat /\ Len(table'[d]) \in Nat
                 /\ Len(table[d]) <= Len(table'[d])
      <3>1. table'[d] \in {table[d], Append(table[d], i)}
        BY <2>1, <2>3
      <3>2. Len(Append(table[d], i)) = Len(table[d]) + 1 /\ Len(table[d]) \in Nat
        BY <2>1, AppendProperties, LenProperties
      <3> QED
        BY <3>1, <3>2
    <2> QED
      BY <2>2, <2>3
  <1>2. UNCHANGED <<remakes, dropped, stale>>
    BY DEF made
  <1>3. \A d \in Dbs : dropped[d] \in Nat /\ dropped[d] <= Len(table[d])
    BY DEF TypeOK
  <1>4. \A d \in Dbs : dropped'[d] <= Len(table'[d])
    BY <1>1, <1>2, <1>3
  <1> QED
    BY <1>2, <1>4 DEF Made, TypeOK

\* After an exception that stores nothing, everything is as it should be.
LEMMA RaiseInv ==
    ASSUME Inv, Raise(listed), UNCHANGED <<mode, sent, next, mysql, made>>
    PROVE  Inv'
  <1>1. /\ pc' \in {"fetch", "dead"} /\ batch' = <<>> /\ row' = 0
        /\ listed' \in {listed, Nothing} /\ failures' = failures + 1
    BY DEF Raise, Die
  <1>2. BatchFits' /\ batch' \in Seq(Index) /\ Len(batch') <= Step
        /\ Nothing \in [Dbs -> SUBSET Fields] /\ UNCHANGED Index
    BY <1>1, RaiseFits DEF Index
  <1>3. Made'
    BY MadeStays DEF Inv, mysql
  <1>4. Len(sent) \in Nat
    BY AlarmType DEF Inv
  <1> QED
    BY <1>1, <1>2, <1>3, <1>4 DEF Inv, TypeOK, mysql, Made

\* Every step keeps Inv, one action after the other.
LEMMA StepInv == Inv /\ [Next]_vars => Inv'
  <1> SUFFICES ASSUME Inv, [Next]_vars PROVE Inv'
    OBVIOUS
  <1> USE DEF Inv
  <1>0. /\ TypeOK /\ BatchFits
        /\ Len(sent) \in Nat /\ Len(batch) \in Nat /\ next \in Nat /\ failures \in Nat
        /\ MaxAlarms \in Nat /\ Step \in Nat
    BY LenProperties, BoundsAssumption, StepAssumption DEF TypeOK
  <1>1. ASSUME NEW a \in Alarms, Post(a), UNCHANGED mode
        PROVE  Inv'
    <2>1. sent' \in Seq(Alarms) /\ Len(sent') = Len(sent) + 1
      BY <1>1, AppendProperties DEF Post, TypeOK
    <2>2. Index \subseteq Index'
      BY <1>0, <2>1 DEF Index
    <2>3. Seq(Index) \subseteq Seq(Index')
      BY <2>2, SeqMonotonic
    <2>4. /\ batch' \in Seq(Index') /\ table' \in [Dbs -> Seq(Index')]
          /\ row' \in 0..Len(sent') /\ (pc' = "list" => row' \in Index')
          /\ next' \in 0..Len(sent') /\ Len(sent') <= MaxAlarms
      BY <1>0, <1>1, <2>1, <2>2, <2>3 DEF Post, TypeOK, memory, mysql, Index
    <2>5. Made'
      BY <1>0, <1>1, MadeStays DEF Post, mysql
    <2> QED
      BY <1>0, <1>1, <2>1, <2>4, <2>5 DEF Post, TypeOK, BatchFits, memory, mysql, Made
  <1>2. CASE Fetch /\ UNCHANGED <<mode, made>>
    <2>1. next + 1 \in Index /\ next' \in 0..Len(sent)
      BY <1>0, <1>2 DEF Fetch, TypeOK, Index
    <2>2. /\ batch' \in Seq(Index) /\ Len(batch') = Len(batch) + 1 /\ batch' # <<>>
      BY <1>0, <1>2, <2>1, AppendProperties DEF Fetch, TypeOK
    <2>3. pc' \in {"fetch", "row"} /\ Len(batch') <= Step /\ BatchFits'
      BY <1>0, <1>2, <2>2 DEF Fetch, BatchFits
    <2>4. UNCHANGED Index
      BY <1>2 DEF Fetch, Index
    <2> QED
      BY <1>0, <1>2, <2>1, <2>2, <2>3, <2>4, MadeStays DEF Fetch, TypeOK, mysql, Made
  <1>3. CASE Skip /\ UNCHANGED <<mode, made>>
    <2>1. /\ batch' \in Seq(Index) /\ Len(batch') < Step /\ Len(batch') \in Nat
      BY <1>0, <1>3, BatchTail, LenProperties DEF Skip, BatchFits
    <2>3. pc' \in {"fetch", "row"} /\ BatchFits'
      BY <1>3, <2>1, ContinueFits DEF Skip
    <2>2. UNCHANGED Index
      BY <1>3 DEF Skip, Index
    <2> QED
      BY <1>0, <1>3, <2>1, <2>2, <2>3, MadeStays DEF Skip, TypeOK, mysql, Made
  <1>4. CASE Insert /\ UNCHANGED <<mode, made>>
    <2> DEFINE i == Head(batch)
               inserted == [table EXCEPT ![Db(i)] = Append(@, i)]
    <2>1. /\ i \in Index /\ Tail(batch) \in Seq(Index) /\ Len(Tail(batch)) < Step
          /\ Len(Tail(batch)) \in Nat
      BY <1>0, <1>4, BatchTail, LenProperties DEF Insert, BatchFits
    <2>2. inserted \in [Dbs -> Seq(Index)]
      BY <1>0, <2>1, Insertion
    <2>3. UNCHANGED <<Index, mode, sent, next, listTable>>
      BY <1>4 DEF Insert, Index
    <2>4. table' \in [Dbs -> Seq(Index)]
      BY <1>0, <1>4, <2>2 DEF Insert, TypeOK
    <2>5. /\ pc' \in {"fetch", "row", "list", "dead"} /\ BatchFits'
          /\ batch' \in Seq(Index) /\ Len(batch') <= Step
          /\ row' \in 0..Len(sent) /\ (pc' = "list" => row' \in Index)
          /\ listed' \in [Dbs -> SUBSET Fields] /\ failures' \in Nat
      <3>1. CASE Raise(listed)
        <4>1. /\ pc' \in {"fetch", "dead"} /\ batch' = <<>> /\ row' = 0
              /\ listed' \in {listed, Nothing} /\ failures' = failures + 1
          BY <3>1 DEF Raise, Die
        <4> QED
          BY <1>0, <4>1, RaiseFits DEF TypeOK
      <3>2. CASE /\ batch' = Tail(batch) /\ Consumer.lists = "none"
                 /\ pc' = Continue(Tail(batch)) /\ row' = 0
                 /\ UNCHANGED <<listed, failures>>
        <4>1. pc' \in {"fetch", "row"} /\ BatchFits'
          BY <2>1, <3>2, ContinueFits
        <4> QED
          BY <1>0, <2>1, <3>2, <4>1 DEF TypeOK
      <3>3. CASE /\ batch' = Tail(batch) /\ pc' = "list" /\ row' = i
                 /\ UNCHANGED <<listed, failures>>
        BY <1>0, <2>1, <3>3 DEF TypeOK, BatchFits, Index
      <3> QED
        BY <1>4, <3>1, <3>2, <3>3 DEF Insert
    <2>6. Made'
      <3>1. table' \in {table, inserted}
        BY <1>4 DEF Insert
      <3> QED
        BY <1>0, <1>4, <2>1, <3>1, MadeStays
    <2> HIDE DEF inserted, i
    <2> QED
      BY <1>0, <2>3, <2>4, <2>5, <2>6 DEF TypeOK, Made
  <1>5. CASE List /\ UNCHANGED <<mode, made>>
    <2> DEFINE known == IF Consumer.remembers
                        THEN [listed EXCEPT ![Db(row)] = @ \cup {Field(row)}] ELSE listed
               inserted == [listTable EXCEPT ![Db(row)] = @ \cup {Field(row)}]
    <2>1. row \in Index
      BY <1>0, <1>5 DEF List, TypeOK
    <2>2. /\ known \in [Dbs -> SUBSET Fields] /\ inserted \in [Dbs -> SUBSET Fields]
          /\ listed \in [Dbs -> SUBSET Fields] /\ listTable \in [Dbs -> SUBSET Fields]
      BY <1>0, <2>1, FieldListed DEF TypeOK
    <2>3. UNCHANGED <<Index, mode, sent, next, table>>
      BY <1>5 DEF List, Index
    <2>4. listTable' \in {listTable, inserted}
      BY <1>5 DEF List
    <2>5. \/ Raise(listed) \/ Raise(known)
          \/ /\ pc' = Continue(batch) /\ row' = 0 /\ UNCHANGED <<batch, failures>>
             /\ listed' \in {listed, known}
      BY <1>5 DEF List
    <2>6. /\ pc' \in {"fetch", "row", "dead"} /\ BatchFits'
          /\ batch' \in Seq(Index) /\ Len(batch') <= Step
          /\ row' = 0
          /\ listed' \in [Dbs -> SUBSET Fields] /\ failures' \in Nat
      <3>1. CASE Raise(listed) \/ Raise(known)
        <4>1. /\ pc' \in {"fetch", "dead"} /\ batch' = <<>> /\ row' = 0
              /\ listed' \in {listed, known, Nothing} /\ failures' = failures + 1
          BY <3>1 DEF Raise, Die
        <4> HIDE DEF known
        <4> QED
          BY <1>0, <2>2, <4>1, RaiseFits
      <3>2. CASE /\ pc' = Continue(batch) /\ row' = 0 /\ UNCHANGED <<batch, failures>>
                 /\ listed' \in {listed, known}
        <4>1. Len(batch) < Step
          BY <1>5 DEF List, BatchFits
        <4>2. pc' \in {"fetch", "row"} /\ BatchFits'
          BY <3>2, <4>1, ContinueFits, Zenon
        <4> QED
          BY <1>0, <2>2, <3>2, <4>2 DEF TypeOK
      <3> QED
        BY <2>5, <3>1, <3>2
    <2> HIDE DEF known, inserted
    <2>7. listTable' \in [Dbs -> SUBSET Fields]
      BY <2>2, <2>4
    <2>8. Made'
      BY <1>0, <1>5, <2>3, MadeStays
    <2> QED
      BY <1>0, <2>3, <2>6, <2>7, <2>8 DEF TypeOK, Made
  <1>6. CASE Kill /\ UNCHANGED mode
    <2>1. Nothing \in [Dbs -> SUBSET Fields] /\ UNCHANGED Index
      BY <1>6 DEF Nothing, Kill, Index
    <2>2. /\ pc' = "dead" /\ batch' = <<>> /\ row' = 0 /\ listed' = Nothing
          /\ failures' = failures + 1
      BY <1>6 DEF Kill, Die
    <2>3. BatchFits'
      BY <2>2 DEF BatchFits
    <2>4. Made'
      BY <1>0, <1>6, MadeStays DEF Kill, mysql
    <2> QED
      BY <1>0, <1>6, <2>1, <2>2, <2>3, <2>4, Empty DEF Kill, TypeOK, mysql, Made
  <1>7. CASE Restart /\ UNCHANGED mode
    <2>1. BatchFits' /\ UNCHANGED Index
      BY <1>0, <1>7, Empty DEF Restart, BatchFits, Index
    <2>2. Made'
      BY <1>0, <1>7, MadeStays DEF Restart, mysql
    <2> QED
      BY <1>0, <1>7, <2>1, <2>2 DEF Restart, TypeOK, mysql, Made
  <1>8. CASE UNCHANGED vars
    BY <1>0, <1>8 DEF vars, memory, mysql, made, TypeOK, BatchFits, Index
  <1>9. CASE FetchRaises /\ UNCHANGED <<mode, made>>
    BY <1>9, RaiseInv DEF FetchRaises
  <1>10. ASSUME NEW d \in Dbs, Remake(d), UNCHANGED mode
         PROVE  Inv'
    <2>1. /\ UNCHANGED <<mode, sent, next, pc, batch, row, listed, table, failures>>
          /\ BatchFits' /\ UNCHANGED Index
      BY <1>0, <1>10 DEF Remake, memory, BatchFits, Index
    <2>2. listTable' \in [Dbs -> SUBSET Fields] /\ stale' \in [Dbs -> SUBSET Fields]
      BY <1>0, <1>10 DEF Remake, TypeOK
    <2>3. remakes' \in Nat
      BY <1>0, <1>10 DEF Remake, TypeOK
    <2>4. /\ dropped' \in [Dbs -> Nat]
          /\ \A e \in Dbs : dropped'[e] <= Len(table[e])
      <3>1. \A e \in Dbs : Len(table[e]) \in Nat /\ dropped[e] <= Len(table[e])
        BY <1>0, LenProperties DEF TypeOK
      <3>2. dropped \in [Dbs -> Nat] /\ dropped' = [dropped EXCEPT ![d] = Len(table[d])]
        BY <1>0, <1>10 DEF Remake, TypeOK
      <3>3. \A e \in Dbs : dropped'[e] = IF e = d THEN Len(table[d]) ELSE dropped[e]
        BY <3>2
      <3> QED
        BY <3>1, <3>2, <3>3
    <2> QED
      BY <1>0, <2>1, <2>2, <2>3, <2>4 DEF TypeOK
  <1> QED
    BY <1>1, <1>2, <1>3, <1>4, <1>5, <1>6, <1>7, <1>8, <1>9, <1>10 DEF Next, Process

\* It holds at first.
LEMMA InitInv == Init => Inv
  <1> SUFFICES ASSUME Init PROVE Inv
    OBVIOUS
  <1>1. <<>> \in Seq(Alarms) /\ MaxAlarms \in Nat /\ Step \in Nat
    BY EmptySeq, BoundsAssumption, StepAssumption
  <1>2. /\ Nothing \in [Dbs -> SUBSET Fields]
        /\ [d \in Dbs |-> <<>>] \in [Dbs -> Seq(Index)]
    BY Empty DEF Nothing
  <1>3. /\ dropped \in [Dbs -> Nat] /\ \A d \in Dbs : dropped[d] <= Len(table[d])
        /\ stale \in [Dbs -> SUBSET Fields]
    BY <1>2, Empty DEF Init
  <1> QED
    BY <1>1, <1>2, <1>3, Empty DEF Init, Inv, TypeOK, BatchFits

\* Every reachable state has the types of TypeOK (DirectConsumer.tla), whatever
\* raises and whenever the process is killed (metrics_flow_consumer.py:48-128).
THEOREM TypeCorrect == Spec => []TypeOK
  <1>1. Inv => TypeOK
    BY DEF Inv
  <1> QED
    BY <1>1, InitInv, StepInv, PTL DEF Spec
-----------------------------------------------------------------------------
\* What RowDelivery holds in memory, and what is proved of it.
held == [d \in Dbs |-> Held(d)]
Abstract == INSTANCE RowDeliveryProofs

\* The rows of a batch are those RowDelivery means.
LEMMA RowsAgree == \A alarms, b, d : Abstract!RowsOf(alarms, b, d) = RowsOf(alarms, b, d)
  BY DEF Abstract!RowsOf, RowsOf, Abstract!IsRow, IsRow

\* An empty batch has no rows.
LEMMA RowsEmpty == \A alarms, d : RowsOf(alarms, <<>>, d) = <<>>
  <1>1. \A alarms, d : Abstract!RowsOf(alarms, <<>>, d) = <<>>
    BY Abstract!RowsOfEmpty
  <1> QED
    BY <1>1, RowsAgree

\* The rows of a batch are elements of it.
LEMMA RowsType ==
    ASSUME NEW S, NEW alarms, NEW d
    PROVE  \A b \in Seq(S) : RowsOf(alarms, b, d) \in Seq(S)
  <1>1. \A b \in Seq(S) : Abstract!RowsOf(alarms, b, d) \in Seq(S)
    BY Abstract!RowsOfType
  <1> QED
    BY <1>1, RowsAgree

\* An alarm popped last becomes the last row, if it becomes one.
LEMMA RowsAppend ==
    ASSUME NEW S, NEW alarms, NEW d
    PROVE  \A b \in Seq(S), e \in S :
             RowsOf(alarms, Append(b, e), d) =
               IF IsRow(alarms[e], d) THEN Append(RowsOf(alarms, b, d), e)
                                      ELSE RowsOf(alarms, b, d)
  <1>1. \A b \in Seq(S), e \in S :
             Abstract!RowsOf(alarms, Append(b, e), d) =
               IF IsRow(alarms[e], d) THEN Append(Abstract!RowsOf(alarms, b, d), e)
                                      ELSE Abstract!RowsOf(alarms, b, d)
    BY Abstract!RowsOfAppend DEF IsRow, Abstract!IsRow
  <1>2. \A b : Abstract!RowsOf(alarms, b, d) = RowsOf(alarms, b, d)
    BY RowsAgree
  <1> QED
    BY <1>1, <1>2, Zenon

\* An alarm handled first is the first row, if it is one.
LEMMA RowsHead ==
    ASSUME NEW S, NEW alarms, NEW d
    PROVE  \A b \in Seq(S) : b # <<>> =>
             RowsOf(alarms, b, d) =
               IF IsRow(alarms[Head(b)], d) THEN <<Head(b)>> \o RowsOf(alarms, Tail(b), d)
                                            ELSE RowsOf(alarms, Tail(b), d)
  <1>1. \A b \in Seq(S) : b # <<>> =>
             Abstract!RowsOf(alarms, b, d) =
               IF Abstract!IsRow(alarms[Head(b)], d)
               THEN <<Head(b)>> \o Abstract!RowsOf(alarms, Tail(b), d)
               ELSE Abstract!RowsOf(alarms, Tail(b), d)
    BY Abstract!RowsOfHead
  <1>2. \A a : Abstract!IsRow(a, d) <=> IsRow(a, d)
    BY DEF IsRow, Abstract!IsRow
  <1>3. \A b : Abstract!RowsOf(alarms, b, d) = RowsOf(alarms, b, d)
    BY RowsAgree
  <1> QED
    BY <1>1, <1>2, <1>3, Zenon

\* Which alarms become rows does not change with what is appended to the list.
LEMMA RowsStay ==
    ASSUME NEW S, NEW alarms, NEW others, NEW d,
           \A e \in S : IsRow(alarms[e], d) <=> IsRow(others[e], d)
    PROVE  \A b \in Seq(S) : RowsOf(alarms, b, d) = RowsOf(others, b, d)
  <1>1. \A e \in S : Abstract!IsRow(alarms[e], d) <=> Abstract!IsRow(others[e], d)
    BY DEF IsRow, Abstract!IsRow
  <1>2. \A b \in Seq(S) : Abstract!RowsOf(alarms, b, d) = Abstract!RowsOf(others, b, d)
    BY <1>1, Abstract!RowsOfSame
  <1> QED
    BY <1>2, RowsAgree

\* Posting holds nothing more.
LEMMA PostHeld ==
    ASSUME Inv, NEW a \in Alarms, Post(a)
    PROVE  Delivery!Post(a)
  <1>1. /\ Len(sent) \in Nat /\ \A i \in Index : sent'[i] = sent[i]
        /\ batch \in Seq(Index) /\ UNCHANGED <<batch, next, table>>
    BY LenProperties, AppendProperties DEF Inv, TypeOK, Post, Index, memory, mysql
  <1>2. ASSUME NEW d \in Dbs
        PROVE  Held(d)' = Held(d)
    <2>1. \A i \in Index : IsRow(sent[i], d) <=> IsRow(sent'[i], d)
      BY <1>1
    <2> DEFINE others == sent'
    <2> HIDE DEF others
    <2>2. RowsOf(sent, batch, d) = RowsOf(others, batch, d)
      BY <1>1, <2>1, RowsStay DEF others
    <2> QED
      BY <1>1, <2>2 DEF Held, others
  <1>3. held' = held
    BY <1>2 DEF held
  <1> QED
    BY <1>1, <1>3 DEF Post, Delivery!Post, held

\* Popping an alarm takes it.
LEMMA FetchHeld ==
    ASSUME Inv, Fetch
    PROVE  Delivery!Take
  <1> DEFINE a == sent[next + 1]
  <1>1. /\ next + 1 \in Index /\ batch \in Seq(Index) /\ a \in Alarms /\ a.db \in Dbs
        /\ batch' = Append(batch, next + 1) /\ next' = next + 1 /\ next < Len(sent)
        /\ UNCHANGED <<sent, table>>
    BY LenProperties, AlarmType DEF Inv, TypeOK, Fetch, Index, mysql, Db
  <1>2. ASSUME NEW d \in Dbs
        PROVE  Held(d)' = IF IsRow(a, d) THEN Append(Held(d), next + 1) ELSE Held(d)
    <2>1. \A b \in Seq(Index), e \in Index :
            RowsOf(sent, Append(b, e), d) =
              IF IsRow(sent[e], d) THEN Append(RowsOf(sent, b, d), e) ELSE RowsOf(sent, b, d)
      BY RowsAppend
    <2>2. RowsOf(sent, Append(batch, next + 1), d) =
              IF IsRow(a, d) THEN Append(RowsOf(sent, batch, d), next + 1)
                             ELSE RowsOf(sent, batch, d)
      BY <1>1, <2>1
    <2> HIDE DEF a
    <2> QED
      BY <1>1, <2>2 DEF Held
  <1>3. held' = IF Delivery!Handled(a) THEN [held EXCEPT ![a.db] = Append(@, next + 1)] ELSE held
    <2>1. held' = [d \in Dbs |-> IF IsRow(a, d) THEN Append(Held(d), next + 1) ELSE Held(d)]
      BY <1>2 DEF held
    <2>2. \A d \in Dbs : IsRow(a, d) <=> Delivery!Handled(a) /\ d = a.db
      BY DEF IsRow, Delivery!Handled
    <2> HIDE DEF a
    <2> QED
      BY <1>1, <2>1, <2>2 DEF held
  <1> QED
    BY <1>1, <1>3 DEF Delivery!Take, held

\* An alarm of another type was not held.
LEMMA SkipHeld ==
    ASSUME Inv, Skip
    PROVE  UNCHANGED <<sent, next, held, table>>
  <1>1. /\ batch \in Seq(Index) /\ batch # <<>> /\ batch' = Tail(batch)
        /\ sent[Head(batch)].kind = "alien" /\ UNCHANGED <<sent, next, table>>
    BY DEF Inv, TypeOK, BatchFits, Skip, mysql
  <1>2. ASSUME NEW d \in Dbs
        PROVE  Held(d)' = Held(d)
    <2>1. \A b \in Seq(Index) : b # <<>> =>
             RowsOf(sent, b, d) =
               IF IsRow(sent[Head(b)], d) THEN <<Head(b)>> \o RowsOf(sent, Tail(b), d)
                                          ELSE RowsOf(sent, Tail(b), d)
      BY RowsHead
    <2>2. ~IsRow(sent[Head(batch)], d)
      BY <1>1 DEF IsRow
    <2>3. RowsOf(sent, batch, d) = RowsOf(sent, Tail(batch), d)
      BY <1>1, <2>1, <2>2
    <2> QED
      BY <1>1, <2>3 DEF Held
  <1> QED
    BY <1>1, <1>2 DEF held

\* The alarm that is handled is the oldest that is held for its database.
LEMMA HandledHeld ==
    ASSUME Inv, pc = "row", sent[Head(batch)].kind # "alien"
    PROVE  /\ Head(batch) \in Index /\ Db(Head(batch)) \in Dbs
           /\ \A d \in Dbs : /\ RowsOf(sent, Tail(batch), d) \in Seq(Index)
                             /\ Held(d) = IF d = Db(Head(batch))
                                          THEN <<Head(batch)>> \o RowsOf(sent, Tail(batch), d)
                                          ELSE RowsOf(sent, Tail(batch), d)
  <1>1. /\ batch \in Seq(Index) /\ batch # <<>> /\ Tail(batch) \in Seq(Index)
        /\ Head(batch) \in Index /\ Db(Head(batch)) \in Dbs
    BY BatchTail, AlarmType DEF Inv, TypeOK, BatchFits
  <1>2. ASSUME NEW d \in Dbs
        PROVE  /\ RowsOf(sent, Tail(batch), d) \in Seq(Index)
               /\ Held(d) = IF d = Db(Head(batch))
                            THEN <<Head(batch)>> \o RowsOf(sent, Tail(batch), d)
                            ELSE RowsOf(sent, Tail(batch), d)
    <2>1. /\ \A b \in Seq(Index) : b # <<>> =>
                RowsOf(sent, b, d) =
                  IF IsRow(sent[Head(b)], d) THEN <<Head(b)>> \o RowsOf(sent, Tail(b), d)
                                             ELSE RowsOf(sent, Tail(b), d)
          /\ \A b \in Seq(Index) : RowsOf(sent, b, d) \in Seq(Index)
      BY RowsHead, RowsType
    <2>2. IsRow(sent[Head(batch)], d) <=> d = Db(Head(batch))
      BY DEF IsRow, Db
    <2> QED
      BY <1>1, <2>1, <2>2 DEF Held
  <1> QED
    BY <1>1, <1>2

\* The first of the rows held can be told from the others.
LEMMA SplitFirst ==
    ASSUME NEW S, NEW i \in S, NEW r \in Seq(S)
    PROVE  LET h == <<i>> \o r
           IN  /\ Len(h) \in Nat /\ 1 \in 1..Len(h)
               /\ SubSeq(h, 1, 1) = <<i>>
               /\ SubSeq(h, 2, Len(h)) = r
  <1> DEFINE h == <<i>> \o r
  <1>1. /\ h \in Seq(S) /\ Len(h) = Len(r) + 1 /\ Len(r) \in Nat
        /\ h[1] = i /\ \A k \in 1..Len(r) : h[k + 1] = r[k]
    <2>1. <<i>> \in Seq(S) /\ Len(<<i>>) = 1 /\ <<i>>[1] = i
      OBVIOUS
    <2>2. /\ h \in Seq(S) /\ Len(h) = 1 + Len(r)
          /\ \A k \in 1..(1 + Len(r)) : h[k] = IF k <= 1 THEN <<i>>[k] ELSE r[k - 1]
      BY <2>1, ConcatProperties
    <2> QED
      BY <2>1, <2>2, LenProperties
  <1> HIDE DEF h
  <1>2. SubSeq(h, 1, 1) = <<i>>
    <2>1. /\ SubSeq(h, 1, 1) \in Seq(S) /\ Len(SubSeq(h, 1, 1)) = 1
          /\ SubSeq(h, 1, 1)[1] = h[1]
      BY <1>1, SubSeqProperties
    <2>2. <<i>> \in Seq(S) /\ Len(<<i>>) = 1 /\ <<i>>[1] = i
      OBVIOUS
    <2>3. \A k \in 1..1 : SubSeq(h, 1, 1)[k] = <<i>>[k]
      BY <1>1, <2>1, <2>2
    <2> QED
      BY <2>1, <2>2, <2>3, SeqEqual
  <1>3. SubSeq(h, 2, Len(h)) = r
    <2>1. /\ SubSeq(h, 2, Len(h)) \in Seq(S) /\ Len(SubSeq(h, 2, Len(h))) = Len(r)
          /\ \A k \in 1..Len(r) : SubSeq(h, 2, Len(h))[k] = h[k + 1]
      BY <1>1, SubSeqProperties
    <2>2. \A k \in 1..Len(r) : SubSeq(h, 2, Len(h))[k] = r[k]
      BY <1>1, <2>1
    <2> QED
      BY <1>1, <2>1, <2>2, SeqEqual
  <1> QED
    BY <1>1, <1>2, <1>3 DEF h

\* A process that raised or was killed holds nothing.
LEMMA NothingIsHeld ==
    ASSUME batch' = <<>>
    PROVE  held' = Delivery!NothingHeld
  <1>1. ASSUME NEW d \in Dbs
        PROVE  Held(d)' = <<>>
    BY RowsEmpty DEF Held
  <1> QED
    BY <1>1 DEF held, Delivery!NothingHeld

\* A row whose INSERT succeeds is saved; one whose INSERT raises is lost, stored or
\* not, with what is held.
LEMMA InsertHeld ==
    ASSUME Inv, Insert
    PROVE  Delivery!Next
  <1> DEFINE i == Head(batch)
             d == Db(i)
             r == RowsOf(sent, Tail(batch), d)
  <1>1. /\ i \in Index /\ d \in Dbs
        /\ \A e \in Dbs : Held(e) = IF e = d THEN <<i>> \o RowsOf(sent, Tail(batch), e)
                                             ELSE RowsOf(sent, Tail(batch), e)
        /\ r \in Seq(Index)
    BY HandledHeld DEF Insert
  <1>2. /\ table \in [Dbs -> Seq(Index)] /\ UNCHANGED <<sent, next>>
        /\ \A s \in Seq(Index) : Append(s, i) = s \o <<i>>
    BY <1>1, AppendIsConcat DEF Inv, TypeOK, Insert
  <1>3. /\ held[d] = <<i>> \o r /\ Len(held[d]) \in Nat /\ 1 \in 1..Len(held[d])
        /\ SubSeq(held[d], 1, 1) = <<i>> /\ SubSeq(held[d], 2, Len(held[d])) = r
    <2>1. held[d] = <<i>> \o r
      BY <1>1 DEF held
    <2> HIDE DEF i, r, d
    <2> QED
      BY <1>1, <2>1, SplitFirst
  <1> DEFINE inserted == [table EXCEPT ![d] = Append(@, i)]
  <1>4. inserted = [table EXCEPT ![d] = @ \o SubSeq(held[d], 1, 1)]
    <2> HIDE DEF i, d
    <2> QED
      BY <1>1, <1>2, <1>3
  <1>5. CASE batch' = Tail(batch) /\ table' = inserted
    <2>1. \A e \in Dbs : Held(e)' = RowsOf(sent, Tail(batch), e)
      BY <1>2, <1>5 DEF Held
    <2>2. held' = [held EXCEPT ![d] = SubSeq(@, 2, Len(@))]
      <3>1. \A e \in Dbs : held'[e] = [held EXCEPT ![d] = r][e]
        BY <1>1, <2>1 DEF held
      <3>2. held' = [held EXCEPT ![d] = r]
        BY <3>1 DEF held
      <3> HIDE DEF d, r
      <3> QED
        BY <1>3, <3>2
    <2>3. Delivery!Save(d, 1)
      <3> HIDE DEF d, inserted
      <3> QED
        BY <1>2, <1>4, <1>5, <2>2 DEF Delivery!Save, held
    <2> HIDE DEF d
    <2> QED
      BY <1>1, <1>3, <2>3 DEF Delivery!Next, held
  <1>6. CASE batch' = <<>> /\ table' \in {table, inserted}
    <2>1. held' = Delivery!NothingHeld
      BY <1>6, NothingIsHeld
    <2>2. Delivery!Crash
      <3> HIDE DEF d, inserted
      <3>1. \/ UNCHANGED table
            \/ \E e \in Dbs : \E n \in 1..Len(held[e]) :
                 table' = [table EXCEPT ![e] = @ \o SubSeq(held[e], 1, n)]
        BY <1>1, <1>3, <1>4, <1>6
      <3> QED
        BY <1>2, <2>1, <3>1 DEF Delivery!Crash, held
    <2> QED
      BY <2>2 DEF Delivery!Next
  <1>7. \/ batch' = Tail(batch) /\ table' = inserted
        \/ batch' = <<>> /\ table' \in {table, inserted}
    BY DEF Insert, Raise, Die
  <1> QED
    BY <1>5, <1>6, <1>7

\* What is held is lost with the process, and with the batch.
LEMMA LoseHeld ==
    ASSUME batch' = <<>>, UNCHANGED <<sent, next, table>>
    PROVE  Delivery!Next
  BY NothingIsHeld DEF Delivery!Next, Delivery!Crash, held

\* A step that leaves list, batch and tables leaves what RowDelivery sees.
LEMMA SameHeld ==
    ASSUME UNCHANGED <<sent, next, batch, table>>
    PROVE  UNCHANGED <<sent, next, held, table>>
  BY DEF held, Held

\* Every step of the process is a step of RowDelivery or leaves it as it is.
LEMMA StepHeld == Inv /\ [Next]_vars => [Delivery!Next]_(Delivery!vars)
  <1> SUFFICES ASSUME Inv, [Next]_vars
               PROVE  Delivery!Next \/ UNCHANGED <<sent, next, held, table>>
    BY DEF Delivery!vars, held
  <1>1. ASSUME NEW a \in Alarms, Post(a)
        PROVE  Delivery!Next
    BY <1>1, PostHeld DEF Delivery!Next
  <1>2. CASE Fetch
    BY <1>2, FetchHeld DEF Delivery!Next
  <1>3. CASE Skip
    BY <1>3, SkipHeld
  <1>4. CASE Insert
    BY <1>4, InsertHeld
  <1>5. CASE List
    <2>1. \/ UNCHANGED <<sent, next, batch, table>>
          \/ batch' = <<>> /\ UNCHANGED <<sent, next, table>>
      BY <1>5 DEF List, Raise, Die
    <2> QED
      BY <2>1, LoseHeld, SameHeld
  <1>6. CASE Kill
    BY <1>6, LoseHeld DEF Kill, Die, mysql
  <1>7. CASE Restart
    BY <1>7, SameHeld DEF Restart, mysql
  <1>8. CASE UNCHANGED vars \/ \E d \in Dbs : Remake(d)
    BY <1>8, SameHeld DEF Remake, vars, memory, mysql
  <1>9. CASE FetchRaises
    BY <1>9, LoseHeld DEF FetchRaises, Raise, Die, mysql
  <1> QED
    BY <1>1, <1>2, <1>3, <1>4, <1>5, <1>6, <1>7, <1>8, <1>9 DEF Next, Process

\* Every direct consumer, in both modes, implements RowDelivery: an insert is
\* never tried again, so that no row is stored twice or before an older one of its
\* database (metrics_flow_consumer.py:48-128).
THEOREM Implements == Spec => DeliverySpec
  <1>1. Init => Delivery!Init
    <2> SUFFICES ASSUME Init PROVE Delivery!Init
      OBVIOUS
    <2>1. ASSUME NEW d \in Dbs
          PROVE  Held(d) = <<>>
      BY RowsEmpty DEF Init, Held
    <2> QED
      BY <2>1 DEF Init, Delivery!Init, Delivery!NothingHeld
  <1> QED
    BY <1>1, InitInv, StepInv, StepHeld, PTL DEF Spec, DeliverySpec, Delivery!Spec

\* So the table of every database has each row at most once and in the order in
\* which the alarms were posted, before those in memory (metrics_flow_consumer.py:48-128).
COROLLARY RowsInOrder == Spec => []Delivery!InOrder
  <1>1. Abstract!Init <=> Delivery!Init
    BY DEF Abstract!Init, Delivery!Init, Abstract!NothingHeld, Delivery!NothingHeld, held
  <1>2. [Delivery!Next]_(Delivery!vars) => [Abstract!Next]_(Abstract!vars)
    BY DEF Delivery!Next, Abstract!Next, Delivery!vars, Abstract!vars, held,
           Delivery!Post, Abstract!Post, Delivery!Take, Abstract!Take,
           Delivery!Handled, Abstract!Handled, Delivery!Save, Abstract!Save,
           Delivery!Crash, Abstract!Crash, Delivery!NothingHeld, Abstract!NothingHeld
  <1>3. Abstract!InOrder => Delivery!InOrder
    BY DEF Abstract!InOrder, Delivery!InOrder, held
  <1>4. Abstract!Spec => []Abstract!InOrder
    BY Abstract!StoredInOrder
  <1> QED
    BY <1>1, <1>2, <1>3, <1>4, Implements, PTL
    DEF DeliverySpec, Delivery!Spec, Abstract!Spec
-----------------------------------------------------------------------------
\* The consumers BoundedUnlisted is about.
Listing == Consumer.lists # "none" /\ ~(Consumer.remembers /\ CatchesErrors)

\* The row being listed, which no failure has to account for.
Pending == IF pc = "list" THEN {row} ELSE {}

\* The rows left unlisted, but for the one being handled.
Unpaid == Listing => Cardinality(Unlisted \ Pending) <= failures

\* A set that grows by one element at most.
LEMMA GrowsByOne ==
    ASSUME NEW A, IsFiniteSet(A), NEW B, NEW x, B \subseteq A \cup {x}
    PROVE  /\ IsFiniteSet(B) /\ Cardinality(A) \in Nat /\ Cardinality(B) \in Nat
           /\ Cardinality(B) <= Cardinality(A) + 1
           /\ B \subseteq A => Cardinality(B) <= Cardinality(A)
  <1>1. /\ IsFiniteSet(A \cup {x}) /\ Cardinality(A) \in Nat
        /\ Cardinality(A \cup {x}) \in {Cardinality(A), Cardinality(A) + 1}
    BY FS_AddElement, FS_CardinalityType
  <1>2. /\ IsFiniteSet(B) /\ Cardinality(B) <= Cardinality(A \cup {x})
        /\ Cardinality(B) \in Nat
    BY <1>1, FS_Subset, FS_CardinalityType
  <1>3. B \subseteq A => Cardinality(B) <= Cardinality(A)
    BY FS_Subset
  <1> QED
    BY <1>1, <1>2, <1>3

\* A row of a table is an alarm that was posted.
LEMMA StoredType ==
    ASSUME TypeOK
    PROVE  \A d \in Dbs : Rows(d) \subseteq Index
  <1> SUFFICES ASSUME NEW d \in Dbs, NEW k \in (dropped[d] + 1)..Len(table[d])
               PROVE  table[d][k] \in Index
    BY DEF Rows
  <1>1. table[d] \in Seq(Index) /\ Len(table[d]) \in Nat /\ dropped[d] \in Nat
    BY LenProperties DEF TypeOK
  <1>2. k \in 1..Len(table[d])
    BY <1>1
  <1> QED
    BY <1>1, <1>2, ElementOfSeq

\* What it is to be unlisted.
LEMMA UnlistedType ==
    ASSUME TypeOK
    PROVE  /\ IsFiniteSet(Unlisted)
           /\ \A i : i \in Unlisted <=> /\ i \in Index
                                      /\ \E d \in Dbs : i \in Rows(d)
                                      /\ Field(i) \notin listTable[Db(i)] \cup stale[Db(i)]
  <1>2. \A i : i \in Unlisted <=> /\ i \in Index
                                /\ \E d \in Dbs : i \in Rows(d)
                                /\ Field(i) \notin listTable[Db(i)] \cup stale[Db(i)]
    BY StoredType DEF Unlisted
  <1>3. IsFiniteSet(Index)
    BY AlarmType, FS_Interval DEF Index
  <1> QED
    BY <1>2, <1>3, FS_Subset

\* A step that leaves no more rows unlisted than there were.
LEMMA NoMore ==
    ASSUME Inv, UNCHANGED mode, Unpaid, failures' \in Nat, failures' >= failures,
           Unlisted' \ Pending' \subseteq Unlisted \ Pending
    PROVE  Listing' => Cardinality(Unlisted' \ Pending') <= failures'
  <1>1. Listing' <=> Listing
    BY DEF Listing, Consumer, CatchesErrors
  <1>2. IsFiniteSet(Unlisted \ Pending)
    BY UnlistedType, FS_Subset DEF Inv
  <1>3. /\ Cardinality(Unlisted \ Pending) \in Nat
        /\ Cardinality(Unlisted' \ Pending') \in Nat
        /\ Cardinality(Unlisted' \ Pending') <= Cardinality(Unlisted \ Pending)
    BY <1>2, GrowsByOne
  <1> QED
    BY <1>1, <1>3 DEF Unpaid, Inv, TypeOK

\* A failure leaves one more at most: the row that was inserted or listed.
LEMMA OneMore ==
    ASSUME Inv, UNCHANGED mode, Unpaid, failures' = failures + 1,
           \E i : Unlisted' \ Pending' \subseteq (Unlisted \ Pending) \cup {i}
    PROVE  Listing' => Cardinality(Unlisted' \ Pending') <= failures'
  <1>0. PICK i : Unlisted' \ Pending' \subseteq (Unlisted \ Pending) \cup {i}
    OBVIOUS
  <1>1. Listing' <=> Listing
    BY DEF Listing, Consumer, CatchesErrors
  <1>2. IsFiniteSet(Unlisted \ Pending)
    BY UnlistedType, FS_Subset DEF Inv
  <1>3. /\ Cardinality(Unlisted \ Pending) \in Nat
        /\ Cardinality(Unlisted' \ Pending') \in Nat
        /\ Cardinality(Unlisted' \ Pending') <= Cardinality(Unlisted \ Pending) + 1
    BY <1>0, <1>2, GrowsByOne
  <1> QED
    BY <1>1, <1>3 DEF Unpaid, Inv, TypeOK

\* After a step that posts nothing.
LEMMA UnlistedNext ==
    ASSUME UNCHANGED <<mode, sent>>
    PROVE  \A i : i \in Unlisted' <=>
              /\ \E d \in Dbs : i \in Rows(d)'
              /\ Field(i) \notin listTable'[Db(i)] \cup stale'[Db(i)]
  <1>1. \A i : Field(i)' = Field(i) /\ Db(i)' = Db(i)
    BY DEF Field, Db, Consumer
  <1>2. \A i : i \in Unlisted' <=>
              /\ \E d \in Dbs : i \in Rows(d)'
              /\ Field(i)' \notin listTable'[Db(i)'] \cup stale'[Db(i)']
    BY DEF Unlisted
  <1> QED
    BY <1>1, <1>2

\* Inserting a row adds it to the rows of its database, and to no others.
LEMMA InsertRows ==
    ASSUME TypeOK, NEW i \in Index, UNCHANGED made,
           table' = [table EXCEPT ![Db(i)] = Append(@, i)]
    PROVE  \A d \in Dbs : Rows(d)' \subseteq IF d = Db(i) THEN Rows(d) \cup {i} ELSE Rows(d)
  <1> SUFFICES ASSUME NEW d \in Dbs, NEW k \in (dropped[d] + 1)..Len(table'[d])
               PROVE  table'[d][k] \in IF d = Db(i) THEN Rows(d) \cup {i} ELSE Rows(d)
    BY DEF Rows, made
  <1>1. /\ table \in [Dbs -> Seq(Index)] /\ dropped[d] \in Nat
    BY DEF TypeOK
  <1>2. CASE d = Db(i)
    <2> DEFINE s == table[d]
    <2>1. s \in Seq(Index) /\ table'[d] = Append(s, i)
      BY <1>1, <1>2
    <2>2. k \in (dropped[d] + 1)..Len(s) => s[k] \in Rows(d)
      BY DEF Rows
    <2> HIDE DEF s
    <2>3. /\ Len(s) \in Nat /\ Len(Append(s, i)) = Len(s) + 1
          /\ Append(s, i)[Len(s) + 1] = i
          /\ \A j \in 1..Len(s) : Append(s, i)[j] = s[j]
      BY <2>1, AppendProperties, LenProperties
    <2> QED
      BY <1>1, <1>2, <2>1, <2>2, <2>3
  <1>3. CASE d # Db(i)
    <2>1. table'[d] = table[d]
      BY <1>1, <1>3
    <2> QED
      BY <1>3, <2>1 DEF Rows
  <1> QED
    BY <1>2, <1>3

\* So one row at most is unlisted that was not.
LEMMA InsertUnlisted ==
    ASSUME TypeOK, NEW i \in Index, UNCHANGED <<mode, sent, listTable, made>>,
           table' = [table EXCEPT ![Db(i)] = Append(@, i)]
    PROVE  Unlisted' \subseteq Unlisted \cup {i}
  <1> SUFFICES ASSUME NEW j \in Unlisted', j # i PROVE j \in Unlisted
    OBVIOUS
  <1>1. PICK d \in Dbs : j \in Rows(d)'
    BY UnlistedNext
  <1>2. j \in Rows(d)
    BY <1>1, InsertRows
  <1>3. j \in Index
    BY <1>2, StoredType
  <1>4. Field(j) \notin listTable[Db(j)] \cup stale[Db(j)]
    BY UnlistedNext DEF made
  <1> QED
    BY <1>2, <1>3, <1>4, UnlistedType

\* Listing leaves no more than there were, and not the rows whose field is listed.
LEMMA ListUnlisted ==
    ASSUME TypeOK, UNCHANGED <<mode, sent, table, made>>,
           \A d \in Dbs : listTable[d] \subseteq listTable'[d]
    PROVE  /\ Unlisted' \subseteq Unlisted
           /\ \A i \in Index : Field(i) \in listTable'[Db(i)] \cup stale[Db(i)] => i \notin Unlisted'
  <1>0. \A d : Rows(d)' = Rows(d) /\ stale' = stale
    BY DEF Rows, made
  <1>1. ASSUME NEW j \in Unlisted'
        PROVE  j \in Unlisted
    <2>1. \E d \in Dbs : j \in Rows(d)
      BY <1>0, <1>1, UnlistedNext
    <2>2. j \in Index
      BY <2>1, StoredType
    <2>3. Field(j) \notin listTable'[Db(j)] \cup stale[Db(j)] /\ Db(j) \in Dbs
      BY <1>0, <1>1, <2>2, UnlistedNext, AlarmType
    <2> QED
      BY <2>1, <2>2, <2>3, UnlistedType
  <1> QED
    BY <1>0, <1>1, UnlistedNext

\* Posting changes neither what an alarm is nor where it is stored.
LEMMA PostSame ==
    ASSUME TypeOK, NEW a \in Alarms, Post(a), UNCHANGED mode
    PROVE  /\ \A i \in Index : Field(i)' = Field(i) /\ Db(i)' = Db(i)
           /\ \A d : Rows(d)' = Rows(d)
           /\ UNCHANGED <<listTable, stale>>
  <1>1. /\ \A i \in Index : sent'[i] = sent[i]
        /\ UNCHANGED <<mode, table, listTable, dropped, stale>>
    BY LenProperties, AppendProperties DEF TypeOK, Post, Index, mysql, made
  <1> QED
    BY <1>1 DEF Field, Db, Consumer, Rows

\* Posting adds none.
LEMMA PostUnlisted ==
    ASSUME TypeOK, NEW a \in Alarms, Post(a), UNCHANGED mode
    PROVE  Unlisted' \subseteq Unlisted
  <1> SUFFICES ASSUME NEW j \in Unlisted' PROVE j \in Unlisted
    OBVIOUS
  <1>1. /\ \E d \in Dbs : j \in Rows(d)'
        /\ Field(j)' \notin listTable'[Db(j)'] \cup stale'[Db(j)']
    BY DEF Unlisted
  <1>2. j \in Index
    BY <1>1, PostSame, StoredType
  <1> QED
    BY <1>1, <1>2, PostSame, UnlistedType

\* A database made again has no rows, and the others have theirs.
LEMMA RemakeRows ==
    ASSUME TypeOK, NEW d \in Dbs, Remake(d)
    PROVE  \A e \in Dbs : Rows(e)' = IF e = d THEN {} ELSE Rows(e)
  <1>1. /\ UNCHANGED table /\ Len(table[d]) \in Nat
        /\ \A e \in Dbs : dropped'[e] = IF e = d THEN Len(table[d]) ELSE dropped[e]
    BY LenProperties DEF Remake, TypeOK
  <1> QED
    BY <1>1 DEF Rows

\* A row is in the table of its database.
Own == \A d \in Dbs : \A i \in Rows(d) : Db(i) = d

\* That is so when it was and no table gets a row of another database.
LEMMA StepOwn == Inv /\ Own /\ [Next]_vars => Own'
  <1> SUFFICES ASSUME Inv, Own, [Next]_vars PROVE Own'
    OBVIOUS
  <1>0. TypeOK /\ UNCHANGED mode
    BY DEF Inv, Next, vars
  <1>1. CASE UNCHANGED <<sent, table, dropped>>
    <2>1. \A d : Rows(d)' = Rows(d) /\ \A i : Db(i)' = Db(i)
      BY <1>1 DEF Rows, Db
    <2> QED
      BY <2>1 DEF Own
  <1>2. ASSUME NEW a \in Alarms, Post(a)
        PROVE  Own'
    BY <1>0, <1>2, PostSame, StoredType DEF Own
  <1>3. CASE (Fetch \/ FetchRaises \/ Skip \/ List) /\ UNCHANGED made
    BY <1>1, <1>3 DEF Fetch, FetchRaises, Skip, List, mysql, made
  <1>4. CASE Insert /\ UNCHANGED made
    <2> DEFINE i == Head(batch)
    <2>1. i \in Index /\ UNCHANGED sent /\ \A j : Db(j)' = Db(j)
      BY <1>4, HandledHeld DEF Insert, Db
    <2>2. CASE UNCHANGED table
      BY <1>1, <1>4, <2>1, <2>2 DEF made
    <2>3. CASE table' = [table EXCEPT ![Db(i)] = Append(@, i)]
      <3> HIDE DEF i
      <3>1. \A d \in Dbs : Rows(d)' \subseteq IF d = Db(i) THEN Rows(d) \cup {i} ELSE Rows(d)
        BY <1>0, <1>4, <2>1, <2>3, InsertRows
      <3> QED
        BY <2>1, <3>1 DEF Own
    <2> QED
      BY <1>4, <2>2, <2>3 DEF Insert
  <1>5. ASSUME NEW d \in Dbs, Remake(d)
        PROVE  Own'
    <2>1. \A e \in Dbs : Rows(e)' \subseteq Rows(e)
      BY <1>0, <1>5, RemakeRows
    <2>2. \A i : Db(i)' = Db(i)
      BY <1>5 DEF Remake, Db
    <2> QED
      BY <2>1, <2>2 DEF Own
  <1> QED
    BY <1>1, <1>2, <1>3, <1>4, <1>5 DEF Next, Process, Kill, Restart, vars, mysql, made

\* What is remembered stays listed, or was when the database was made again.
Remembered ==
    Listing /\ Consumer.remembers =>
        \A d \in Dbs : listed[d] \subseteq listTable[d] \cup stale[d]

\* A field is remembered only once it was listed, and stays so.
LEMMA StepRemembered == Inv /\ Remembered /\ [Next]_vars => Remembered'
  <1> SUFFICES ASSUME Inv, Remembered, [Next]_vars PROVE Remembered'
    OBVIOUS
  <1>m. UNCHANGED mode
    BY DEF Next, vars
  <1>c. (Listing <=> Listing') /\ Consumer' = Consumer
    BY <1>m DEF Listing, Consumer, CatchesErrors
  <1> SUFFICES ASSUME Listing, Consumer.remembers, NEW d \in Dbs
               PROVE  listed'[d] \subseteq listTable'[d] \cup stale'[d]
    BY <1>c DEF Remembered
  <1>0. /\ listed[d] \subseteq listTable[d] \cup stale[d] /\ Nothing[d] = {} /\ ~CatchesErrors
        /\ listed \in [Dbs -> SUBSET Fields] /\ listTable \in [Dbs -> SUBSET Fields]
    BY DEF Remembered, Listing, Nothing, Inv, TypeOK
  <1>1. CASE listed' = Nothing
    BY <1>0, <1>1
  <1>2. CASE UNCHANGED <<listed, listTable, stale>>
    BY <1>0, <1>2
  <1>3. CASE List /\ UNCHANGED made
    <2> DEFINE known == [listed EXCEPT ![Db(row)] = @ \cup {Field(row)}]
               inserted == [listTable EXCEPT ![Db(row)] = @ \cup {Field(row)}]
    <2>1. \/ UNCHANGED <<listed, listTable>>
          \/ listed' = Nothing
          \/ listed' = known /\ listTable' = inserted
      BY <1>0, <1>3 DEF List, Raise, Die
    <2>2. known[d] \subseteq inserted[d] \cup stale[d] /\ stale' = stale
      BY <1>0, <1>3 DEF made
    <2> HIDE DEF known, inserted
    <2> QED
      BY <1>1, <1>2, <2>1, <2>2
  <1>4. CASE \E a \in Alarms : Post(a)
    BY <1>2, <1>4 DEF Post, memory, mysql, made
  <1>5. CASE ((Fetch \/ Skip) /\ UNCHANGED made) \/ Restart \/ UNCHANGED vars
    BY <1>2, <1>5 DEF Fetch, Skip, Restart, vars, memory, mysql, made
  <1>6. CASE Insert /\ UNCHANGED made
    BY <1>0, <1>1, <1>2, <1>6 DEF Insert, Raise, Die, made
  <1>7. CASE Kill
    BY <1>1, <1>7 DEF Kill, Die
  <1>8. CASE FetchRaises /\ UNCHANGED made
    BY <1>0, <1>1, <1>2, <1>8 DEF FetchRaises, Raise, Die, mysql, made
  <1>9. ASSUME NEW e \in Dbs, Remake(e)
        PROVE  listed'[d] \subseteq listTable'[d] \cup stale'[d]
    <2>1. /\ UNCHANGED listed
          /\ listTable'[d] = IF d = e THEN {} ELSE listTable[d]
          /\ stale'[d] = IF d = e THEN listed[d] ELSE stale[d]
      BY <1>0, <1>9 DEF Remake, memory, Inv, TypeOK
    <2> QED
      BY <1>0, <2>1
  <1> QED
    BY <1>3, <1>4, <1>5, <1>6, <1>7, <1>8, <1>9 DEF Next, Process

\* Every step keeps the account of fields that are not listed.
LEMMA StepUnpaid == Inv /\ Inv' /\ Own /\ Unpaid /\ Remembered /\ [Next]_vars => Unpaid'
  <1> SUFFICES ASSUME Inv, Inv', Own, Unpaid, Remembered, [Next]_vars PROVE Unpaid'
    OBVIOUS
  <1>0. /\ TypeOK /\ UNCHANGED mode /\ failures \in Nat /\ failures' \in Nat
        /\ Listing' <=> Listing
    BY DEF Inv, TypeOK, Next, vars, Listing, Consumer, CatchesErrors
  <1>1. CASE failures' >= failures /\ Unlisted' \ Pending' \subseteq Unlisted \ Pending
    BY <1>0, <1>1, NoMore DEF Unpaid
  <1>2. CASE /\ failures' = failures + 1
             /\ \E i : Unlisted' \ Pending' \subseteq (Unlisted \ Pending) \cup {i}
    BY <1>0, <1>2, OneMore DEF Unpaid
  <1>3. ASSUME NEW a \in Alarms, Post(a)
        PROVE  Unpaid'
    <2>1. Unlisted' \subseteq Unlisted
      BY <1>0, <1>3, PostUnlisted
    <2>2. Pending' = Pending /\ failures' = failures
      BY <1>3 DEF Post, memory, Pending
    <2> QED
      BY <1>0, <1>1, <2>1, <2>2
  <1>4. ASSUME UNCHANGED <<sent, table, listTable, failures, made>>, pc # "list", pc' # "list"
        PROVE  Unpaid'
    <2>1. Unlisted' \subseteq Unlisted
      BY <1>0, <1>4, ListUnlisted
    <2>2. Pending' = {} /\ Pending = {}
      BY <1>4 DEF Pending
    <2> QED
      BY <1>0, <1>1, <1>4, <2>1, <2>2
  <1>5. CASE ((Fetch \/ Skip) /\ UNCHANGED made) \/ Restart
    BY <1>4, <1>5 DEF Fetch, Skip, Restart, Continue, mysql
  <1>6. CASE UNCHANGED vars
    <2>1. Unlisted' = Unlisted /\ Pending' = Pending
      BY <1>6 DEF vars, memory, mysql, made, Unlisted, Rows, Pending, Field, Db, Consumer
    <2> QED
      BY <1>0, <1>1, <1>6, <2>1 DEF vars
  <1>7. CASE Kill
    <2>1. Unlisted' \subseteq Unlisted
      BY <1>0, <1>7, ListUnlisted DEF Kill, mysql
    <2>2. Unlisted' \ Pending' \subseteq (Unlisted \ Pending) \cup {row}
      BY <2>1 DEF Pending
    <2> QED
      BY <1>2, <1>7, <2>2 DEF Kill
  <1>8. CASE Insert /\ UNCHANGED made
    <2> DEFINE i == Head(batch)
    <2>1. i \in Index /\ UNCHANGED <<sent, listTable, made>> /\ Pending = {}
      BY <1>8, HandledHeld DEF Insert, Pending
    <2>2. CASE table' = table
      <3>1. Unlisted' \subseteq Unlisted /\ pc' # "list" /\ failures' = failures + 1
        <4>1. table[Db(i)] # Append(table[Db(i)], i)
          <5>1. Db(i) \in Dbs /\ table[Db(i)] \in Seq(Index)
            BY <1>0, <2>1, AlarmType DEF TypeOK
          <5> QED
            BY <2>1, <5>1, AppendProperties, LenProperties
        <4>2. table' # [table EXCEPT ![Db(i)] = Append(@, i)]
          <5>1. Db(i) \in Dbs /\ table \in [Dbs -> Seq(Index)]
            BY <1>0, <2>1, AlarmType DEF TypeOK
          <5> HIDE DEF i
          <5> QED
            BY <2>2, <4>1, <5>1
        <4>3. Raise(listed)
          BY <1>8, <4>2 DEF Insert
        <4> QED
          BY <1>0, <2>1, <2>2, <4>3, ListUnlisted DEF Raise, Die
      <3> QED
        BY <1>2, <2>1, <3>1 DEF Pending
    <2>3. CASE table' = [table EXCEPT ![Db(i)] = Append(@, i)]
      <3>1. Unlisted' \subseteq Unlisted \cup {i}
        <4> HIDE DEF i
        <4> QED
          BY <1>0, <2>1, <2>3, InsertUnlisted
      <3>2. CASE failures' = failures + 1
        BY <1>2, <2>1, <3>1, <3>2 DEF Pending
      <3>3. CASE failures' # failures + 1
        <4>1. failures' = failures /\ (Consumer.lists # "none" => pc' = "list" /\ row' = i)
          BY <1>8, <3>3 DEF Insert, Raise
        <4>2. CASE Consumer.lists = "none"
          BY <1>0, <4>2 DEF Unpaid, Listing
        <4>3. CASE Consumer.lists # "none"
          <5>1. Pending' = {i}
            BY <4>1, <4>3 DEF Pending
          <5> QED
            BY <1>0, <1>1, <2>1, <3>1, <4>1, <5>1
        <4> QED
          BY <4>2, <4>3
      <3> QED
        BY <3>2, <3>3
    <2> QED
      BY <1>8, <2>2, <2>3 DEF Insert
  <1>9. CASE List /\ UNCHANGED made
    <2> DEFINE inserted == [listTable EXCEPT ![Db(row)] = @ \cup {Field(row)}]
    <2>1. /\ row \in Index /\ Db(row) \in Dbs /\ UNCHANGED <<sent, table, made>>
          /\ listTable \in [Dbs -> SUBSET Fields] /\ Pending = {row}
      BY <1>0, <1>9, AlarmType DEF List, TypeOK, Pending
    <2>2. listTable' \in {listTable, inserted}
      BY <1>9 DEF List
    <2>3. \A d \in Dbs : listTable[d] \subseteq listTable'[d]
      BY <2>1, <2>2
    <2>4. /\ Unlisted' \subseteq Unlisted
          /\ Field(row) \in listTable'[Db(row)] \cup stale[Db(row)] => row \notin Unlisted'
      BY <1>0, <2>1, <2>3, ListUnlisted
    <2>5. CASE failures' = failures + 1
      <3>1. Unlisted' \ Pending' \subseteq (Unlisted \ Pending) \cup {row}
        BY <2>4 DEF Pending
      <3> QED
        BY <1>2, <2>5, <3>1
    <2>6. CASE failures' # failures + 1
      <3>1. CASE ~Listing
        BY <1>0, <3>1 DEF Unpaid
      <3>2. CASE Listing
        <4>1. /\ failures' = failures
              /\ \/ listTable' = inserted
                 \/ /\ Consumer.remembers /\ Field(row) \in listed[Db(row)]
                    /\ listTable' = listTable
          BY <1>9, <2>6 DEF List, Raise
        <4>2. Field(row) \in listTable'[Db(row)] \cup stale[Db(row)]
          <5>1. CASE listTable' = inserted
            BY <2>1, <5>1
          <5>2. CASE listTable' # inserted
            BY <2>1, <3>2, <4>1, <5>2 DEF Remembered
          <5> QED
            BY <5>1, <5>2
        <4>3. Unlisted' \subseteq Unlisted \ Pending
          BY <2>1, <2>4, <4>2
        <4> QED
          BY <1>0, <1>1, <4>1, <4>3
      <3> QED
        BY <3>1, <3>2
    <2> QED
      BY <2>5, <2>6
  <1>10. CASE FetchRaises /\ UNCHANGED made
    <2>1. Unlisted' \subseteq Unlisted
      BY <1>0, <1>10, ListUnlisted DEF FetchRaises, mysql
    <2>2. Unlisted' \ Pending' \subseteq (Unlisted \ Pending) \cup {row}
      BY <2>1 DEF Pending
    <2> QED
      BY <1>2, <1>10, <2>2 DEF FetchRaises, Raise
  <1>11. ASSUME NEW d \in Dbs, Remake(d)
         PROVE  Unpaid'
    <2>1. /\ UNCHANGED <<mode, sent, pc, row, failures>>
          /\ \A e \in Dbs : e # d => listTable'[e] = listTable[e] /\ stale'[e] = stale[e]
      BY <1>0, <1>11 DEF Remake, memory, TypeOK
    <2>2. ASSUME NEW j \in Unlisted'
          PROVE  j \in Unlisted
      <3>1. PICK e \in Dbs : j \in Rows(e)'
        BY <2>1, <2>2, UnlistedNext
      <3>2. e # d /\ j \in Rows(e)
        BY <1>0, <1>11, <3>1, RemakeRows
      <3>3. Db(j) = e /\ j \in Index
        BY <1>0, <3>2, StoredType DEF Own
      <3>4. Field(j) \notin listTable[e] \cup stale[e]
        BY <2>1, <2>2, <3>2, <3>3, UnlistedNext
      <3> QED
        BY <1>0, <3>2, <3>3, <3>4, UnlistedType
    <2>3. Pending' = Pending
      BY <2>1 DEF Pending
    <2> QED
      BY <1>0, <1>1, <2>1, <2>2, <2>3
  <1> QED
    BY <1>3, <1>5, <1>6, <1>7, <1>8, <1>9, <1>10, <1>11 DEF Next, Process

\* However calls raise, the process is killed and databases are dropped and made
\* again, the rows that cannot be found by tag or ip are one for each failure, and
\* the one being handled, but for the tags remembered from before the database was
\* made again, where no exception is caught after the tag was remembered
\* (metrics_flow_consumer.py:119-126, metrics_alarm_consumer.py:119-127).
THEOREM UnlistedAreBounded == Spec => []BoundedUnlisted
  <1>1. Init => Unpaid /\ Remembered /\ Own
    <2> SUFFICES ASSUME Init PROVE Unpaid /\ Remembered /\ Own
      OBVIOUS
    <2>1. \A d \in Dbs : Rows(d) = {}
      <3>1. \A d \in Dbs : dropped[d] = 0 /\ Len(table[d]) = 0
        BY EmptySeq DEF Init
      <3> QED
        BY <3>1 DEF Rows
    <2>2. Unlisted = {}
      BY <2>1 DEF Unlisted
    <2> QED
      BY <2>1, <2>2, FS_EmptySet DEF Init, Unpaid, Remembered, Nothing, Own
  <1>2. Inv /\ Unpaid => BoundedUnlisted
    <2> SUFFICES ASSUME Inv, Unpaid, Listing
                 PROVE  Cardinality(Unlisted) <= failures + (IF pc = "list" THEN 1 ELSE 0)
      BY DEF BoundedUnlisted, Listing
    <2>1. IsFiniteSet(Unlisted \ Pending) /\ failures \in Nat
      BY UnlistedType, FS_Subset DEF Inv, TypeOK
    <2>2. Unlisted \subseteq (Unlisted \ Pending) \cup {row}
      BY DEF Pending
    <2>3. /\ Cardinality(Unlisted \ Pending) \in Nat /\ Cardinality(Unlisted) \in Nat
          /\ Cardinality(Unlisted) <= Cardinality(Unlisted \ Pending) + 1
          /\ pc # "list" => Cardinality(Unlisted) <= Cardinality(Unlisted \ Pending)
      BY <2>1, <2>2, GrowsByOne DEF Pending
    <2> QED
      BY <2>1, <2>3 DEF Unpaid
  <1> QED
    BY <1>1, <1>2, InitInv, StepInv, StepOwn, StepRemembered, StepUnpaid, PTL DEF Spec
=============================================================================
