------------------------- MODULE RowDeliveryProofs --------------------------
(***************************************************************************)
(* What RowDelivery promises, for every set of databases and alarms: what a *)
(* consumer stores, and then what it holds, is in the order of posting.     *)
(***************************************************************************)
EXTENDS RowDelivery, HeldRows, SequenceTheorems, WellFoundedInduction, TLAPS

\* The rows of a database, those stored and then those in memory, are posting
\* indices up to n in strictly increasing order.
Ordered(s, n) ==
    /\ s \in Seq(Nat)
    /\ \A i \in 1..Len(s) : s[i] \in 1..n
    /\ \A i, j \in 1..Len(s) : i < j => s[i] < s[j]

RowsOrdered ==
    /\ next \in Nat
    /\ table \in [Dbs -> Seq(Nat)]
    /\ held \in [Dbs -> Seq(Nat)]
    /\ \A d \in Dbs : Ordered(table[d] \o held[d], next)

\* Taking the next alarm keeps a sequence ordered.
LEMMA OrderedAppend ==
    ASSUME NEW s, NEW n \in Nat, Ordered(s, n)
    PROVE  Ordered(Append(s, n + 1), n + 1)
  <1> DEFINE t == Append(s, n + 1)
  <1>1. /\ t \in Seq(Nat)
        /\ Len(t) = Len(s) + 1 /\ Len(s) \in Nat
        /\ \A i \in 1..Len(s) : t[i] = s[i]
        /\ t[Len(s) + 1] = n + 1
    BY AppendProperties, LenProperties DEF Ordered
  <1> HIDE DEF t
  <1>2. /\ \A i \in 1..Len(s) : s[i] \in Nat /\ 1 <= s[i] /\ s[i] <= n
        /\ \A i, j \in 1..Len(s) : i < j => s[i] < s[j]
    BY DEF Ordered
  <1>3. ASSUME NEW i \in 1..Len(t)
        PROVE  t[i] \in 1..(n + 1) /\ (i \in 1..Len(s) \/ i = Len(s) + 1)
    <2>1. i \in 1..Len(s) \/ i = Len(s) + 1
      BY <1>1
    <2>2. CASE i \in 1..Len(s)
      <3>1. t[i] = s[i] /\ s[i] \in Nat /\ 1 <= s[i] /\ s[i] <= n
        BY <1>1, <1>2, <2>2
      <3> QED
        BY <2>1, <3>1
    <2>3. CASE i = Len(s) + 1
      BY <1>1, <2>3
    <2> QED
      BY <2>1, <2>2, <2>3
  <1>4. ASSUME NEW i \in 1..Len(t), NEW j \in 1..Len(t), i < j
        PROVE  t[i] < t[j]
    <2>1. i \in 1..Len(s)
      BY <1>1, <1>4
    <2>2. CASE j \in 1..Len(s)
      BY <1>1, <1>2, <1>4, <2>1, <2>2
    <2>3. CASE j = Len(s) + 1
      BY <1>1, <1>2, <2>1, <2>3
    <2> QED
      BY <1>3, <2>2, <2>3
  <1> QED
    BY <1>1, <1>3, <1>4 DEF Ordered, t

\* Skipping an alarm does.
LEMMA OrderedSkip ==
    ASSUME NEW s, NEW n \in Nat, Ordered(s, n)
    PROVE  Ordered(s, n + 1)
  BY DEF Ordered

\* What is left of an ordered sequence whose end is cut off is ordered.
LEMMA OrderedPrefix ==
    ASSUME NEW s, NEW n \in Nat, Ordered(s, n),
           NEW t \in Seq(Nat), Len(t) <= Len(s),
           \A i \in 1..Len(t) : t[i] = s[i]
    PROVE  Ordered(t, n)
  <1>1. Len(s) \in Nat /\ Len(t) \in Nat
    BY LenProperties DEF Ordered
  <1>2. \A i \in 1..Len(t) : i \in 1..Len(s)
    BY <1>1
  <1> QED
    BY <1>1, <1>2 DEF Ordered

\* Splitting what is held: the first n rows and the others.
LEMMA Split ==
    ASSUME NEW s \in Seq(Nat), NEW n \in 1..Len(s)
    PROVE  /\ SubSeq(s, 1, n) \in Seq(Nat) /\ Len(SubSeq(s, 1, n)) = n
           /\ \A i \in 1..n : SubSeq(s, 1, n)[i] = s[i]
           /\ SubSeq(s, n + 1, Len(s)) \in Seq(Nat)
           /\ SubSeq(s, 1, n) \o SubSeq(s, n + 1, Len(s)) = s
  <1>1. Len(s) \in Nat /\ n \in Nat /\ n >= 1 /\ n <= Len(s)
    BY LenProperties
  <1>2. \A i \in 1..Len(s) : s[i] \in Nat
    BY ElementOfSeq
  <1>3. /\ SubSeq(s, 1, n) \in Seq(Nat) /\ Len(SubSeq(s, 1, n)) = n
        /\ \A i \in 1..n : SubSeq(s, 1, n)[i] = s[i]
    <2>1. \A i \in 1..n : s[i] \in Nat
      BY <1>1, <1>2
    <2> QED
      BY <1>1, <2>1, SubSeqProperties
  <1>4. SubSeq(s, n + 1, Len(s)) \in Seq(Nat)
    <2>1. \A i \in (n + 1)..Len(s) : s[i] \in Nat
      BY <1>1, <1>2
    <2>2. n + 1 \in Int /\ Len(s) \in Int
      BY <1>1
    <2> QED
      BY <2>1, <2>2, SubSeqProperties
  <1>5. SubSeq(s, 1, n) \o SubSeq(s, n + 1, Len(s)) = s
    <2>1. /\ 1 \in 1..(Len(s) + 1) /\ n \in (1 - 1)..Len(s)
          /\ Len(s) \in n..Len(s)
      BY <1>1
    <2>2. SubSeq(s, 1, n) \o SubSeq(s, n + 1, Len(s)) = SubSeq(s, 1, Len(s))
      BY <2>1, ConcatAdjacentSubSeq
    <2> QED
      BY <2>2, SubSeqFull
  <1> QED
    BY <1>3, <1>4, <1>5

\* Concatenation of sequences of rows is associative.
LEMMA RowsAssociative == \A s, t, u \in Seq(Nat) : (s \o t) \o u = s \o (t \o u)
  BY ConcatAssociative, SMTT(20)

\* Holding nothing leaves what is stored.
LEMMA RowsThenNone == \A s \in Seq(Nat) : s \o <<>> = s
  BY ConcatEmptySeq

\* Storing the first rows held does not change what is stored and then held.
LEMMA SaveConcat ==
    ASSUME NEW s \in Seq(Nat), NEW t \in Seq(Nat), NEW n \in 1..Len(t)
    PROVE  (s \o SubSeq(t, 1, n)) \o SubSeq(t, n + 1, Len(t)) = s \o t
  <1>1. /\ SubSeq(t, 1, n) \in Seq(Nat) /\ SubSeq(t, n + 1, Len(t)) \in Seq(Nat)
        /\ SubSeq(t, 1, n) \o SubSeq(t, n + 1, Len(t)) = t
    BY Split
  <1>2. (s \o SubSeq(t, 1, n)) \o SubSeq(t, n + 1, Len(t))
           = s \o (SubSeq(t, 1, n) \o SubSeq(t, n + 1, Len(t)))
    BY <1>1, RowsAssociative, Zenon
  <1> QED
    BY <1>1, <1>2, Zenon

\* What is stored, followed by the first of the rows held, is ordered.
LEMMA OrderedConcat ==
    ASSUME NEW s \in Seq(Nat), NEW t \in Seq(Nat), NEW n \in Nat, Ordered(s \o t, n),
           NEW u \in Seq(Nat), Len(u) <= Len(t), \A i \in 1..Len(u) : u[i] = t[i]
    PROVE  s \o u \in Seq(Nat) /\ Ordered(s \o u, n)
  <1> DEFINE all == s \o t
             some == s \o u
  <1>1. Len(s) \in Nat /\ Len(t) \in Nat /\ Len(u) \in Nat
    BY LenProperties
  <1>2. /\ all \in Seq(Nat) /\ Len(all) = Len(s) + Len(t)
        /\ \A i \in 1..(Len(s) + Len(t)) :
              all[i] = IF i <= Len(s) THEN s[i] ELSE t[i - Len(s)]
    BY ConcatProperties
  <1>3. /\ some \in Seq(Nat) /\ Len(some) = Len(s) + Len(u)
        /\ \A i \in 1..(Len(s) + Len(u)) :
              some[i] = IF i <= Len(s) THEN s[i] ELSE u[i - Len(s)]
    BY ConcatProperties
  <1>4. Ordered(all, n)
    OBVIOUS
  <1> HIDE DEF all, some
  <1>5. Len(some) <= Len(all)
    BY <1>1, <1>2, <1>3
  <1>6. ASSUME NEW i \in 1..Len(some) PROVE some[i] = all[i]
    <2>1. i \in 1..(Len(s) + Len(u)) /\ i \in 1..(Len(s) + Len(t))
      BY <1>1, <1>3
    <2>2. CASE i <= Len(s)
      BY <1>2, <1>3, <2>1, <2>2
    <2>3. CASE ~(i <= Len(s))
      <3>1. i - Len(s) \in 1..Len(u)
        BY <1>1, <2>1, <2>3
      <3>2. some[i] = u[i - Len(s)] /\ all[i] = t[i - Len(s)]
        BY <1>2, <1>3, <2>1, <2>3
      <3> QED
        BY <3>1, <3>2
    <2> QED
      BY <2>2, <2>3
  <1>7. Ordered(some, n)
    BY <1>3, <1>4, <1>5, <1>6, OrderedPrefix
  <1> QED
    BY <1>3, <1>7 DEF some

\* The invariant is kept by every step: one case for each action.
LEMMA RowsOrderedStep == RowsOrdered /\ [Next]_vars => RowsOrdered'
  <1> SUFFICES ASSUME RowsOrdered, [Next]_vars PROVE RowsOrdered'
    OBVIOUS
  <1>0. /\ next \in Nat
        /\ table \in [Dbs -> Seq(Nat)] /\ held \in [Dbs -> Seq(Nat)]
        /\ \A d \in Dbs : /\ table[d] \in Seq(Nat) /\ held[d] \in Seq(Nat)
                          /\ Ordered(table[d] \o held[d], next)
    BY DEF RowsOrdered
  <1>1. ASSUME NEW a \in Alarms, Post(a) PROVE RowsOrdered'
    BY <1>1 DEF Post, RowsOrdered
  <1>2. CASE Take
    <2> DEFINE a == sent[next + 1]
    <2>1. next' = next + 1 /\ table' = table /\ next' \in Nat
      BY <1>0, <1>2 DEF Take
    <2>2. held' = IF Handled(a) THEN [held EXCEPT ![a.db] = Append(@, next + 1)] ELSE held
      BY <1>2 DEF Take
    <2>3. ASSUME NEW d \in Dbs
          PROVE  held'[d] = held[d] \/ held'[d] = Append(held[d], next + 1)
      BY <1>0, <2>2
    <2>4. held' \in [Dbs -> Seq(Nat)]
      <3>1. \A d \in Dbs : Append(held[d], next + 1) \in Seq(Nat)
        BY <1>0, AppendProperties
      <3>2. DOMAIN held' = Dbs /\ held' = [d \in Dbs |-> held'[d]]
        BY <1>0, <2>2
      <3> QED
        BY <1>0, <2>3, <3>1, <3>2
    <2>5. ASSUME NEW d \in Dbs PROVE Ordered(table'[d] \o held'[d], next')
      <3>1. CASE held'[d] = held[d]
        BY <1>0, <2>1, <3>1, OrderedSkip
      <3>2. CASE held'[d] = Append(held[d], next + 1)
        <4> DEFINE x == next + 1
        <4>1. x \in Nat /\ <<x>> \in Seq(Nat)
          BY <1>0
        <4>2. table[d] \o held[d] \in Seq(Nat)
          BY <1>0, ConcatProperties
        <4>3. /\ Append(held[d], x) = held[d] \o <<x>>
              /\ Append(table[d] \o held[d], x) = (table[d] \o held[d]) \o <<x>>
          BY <1>0, <4>1, <4>2, AppendIsConcat
        <4>4. table[d] \o (held[d] \o <<x>>) = (table[d] \o held[d]) \o <<x>>
          BY <1>0, <4>1, RowsAssociative, Zenon
        <4>5. Ordered(Append(table[d] \o held[d], x), x)
          BY <1>0, OrderedAppend
        <4> QED
          BY <2>1, <3>2, <4>3, <4>4, <4>5
      <3> QED
        BY <2>3, <3>1, <3>2
    <2> QED
      BY <2>1, <2>4, <2>5, <1>0 DEF RowsOrdered
  <1>3. ASSUME NEW d \in Dbs, NEW n \in 1..Len(held[d]), Save(d, n) PROVE RowsOrdered'
    <2> DEFINE head == SubSeq(held[d], 1, n)
               tail == SubSeq(held[d], n + 1, Len(held[d]))
    <2>1. /\ head \in Seq(Nat) /\ tail \in Seq(Nat) /\ head \o tail = held[d]
      BY <1>0, Split
    <2>2. /\ table' = [table EXCEPT ![d] = table[d] \o head]
          /\ held' = [held EXCEPT ![d] = tail]
          /\ next' = next
      BY <1>3 DEF Save
    <2> HIDE DEF head, tail
    <2>3. table[d] \o head \in Seq(Nat)
      BY <1>0, <2>1, ConcatProperties
    <2>4. table' \in [Dbs -> Seq(Nat)] /\ held' \in [Dbs -> Seq(Nat)]
      BY <1>0, <2>1, <2>2, <2>3
    <2>5. (table[d] \o head) \o tail = table[d] \o held[d]
      BY <1>0, SaveConcat DEF head, tail
    <2>6. ASSUME NEW e \in Dbs PROVE table'[e] \o held'[e] = table[e] \o held[e]
      <3>1. CASE e = d
        BY <1>0, <2>2, <2>5, <3>1
      <3>2. CASE e # d
        BY <1>0, <2>2, <3>2
      <3> QED
        BY <3>1, <3>2
    <2> QED
      BY <1>0, <2>2, <2>4, <2>6 DEF RowsOrdered
  <1>4. CASE Crash
    <2>1. /\ next' = next /\ held' = NothingHeld
          /\ \/ table' = table
             \/ \E d \in Dbs : \E n \in 1..Len(held[d]) :
                   table' = [table EXCEPT ![d] = table[d] \o SubSeq(held[d], 1, n)]
      BY <1>4 DEF Crash
    <2>2. held' \in [Dbs -> Seq(Nat)] /\ \A e \in Dbs : held'[e] = <<>>
      BY <2>1, EmptySeq DEF NothingHeld
    <2>3. ASSUME NEW e \in Dbs,
                 table'[e] = table[e] \/ \E n \in 1..Len(held[e]) :
                     table'[e] = table[e] \o SubSeq(held[e], 1, n)
          PROVE  table'[e] \in Seq(Nat) /\ Ordered(table'[e], next)
      <3>1. table[e] \in Seq(Nat) /\ held[e] \in Seq(Nat)
            /\ Ordered(table[e] \o held[e], next)
        BY <1>0
      <3>2. CASE table'[e] = table[e]
        <4>1. /\ <<>> \in Seq(Nat) /\ Len(<<>>) <= Len(held[e])
              /\ \A i \in 1..Len(<<>>) : <<>>[i] = held[e][i]
          BY <3>1, LenProperties, EmptySeq
        <4>2. table[e] \o <<>> = table[e]
          BY <3>1, RowsThenNone
        <4>3. Ordered(table[e] \o <<>>, next)
          BY <1>0, <3>1, <4>1, OrderedConcat
        <4> QED
          BY <3>1, <3>2, <4>2, <4>3
      <3>3. ASSUME NEW n \in 1..Len(held[e]),
                   table'[e] = table[e] \o SubSeq(held[e], 1, n)
            PROVE  table'[e] \in Seq(Nat) /\ Ordered(table'[e], next)
        <4> DEFINE head == SubSeq(held[e], 1, n)
        <4>1. /\ head \in Seq(Nat) /\ Len(head) = n
              /\ \A i \in 1..n : head[i] = held[e][i]
          BY <3>1, Split
        <4>2. table'[e] = table[e] \o head
          BY <3>3
        <4> HIDE DEF head
        <4>3. Len(head) <= Len(held[e])
          BY <3>1, <4>1, LenProperties
        <4> QED
          BY <1>0, <3>1, <4>1, <4>2, <4>3, OrderedConcat
      <3> QED
        BY <2>3, <3>2, <3>3
    <2>4. ASSUME NEW e \in Dbs
          PROVE  table'[e] = table[e] \/ \E n \in 1..Len(held[e]) :
                     table'[e] = table[e] \o SubSeq(held[e], 1, n)
      <3>1. CASE table' = table
        BY <3>1
      <3>2. ASSUME NEW d \in Dbs, NEW n \in 1..Len(held[d]),
                   table' = [table EXCEPT ![d] = table[d] \o SubSeq(held[d], 1, n)]
            PROVE  table'[e] = table[e] \/ \E m \in 1..Len(held[e]) :
                       table'[e] = table[e] \o SubSeq(held[e], 1, m)
        <4>1. CASE e = d
          <5>1. table'[e] = table[e] \o SubSeq(held[e], 1, n)
            BY <1>0, <3>2, <4>1
          <5> QED
            BY <4>1, <5>1
        <4>2. CASE e # d
          BY <1>0, <3>2, <4>2
        <4> QED
          BY <4>1, <4>2
      <3> QED
        BY <2>1, <3>1, <3>2
    <2>5. table' \in [Dbs -> Seq(Nat)]
      <3>1. DOMAIN table' = Dbs /\ table' = [e \in Dbs |-> table'[e]]
        BY <1>0, <2>1
      <3>2. \A e \in Dbs : table'[e] \in Seq(Nat)
        BY <2>3, <2>4
      <3> QED
        BY <3>1, <3>2
    <2>6. ASSUME NEW e \in Dbs PROVE Ordered(table'[e] \o held'[e], next')
      <3>1. table'[e] \o held'[e] = table'[e]
        BY <2>2, <2>5, RowsThenNone, Zenon
      <3> QED
        BY <2>1, <2>3, <2>4, <3>1
    <2> QED
      BY <1>0, <2>1, <2>2, <2>5, <2>6 DEF RowsOrdered
  <1>5. CASE UNCHANGED vars
    BY <1>5 DEF vars, RowsOrdered
  <1> QED
    BY <1>1, <1>2, <1>3, <1>4, <1>5 DEF Next

\* Whatever crashes, per database no row is stored twice and none overtakes
\* another: what is stored, and then what is held, is in the order of posting
\* (my_queue.py:184-199, metrics_counter_consumer.py:138-140).
THEOREM StoredInOrder == Spec => []InOrder
  <1>1. Init => RowsOrdered
    <2> SUFFICES ASSUME Init PROVE RowsOrdered
      OBVIOUS
    <2>1. /\ next \in Nat
          /\ table \in [Dbs -> Seq(Nat)] /\ held \in [Dbs -> Seq(Nat)]
          /\ \A d \in Dbs : table[d] = <<>> /\ held[d] = <<>>
      BY EmptySeq DEF Init, NothingHeld
    <2>2. \A d \in Dbs : table[d] \o held[d] = <<>>
      BY <2>1, ConcatEmptySeq
    <2>3. Ordered(<<>>, next)
      BY EmptySeq DEF Ordered
    <2> QED
      BY <2>1, <2>2, <2>3 DEF RowsOrdered
  <1>2. RowsOrdered => InOrder
    <2> SUFFICES ASSUME RowsOrdered, NEW d \in Dbs
                 PROVE  LET rows == table[d] \o held[d]
                        IN  /\ \A i \in DOMAIN rows : rows[i] \in 1..next
                            /\ \A i, j \in DOMAIN rows : i < j => rows[i] < rows[j]
      BY DEF InOrder
    <2> DEFINE rows == table[d] \o held[d]
    <2>1. Ordered(rows, next)
      BY DEF RowsOrdered
    <2>2. DOMAIN rows = 1..Len(rows)
      BY <2>1, LenProperties DEF Ordered
    <2> QED
      BY <2>1, <2>2 DEF Ordered
  <1> QED
    BY <1>1, <1>2, RowsOrderedStep, PTL DEF Spec
-----------------------------------------------------------------------------
(***************************************************************************)
(* The rows a batch makes, for the consumers that implement RowDelivery.   *)
(***************************************************************************)
\* The recursive function that RowsOf evaluates.
RowsStep(alarms, b, d, rows, n) ==
    IF n = 0 THEN <<>>
    ELSE IF IsRow(alarms[b[n]], d) THEN Append(rows[n - 1], b[n]) ELSE rows[n - 1]
IsRows(alarms, b, d, m, rows) == rows = [n \in 0..m |-> RowsStep(alarms, b, d, rows, n)]

\* A non-empty set of natural numbers has a least element.
LEMMA LeastElement ==
    ASSUME NEW X, X \subseteq Nat, X # {}
    PROVE  \E x \in X : \A y \in X : x <= y
  <1>1. \E x \in X : \A y \in X : ~(<<y, x>> \in OpToRel(<, Nat))
    BY NatLessThanWellFounded, WFMin
  <1>2. PICK x \in X : \A y \in X : ~(<<y, x>> \in OpToRel(<, Nat))
    BY <1>1
  <1>3. ASSUME NEW y \in X PROVE x <= y
    <2>1. ~(y < x)
      BY <1>2 DEF OpToRel
    <2> QED
      BY <2>1
  <1> QED
    BY <1>3

\* Up to any place of b, that function is.
LEMMA RowsExist ==
    ASSUME NEW alarms, NEW b, NEW d, NEW m \in Nat
    PROVE  \E rows : IsRows(alarms, b, d, m, rows)
  <1> DEFINE Bad == {k \in Nat : ~\E rows : IsRows(alarms, b, d, k, rows)}
  <1> SUFFICES ASSUME m \in Bad PROVE FALSE
    OBVIOUS
  <1>1. PICK k \in Bad : \A j \in Bad : k <= j
    BY LeastElement
  <1>2. CASE k = 0
    <2>1. IsRows(alarms, b, d, 0, [n \in 0..0 |-> <<>>])
      BY DEF IsRows, RowsStep
    <2> QED
      BY <1>2, <2>1
  <1>3. CASE k # 0
    <2>1. k \in Nat /\ k - 1 \in Nat /\ ~(k <= k - 1)
      BY <1>3
    <2>2. PICK rows : IsRows(alarms, b, d, k - 1, rows)
      BY <1>1, <2>1
    <2> DEFINE more == [n \in 0..k |-> IF n = k THEN RowsStep(alarms, b, d, rows, k) ELSE rows[n]]
    <2>3. IsRows(alarms, b, d, k, more)
      <3>1. ASSUME NEW n \in 0..k PROVE more[n] = RowsStep(alarms, b, d, more, n)
        <4>1. CASE n = 0
          BY <4>1, <1>3, <2>1, <2>2 DEF IsRows, RowsStep
        <4>2. CASE n # 0
          <5>1. n - 1 \in 0..(k - 1) /\ n - 1 # k /\ n - 1 \in 0..k
            BY <4>2, <2>1
          <5>2. more[n - 1] = rows[n - 1]
            BY <5>1
          <5>3. RowsStep(alarms, b, d, more, n) = RowsStep(alarms, b, d, rows, n)
            BY <5>2, <4>2 DEF RowsStep
          <5>4. n # k => rows[n] = RowsStep(alarms, b, d, rows, n)
            BY <2>1, <2>2, <4>2 DEF IsRows
          <5> QED
            BY <5>3, <5>4
        <4> QED
          BY <4>1, <4>2
      <3>2. more = [n \in 0..k |-> more[n]]
        OBVIOUS
      <3> HIDE DEF more
      <3> QED
        BY <3>1, <3>2 DEF IsRows
    <2> QED
      BY <2>3
  <1> QED
    BY <1>2, <1>3

\* Up to m, b and c have the same elements, rows of d in both.
SameRows(alarms, b, others, c, d, m) ==
    \A i \in 1..m : b[i] = c[i] /\ (IsRow(alarms[b[i]], d) <=> IsRow(others[c[i]], d))

\* It depends on the rows it looks at only: two of them agree where the sequences do.
LEMMA RowsUnique ==
    ASSUME NEW alarms, NEW b, NEW m \in Nat, NEW rows, NEW d,
           NEW others, NEW c, NEW k \in Nat, NEW more, m <= k,
           IsRows(alarms, b, d, m, rows), IsRows(others, c, d, k, more),
           SameRows(alarms, b, others, c, d, m)
    PROVE  rows[m] = more[m]
  <1> DEFINE Bad == {n \in 0..m : rows[n] # more[n]}
  <1> SUFFICES ASSUME Bad # {} PROVE FALSE
    OBVIOUS
  <1>1. PICK n \in Bad : \A j \in Bad : n <= j
    <2>1. Bad \subseteq Nat
      OBVIOUS
    <2> QED
      BY <2>1, LeastElement
  <1>2. n \in 0..m /\ n \in 0..k /\ rows[n] # more[n]
    OBVIOUS
  <1>3. rows[n] = RowsStep(alarms, b, d, rows, n) /\ more[n] = RowsStep(others, c, d, more, n)
    BY <1>2 DEF IsRows
  <1>4. n # 0
    BY <1>2, <1>3 DEF RowsStep
  <1>5. n \in 1..m /\ n - 1 \in 0..m /\ ~(n <= n - 1)
    BY <1>2, <1>4
  <1>6. rows[n - 1] = more[n - 1]
    BY <1>1, <1>5
  <1>7. b[n] = c[n] /\ (IsRow(alarms[b[n]], d) <=> IsRow(others[c[n]], d))
    BY <1>5 DEF SameRows
  <1>8. RowsStep(alarms, b, d, rows, n) = RowsStep(others, c, d, more, n)
    BY <1>4, <1>6, <1>7 DEF RowsStep
  <1> QED
    BY <1>2, <1>3, <1>8

\* RowsOf is the last value of that function.
LEMMA RowsOfDef ==
    ASSUME NEW alarms, NEW b, Len(b) \in Nat, NEW d
    PROVE  \E rows : IsRows(alarms, b, d, Len(b), rows) /\ RowsOf(alarms, b, d) = rows[Len(b)]
  <1> DEFINE all == CHOOSE rows : IsRows(alarms, b, d, Len(b), rows)
  <1>1. IsRows(alarms, b, d, Len(b), all)
    BY RowsExist
  <1>2. RowsOf(alarms, b, d) = all[Len(b)]
    BY DEF RowsOf, IsRows, RowsStep
  <1> QED
    BY <1>1, <1>2

\* Appending to the second of two sequences appends to their concatenation.
LEMMA ConcatAppend ==
    ASSUME NEW S, NEW s \in Seq(S), NEW t \in Seq(S), NEW x \in S
    PROVE  s \o Append(t, x) = Append(s \o t, x)
  <1> DEFINE u == s \o Append(t, x)
             v == Append(s \o t, x)
  <1>1. /\ Append(t, x) \in Seq(S) /\ Len(Append(t, x)) = Len(t) + 1
        /\ \A i \in 1..Len(t) : Append(t, x)[i] = t[i]
        /\ Append(t, x)[Len(t) + 1] = x
    BY AppendProperties
  <1>2. /\ s \o t \in Seq(S) /\ Len(s \o t) = Len(s) + Len(t)
        /\ \A i \in 1..Len(s) + Len(t) :
             (s \o t)[i] = IF i <= Len(s) THEN s[i] ELSE t[i - Len(s)]
    BY ConcatProperties
  <1>3. /\ u \in Seq(S) /\ Len(u) = Len(s) + Len(Append(t, x))
        /\ \A i \in 1..Len(s) + Len(Append(t, x)) :
             u[i] = IF i <= Len(s) THEN s[i] ELSE Append(t, x)[i - Len(s)]
    BY <1>1, ConcatProperties
  <1>4. /\ v \in Seq(S) /\ Len(v) = Len(s \o t) + 1
        /\ \A i \in 1..Len(s \o t) : v[i] = (s \o t)[i]
        /\ v[Len(s \o t) + 1] = x
    BY <1>2, AppendProperties
  <1>5. Len(s) \in Nat /\ Len(t) \in Nat
    BY LenProperties
  <1> HIDE DEF u, v
  <1>6. Len(u) = Len(v)
    BY <1>1, <1>2, <1>3, <1>4, <1>5
  <1>7. ASSUME NEW i \in 1..Len(u)
        PROVE  u[i] = v[i]
    <2>0. i \in 1..Len(s) + Len(Append(t, x)) /\ i \in Nat
      BY <1>1, <1>3, <1>5
    <2>1. CASE i <= Len(s)
      <3>1. i \in 1..Len(s) + Len(t) /\ i \in 1..Len(s \o t)
        BY <1>2, <1>5, <2>0, <2>1
      <3>2. u[i] = s[i]
        BY <1>3, <2>0, <2>1
      <3> QED
        BY <1>2, <1>4, <2>1, <3>1, <3>2
    <2>2. CASE i > Len(s) /\ i # Len(u)
      <3>0. Len(u) = Len(s) + Len(t) + 1 /\ i <= Len(u)
        BY <1>1, <1>3, <1>5, <2>0
      <3>1. i - Len(s) \in 1..Len(t) /\ i \in 1..Len(s) + Len(t)
        BY <1>5, <2>0, <2>2, <3>0
      <3>2. u[i] = t[i - Len(s)]
        BY <1>1, <1>3, <1>5, <2>2, <3>1
      <3>3. v[i] = t[i - Len(s)]
        BY <1>2, <1>4, <1>5, <2>2, <3>1
      <3> QED
        BY <3>2, <3>3
    <2>3. CASE i = Len(u)
      <3>1. i - Len(s) = Len(t) + 1 /\ i = Len(s \o t) + 1 /\ i > Len(s)
        BY <1>1, <1>2, <1>3, <1>5, <2>3
      <3>2. u[i] = Append(t, x)[Len(t) + 1]
        BY <1>1, <1>3, <1>5, <3>1
      <3> QED
        BY <1>1, <1>4, <3>1, <3>2
    <2> QED
      BY <1>3, <1>5, <2>1, <2>2, <2>3
  <1>8. u = v
    BY <1>3, <1>4, <1>6, <1>7, SeqEqual
  <1> QED
    BY <1>8 DEF u, v

\* An empty batch makes no rows.
LEMMA RowsOfEmpty == \A alarms, d : RowsOf(alarms, <<>>, d) = <<>>
  <1> SUFFICES ASSUME NEW alarms, NEW d PROVE RowsOf(alarms, <<>>, d) = <<>>
    OBVIOUS
  <1>1. PICK rows : IsRows(alarms, <<>>, d, 0, rows) /\ RowsOf(alarms, <<>>, d) = rows[0]
    BY RowsOfDef
  <1> QED
    BY <1>1 DEF IsRows, RowsStep

\* Posting changes no row of a batch: alarms that are rows of the same databases
\* give the same rows.
LEMMA RowsOfSame ==
    ASSUME NEW S, NEW b \in Seq(S), NEW d, NEW alarms, NEW others,
           \A e \in S : IsRow(alarms[e], d) <=> IsRow(others[e], d)
    PROVE  RowsOf(alarms, b, d) = RowsOf(others, b, d)
  <1>1. Len(b) \in Nat /\ \A i \in 1..Len(b) : b[i] \in S
    BY LenProperties, ElementOfSeq
  <1>2. PICK rows : IsRows(alarms, b, d, Len(b), rows) /\ RowsOf(alarms, b, d) = rows[Len(b)]
    BY <1>1, RowsOfDef
  <1>3. PICK more : IsRows(others, b, d, Len(b), more) /\ RowsOf(others, b, d) = more[Len(b)]
    BY <1>1, RowsOfDef
  <1>4. SameRows(alarms, b, others, b, d, Len(b))
    BY <1>1 DEF SameRows
  <1>5. rows[Len(b)] = more[Len(b)]
    <2>1. Len(b) <= Len(b)
      BY <1>1
    <2> QED
      BY <1>1, <1>2, <1>3, <1>4, <2>1, RowsUnique
  <1> QED
    BY <1>2, <1>3, <1>5

\* Popping one more alarm (get_queue_exp) adds its row, if it is one, as the last.
LEMMA RowsOfAppend ==
    ASSUME NEW S, NEW d, NEW alarms
    PROVE  \A b \in Seq(S), e \in S :
             RowsOf(alarms, Append(b, e), d) =
               IF IsRow(alarms[e], d) THEN Append(RowsOf(alarms, b, d), e)
                                      ELSE RowsOf(alarms, b, d)
  <1> TAKE b \in Seq(S), e \in S
  <1> DEFINE t == Append(b, e)
             n == Len(b) + 1
  <1>1. /\ Len(b) \in Nat /\ Len(t) = n /\ t[n] = e
        /\ \A i \in 1..Len(b) : b[i] = t[i]
    BY AppendProperties, LenProperties
  <1>5. n \in Nat /\ n \in 0..n /\ n # 0 /\ n - 1 = Len(b) /\ Len(b) <= n
    BY <1>1
  <1> HIDE DEF t, n
  <1>2. PICK rows : IsRows(alarms, b, d, Len(b), rows) /\ RowsOf(alarms, b, d) = rows[Len(b)]
    BY <1>1, RowsOfDef
  <1>3. PICK more : IsRows(alarms, t, d, n, more) /\ RowsOf(alarms, t, d) = more[n]
    BY <1>1, <1>5, RowsOfDef
  <1>4. rows[Len(b)] = more[Len(b)]
    <2>1. SameRows(alarms, b, alarms, t, d, Len(b))
      BY <1>1 DEF SameRows
    <2> QED
      BY <1>1, <1>2, <1>3, <1>5, <2>1, RowsUnique
  <1>6. more[n] = RowsStep(alarms, t, d, more, n)
    BY <1>3, <1>5 DEF IsRows
  <1>7. more[n] = IF IsRow(alarms[e], d) THEN Append(more[Len(b)], e) ELSE more[Len(b)]
    BY <1>1, <1>5, <1>6 DEF RowsStep
  <1> QED
    BY <1>2, <1>3, <1>4, <1>7 DEF t

\* The rows of a batch are elements of it.  (Every sequence: otherwise there is a
\* shortest one that fails.)
LEMMA RowsOfType ==
    ASSUME NEW S, NEW d, NEW alarms
    PROVE  \A b \in Seq(S) : RowsOf(alarms, b, d) \in Seq(S)
  <1> DEFINE Bad == {n \in Nat : \E b \in Seq(S) : Len(b) = n /\ RowsOf(alarms, b, d) \notin Seq(S)}
  <1> SUFFICES ASSUME Bad # {} PROVE FALSE
    BY LenProperties
  <1>1. PICK n \in Bad : \A j \in Bad : n <= j
    BY LeastElement
  <1>2. PICK b \in Seq(S) : Len(b) = n /\ RowsOf(alarms, b, d) \notin Seq(S)
    BY <1>1
  <1>3. b # <<>>
    BY <1>2, RowsOfEmpty, EmptySeq
  <1>4. PICK t \in Seq(S), e \in S : b = Append(t, e)
    BY <1>3, SequenceEmptyOrAppend
  <1>5. Len(t) \in Nat /\ n = Len(t) + 1
    BY <1>2, <1>4, AppendProperties, LenProperties
  <1>6. RowsOf(alarms, t, d) \in Seq(S)
    BY <1>1, <1>5
  <1>7. Append(RowsOf(alarms, t, d), e) \in Seq(S)
    BY <1>6, AppendProperties
  <1>8. \A u \in Seq(S), x \in S :
            RowsOf(alarms, Append(u, x), d) =
              IF IsRow(alarms[x], d) THEN Append(RowsOf(alarms, u, d), x)
                                     ELSE RowsOf(alarms, u, d)
    BY RowsOfAppend
  <1> QED
    BY <1>2, <1>4, <1>6, <1>7, <1>8

\* Handling the first alarm of a batch removes its row, if it is one, as the first.
LEMMA RowsOfHead ==
    ASSUME NEW S, NEW d, NEW alarms
    PROVE  \A b \in Seq(S) : b # <<>> =>
             RowsOf(alarms, b, d) =
               IF IsRow(alarms[Head(b)], d) THEN <<Head(b)>> \o RowsOf(alarms, Tail(b), d)
                                            ELSE RowsOf(alarms, Tail(b), d)
  <1> DEFINE From(b) == IF IsRow(alarms[Head(b)], d) THEN <<Head(b)>> \o RowsOf(alarms, Tail(b), d)
                                                    ELSE RowsOf(alarms, Tail(b), d)
             Bad == {n \in Nat : \E b \in Seq(S) :
                        Len(b) = n /\ b # <<>> /\ RowsOf(alarms, b, d) # From(b)}
  <1> HIDE DEF From
  <1> SUFFICES ASSUME Bad # {} PROVE FALSE
    BY LenProperties DEF From
  <1>1. PICK n \in Bad : \A j \in Bad : n <= j
    BY LeastElement
  <1>2. PICK b \in Seq(S) : Len(b) = n /\ b # <<>> /\ RowsOf(alarms, b, d) # From(b)
    BY <1>1
  <1>3. PICK t \in Seq(S), e \in S : b = Append(t, e)
    BY <1>2, SequenceEmptyOrAppend
  <1>4. Len(t) \in Nat /\ n = Len(t) + 1
    BY <1>2, <1>3, AppendProperties, LenProperties
  <1>5. \A u \in Seq(S) :
            RowsOf(alarms, Append(u, e), d) =
              IF IsRow(alarms[e], d) THEN Append(RowsOf(alarms, u, d), e)
                                     ELSE RowsOf(alarms, u, d)
    BY RowsOfAppend
  <1>6. CASE t = <<>>
    <2>1. Head(b) = e /\ Tail(b) = <<>> /\ b = <<e>>
      BY <1>3, <1>6, HeadTailAppend
    <2>2. RowsOf(alarms, t, d) = <<>>
      BY <1>6, RowsOfEmpty
    <2>3. Append(<<>>, e) = <<e>> /\ <<e>> \o <<>> = <<e>>
      OBVIOUS
    <2> QED
      BY <1>2, <1>3, <1>5, <1>6, <2>1, <2>2, <2>3 DEF From
  <1>7. CASE t # <<>>
    <2>1. Head(b) = Head(t) /\ Tail(b) = Append(Tail(t), e) /\ Tail(t) \in Seq(S) /\ Head(t) \in S
      BY <1>3, <1>7, HeadTailAppend, HeadTailProperties
    <2>2. RowsOf(alarms, t, d) = From(t)
      BY <1>1, <1>4, <1>7
    <2>3. RowsOf(alarms, Tail(b), d) =
              IF IsRow(alarms[e], d) THEN Append(RowsOf(alarms, Tail(t), d), e)
                                     ELSE RowsOf(alarms, Tail(t), d)
      BY <1>5, <2>1
    <2>4. RowsOf(alarms, Tail(t), d) \in Seq(S) /\ <<Head(t)>> \in Seq(S)
      <3>1. \A u \in Seq(S) : RowsOf(alarms, u, d) \in Seq(S)
        BY RowsOfType
      <3>2. <<Head(t)>> \in Seq(S)
        BY <2>1
      <3> QED
        BY <2>1, <3>1, <3>2
    <2>5. Append(<<Head(t)>> \o RowsOf(alarms, Tail(t), d), e)
             = <<Head(t)>> \o Append(RowsOf(alarms, Tail(t), d), e)
      <3>1. \A u, v \in Seq(S) : u \o Append(v, e) = Append(u \o v, e)
        BY ConcatAppend
      <3> QED
        BY <2>4, <3>1, Zenon
    <2> QED
      BY <1>2, <1>3, <1>5, <2>1, <2>2, <2>3, <2>5 DEF From
  <1> QED
    BY <1>6, <1>7
=============================================================================
