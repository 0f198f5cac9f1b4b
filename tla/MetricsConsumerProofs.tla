----------------------- MODULE MetricsConsumerProofs -------------------------
(***************************************************************************)
(* What MetricsConsumer does for every set of alarms and databases, size of *)
(* a batch and of a cache, and number of failures.                         *)
(***************************************************************************)
EXTENDS MetricsConsumer, SequenceTheorems, FiniteSetTheorems, TLAPS

\* Where the process is tells how full its batch is: get_queue_exp returns it
\* full and the loop takes from it what there is.
BatchFits ==
    /\ pc = "fetch" => Len(batch) < Step
    /\ pc = "row" => batch # <<>>
    /\ pc \in {"tag", "ip", "store"} => Len(batch) < Step
    /\ pc \in {"sweep", "dead"} => batch = <<>>

Inv == TypeOK /\ BatchFits

Handling == {"tag", "ip", "store"}
Caches == [Dbs -> Seq(Index)]
TagSets == [Dbs -> SUBSET Tags]
IpSets == [Dbs -> SUBSET Ips]

\* What an alarm of the list is.
LEMMA AlarmType ==
    ASSUME TypeOK
    PROVE  /\ Len(sent) \in Nat
           /\ \A i \in Index : /\ sent[i] \in Alarms /\ Db(i) \in Dbs
                               /\ sent[i].tag \in Tags /\ sent[i].ip \in Ips
  <1>1. Len(sent) \in Nat
    BY LenProperties DEF TypeOK
  <1>2. ASSUME NEW i \in Index
        PROVE  sent[i] \in Alarms
    BY <1>2, ElementOfSeq DEF TypeOK, Index
  <1> QED
    BY <1>1, <1>2, AlarmsAssumption DEF Db, Tags, Ips

\* A batch can lose its first element, or all of them.
LEMMA BatchTail ==
    ASSUME TypeOK, batch # <<>>
    PROVE  /\ Head(batch) \in Index
           /\ Tail(batch) \in Seq(Index)
           /\ Len(Tail(batch)) < Step
  <1>1. /\ Head(batch) \in Index
        /\ Tail(batch) \in Seq(Index)
        /\ Len(Tail(batch)) = Len(batch) - 1 /\ Len(batch) \in Nat
    BY HeadTailProperties, LenProperties DEF TypeOK
  <1> QED
    BY <1>1, StepAssumption DEF TypeOK

\* An empty batch is a batch.
LEMMA Empty == <<>> \in Seq(Index) /\ Len(<<>>) = 0 /\ 0 < Step
  BY EmptySeq, StepAssumption

\* Empty caches have the types of caches.
LEMMA NoneType == Seqs \in Caches /\ Sets \in TagSets /\ Sets \in IpSets
  BY EmptySeq DEF Seqs, Sets, Caches, TagSets, IpSets

\* Where the loop over the batch goes on, the batch is as full as it should be.
LEMMA ContinueFits ==
    ASSUME pc' = Continue(batch'), Len(batch') < Step
    PROVE  pc' \in {"fetch", "row", "sweep"} /\ BatchFits'
  BY Empty DEF Continue, BatchFits

\* So it is after an exception.
LEMMA RaiseFits ==
    ASSUME pc' \in {"fetch", "dead"}, batch' = <<>>
    PROVE  BatchFits' /\ batch' \in Seq(Index) /\ Len(batch') <= Step
  BY Empty, StepAssumption DEF BatchFits

\* A row is cached, in the cache of its database.
LEMMA CacheType ==
    ASSUME TypeOK, NEW i \in Index
    PROVE  [cache EXCEPT ![Db(i)] = Append(@, i)] \in Caches
  <1>1. \A s \in Seq(Index) : Append(s, i) \in Seq(Index)
    BY AppendProperties
  <1> QED
    BY <1>1, AlarmType DEF TypeOK, Caches

\* A flush empties the cache and inserts its rows.
LEMMA FlushType ==
    ASSUME TypeOK, NEW d \in Dbs
    PROVE  /\ [cache EXCEPT ![d] = <<>>] \in Caches
           /\ Inserted(d) \in Caches
           /\ \A e \in Dbs : Len(Inserted(d)[e]) >= Len(table[e])
  <1>1. /\ cache \in [Dbs -> Seq(Index)] /\ table \in [Dbs -> Seq(Index)]
    BY DEF TypeOK
  <1>2. /\ table[d] \o cache[d] \in Seq(Index)
        /\ Len(table[d] \o cache[d]) = Len(table[d]) + Len(cache[d])
    BY <1>1, ConcatProperties
  <1>3. \A e \in Dbs : Len(table[e]) \in Nat /\ Len(cache[e]) \in Nat
    BY <1>1, LenProperties
  <1>4. ASSUME NEW e \in Dbs
        PROVE  Len(Inserted(d)[e]) >= Len(table[e])
    <2>1. CASE e = d
      BY <1>1, <1>2, <1>3, <2>1 DEF Inserted
    <2>2. CASE e # d
      BY <1>1, <1>3, <2>2 DEF Inserted
    <2> QED
      BY <2>1, <2>2
  <1> QED
    BY <1>1, <1>2, <1>4, EmptySeq DEF Inserted, Caches

\* What a step of the process changes, when it keeps Inv.
Memory == /\ cache \in Caches /\ tagCache \in TagSets /\ ipCache \in IpSets
MySQL == /\ table \in Caches /\ tagsTable \in TagSets /\ ipsTable \in IpSets
Loop == /\ pc \in Stages /\ batch \in Seq(Index) /\ Len(batch) <= Step
        /\ row \in 0..Len(sent) /\ (pc \in Handling => row \in Index)
        /\ BatchFits
History == /\ failures \in Nat /\ remakes \in Nat
           /\ dropped \in [Dbs -> Nat] /\ \A d \in Dbs : dropped[d] <= Len(table[d])
           /\ stale \subseteq Dbs \X (Tags \cup Ips)
List == /\ mode \in Modes /\ sent \in Seq(Alarms) /\ Len(sent) <= MaxAlarms
        /\ next \in 0..Len(sent)

\* The invariant by the parts of the state, so that a step need only show what it changes.
LEMMA InvParts == Inv <=> Memory /\ MySQL /\ Loop /\ History /\ List
  BY DEF Inv, TypeOK, Memory, MySQL, Loop, History, List, Caches, TagSets, IpSets, Handling

\* A process that posts nothing leaves the list as it is, and rows in the tables.
LEMMA ProcessKeeps ==
    ASSUME Inv, UNCHANGED <<mode, sent, made>>,
           Memory', MySQL', Loop', next' \in 0..Len(sent), failures' \in Nat,
           \A d \in Dbs : Len(table'[d]) >= Len(table[d])
    PROVE  Inv'
  <1>1. List'
    BY InvParts DEF List
  <1>2. History'
    <2>1. \A d \in Dbs : Len(table[d]) \in Nat /\ Len(table'[d]) \in Nat
      BY InvParts, LenProperties DEF MySQL, Caches
    <2>2. History
      BY InvParts
    <2>3. \A d \in Dbs : dropped[d] \in Nat /\ dropped[d] <= Len(table[d])
      BY <2>2 DEF History
    <2>4. \A d \in Dbs : dropped[d] <= Len(table'[d])
      BY <2>1, <2>3
    <2> QED
      BY <2>2, <2>4 DEF History, made
  <1>3. Memory' /\ MySQL' /\ Loop'
    OBVIOUS
  <1> QED
    BY <1>1, <1>2, <1>3, InvParts, PTL

\* A database may lose its rows' tags and ips; nothing else of it changes here.
LEMMA SetsGrow ==
    ASSUME TypeOK, NEW i \in Index
    PROVE  /\ \A t \in TagSets : [t EXCEPT ![Db(i)] = @ \cup {sent[i].tag}] \in TagSets
           /\ \A p \in IpSets : [p EXCEPT ![Db(i)] = @ \cup {sent[i].ip}] \in IpSets
  BY AlarmType DEF TagSets, IpSets

\* The memory after an exception or a kill.
LEMMA RaiseKeeps ==
    ASSUME Inv,
           /\ pc' \in {"fetch", "dead"} /\ batch' = <<>> /\ row' = 0
           /\ UNCHANGED sent
    PROVE  Loop'
  <1>1. BatchFits' /\ batch' \in Seq(Index) /\ Len(batch') <= Step
    BY RaiseFits
  <1>2. Index' = Index /\ 0 \in 0..Len(sent)
    BY AlarmType DEF Index, Inv
  <1> QED
    BY <1>1, <1>2 DEF Loop, Stages, Handling

\* The memory when the loop goes on with what is left of the batch.
LEMMA ContinueKeeps ==
    ASSUME Inv, pc' = Continue(batch'), row' \in 0..Len(sent), UNCHANGED sent,
           batch' \in Seq(Index), Len(batch') < Step
    PROVE  Loop'
  <1>1. pc' \in {"fetch", "row", "sweep"} /\ BatchFits'
    BY ContinueFits
  <1>2. Index' = Index /\ Len(batch') \in Nat /\ Step \in Nat
    BY LenProperties, StepAssumption DEF Index
  <1> QED
    BY <1>1, <1>2 DEF Loop, Stages, Handling

\* The steps of the process.
LEMMA FetchInv == Inv /\ Fetch /\ UNCHANGED <<mode, made>> => Inv'
  <1> SUFFICES ASSUME Inv, Fetch, UNCHANGED <<mode, made>> PROVE Inv'
    OBVIOUS
  <1>0. /\ Memory /\ MySQL /\ Loop /\ History /\ List
        /\ Len(sent) \in Nat /\ Len(batch) \in Nat /\ next \in Nat /\ Step \in Nat
    BY InvParts, LenProperties, StepAssumption DEF Loop, List
  <1>1. next + 1 \in Index /\ next' \in 0..Len(sent)
    BY <1>0 DEF Fetch, List, Index
  <1>2. /\ batch' \in Seq(Index) /\ Len(batch') = Len(batch) + 1 /\ batch' # <<>>
    BY <1>0, <1>1, AppendProperties DEF Fetch, Loop
  <1>3. pc' \in {"fetch", "row"} /\ Len(batch') <= Step /\ BatchFits'
    BY <1>0, <1>2 DEF Fetch, Loop, BatchFits
  <1>4. Index' = Index
    BY DEF Fetch, Index
  <1>5. Loop'
    BY <1>0, <1>2, <1>3, <1>4 DEF Loop, Fetch, Stages, Handling
  <1>6. Memory' /\ MySQL' /\ failures' \in Nat /\ table' = table
    BY <1>0, <1>4 DEF Fetch, Memory, MySQL, mysql, History, Caches
  <1>7. \A d \in Dbs : Len(table'[d]) >= Len(table[d])
    BY <1>0, <1>6, LenProperties DEF MySQL, Caches
  <1> QED
    BY <1>1, <1>5, <1>6, <1>7, ProcessKeeps DEF Fetch

\* An alarm of another type leaves the batch.
LEMMA SkipInv == Inv /\ Skip /\ UNCHANGED <<mode, made>> => Inv'
  <1> SUFFICES ASSUME Inv, Skip, UNCHANGED <<mode, made>> PROVE Inv'
    OBVIOUS
  <1>0. Memory /\ MySQL /\ Loop /\ History /\ List
    BY InvParts
  <1>1. batch' \in Seq(Index) /\ Len(batch') < Step
    BY BatchTail DEF Inv, BatchFits, Skip
  <1>2. Loop'
    BY <1>0, <1>1, ContinueKeeps DEF Skip, Loop
  <1>3. Index' = Index
    BY DEF Skip, Index
  <1>6. Memory' /\ MySQL' /\ failures' \in Nat /\ table' = table
    BY <1>0, <1>3 DEF Skip, Memory, MySQL, mysql, History, Caches
  <1>7. \A d \in Dbs : Len(table'[d]) >= Len(table[d])
    BY <1>0, <1>6, LenProperties DEF MySQL, Caches
  <1> QED
    BY <1>0, <1>2, <1>6, <1>7, ProcessKeeps DEF Skip, List

\* A row leaves the batch for its cache, or raises there.
LEMMA CacheRowInv == Inv /\ CacheRow /\ UNCHANGED <<mode, made>> => Inv'
  <1> SUFFICES ASSUME Inv, CacheRow, UNCHANGED <<mode, made>> PROVE Inv'
    OBVIOUS
  <1> DEFINE i == Head(batch)
             grown == [cache EXCEPT ![Db(i)] = Append(@, i)]
  <1>0. Memory /\ MySQL /\ Loop /\ History /\ List
    BY InvParts
  <1>1. /\ i \in Index /\ Tail(batch) \in Seq(Index) /\ Len(Tail(batch)) < Step
        /\ Len(Tail(batch)) \in Nat /\ Step \in Nat
    BY BatchTail, LenProperties, StepAssumption DEF Inv, BatchFits, CacheRow
  <1>2. grown \in Caches /\ Seqs \in Caches /\ Sets \in TagSets /\ Sets \in IpSets
    BY <1>1, CacheType, NoneType DEF Inv
  <1>3. Index' = Index /\ UNCHANGED <<sent, next, mysql>>
    BY DEF CacheRow, Index
  <1>4. Loop' /\ Memory' /\ failures' \in Nat
    <2>1. CASE Raise(grown, tagCache, ipCache)
      <3>1. /\ pc' \in {"fetch", "dead"} /\ batch' = <<>> /\ row' = 0
            /\ cache' \in {grown, Seqs} /\ tagCache' \in {tagCache, Sets}
            /\ ipCache' \in {ipCache, Sets} /\ failures' = failures + 1
        BY <2>1 DEF Raise, Die
      <3> HIDE DEF grown
      <3> QED
        BY <1>0, <1>2, <1>3, <3>1, RaiseKeeps DEF Memory, History, Caches
    <2>2. CASE /\ batch' = Tail(batch) /\ row' = i /\ cache' = grown /\ pc' = "tag"
               /\ UNCHANGED <<tagCache, ipCache, failures>>
      <3> HIDE DEF grown
      <3> QED
        BY <1>0, <1>1, <1>2, <1>3, <2>2
        DEF Memory, History, Loop, BatchFits, Stages, Handling, Caches, Index
    <2> QED
      BY <2>1, <2>2 DEF CacheRow
  <1>5. MySQL' /\ table' = table
    BY <1>0, <1>3 DEF MySQL, mysql, Caches
  <1>6. \A d \in Dbs : Len(table'[d]) >= Len(table[d])
    BY <1>0, <1>5, LenProperties DEF MySQL, Caches
  <1> QED
    BY <1>0, <1>3, <1>4, <1>5, <1>6, ProcessKeeps DEF List

\* Listing a tag, or an ip.
LEMMA TagInv == Inv /\ Tag /\ UNCHANGED <<mode, made>> => Inv'
  <1> SUFFICES ASSUME Inv, Tag, UNCHANGED <<mode, made>> PROVE Inv'
    OBVIOUS
  <1> DEFINE known == [tagCache EXCEPT ![Db(row)] = @ \cup {sent[row].tag}]
             inserted == [tagsTable EXCEPT ![Db(row)] = @ \cup {sent[row].tag}]
  <1>0. Memory /\ MySQL /\ Loop /\ History /\ List /\ row \in Index
    BY InvParts DEF Loop, Tag, Handling
  <1>1. known \in TagSets /\ inserted \in TagSets /\ Sets \in TagSets /\ Sets \in IpSets
        /\ Seqs \in Caches
    BY <1>0, SetsGrow, NoneType DEF Inv, Memory, MySQL
  <1>2. Index' = Index /\ UNCHANGED <<sent, next, table, ipsTable>>
        /\ tagsTable' \in {tagsTable, inserted}
    BY DEF Tag, Index, mysql
  <1>3. \/ /\ pc' \in {"fetch", "dead"} /\ batch' = <<>> /\ row' = 0
           /\ cache' \in {cache, Seqs} /\ tagCache' \in {known, Sets}
           /\ ipCache' \in {ipCache, Sets} /\ failures' = failures + 1
        \/ /\ pc' = "ip" /\ tagCache' \in {tagCache, known}
           /\ UNCHANGED <<batch, row, cache, ipCache, failures>>
    BY DEF Tag, Raise, Die
  <1> HIDE DEF known, inserted
  <1>4. Loop'
    <2>1. CASE pc' \in {"fetch", "dead"} /\ batch' = <<>> /\ row' = 0
      BY <1>2, <2>1, RaiseKeeps
    <2>2. CASE pc' = "ip" /\ UNCHANGED <<batch, row>>
      BY <1>0, <1>2, <2>2 DEF Loop, BatchFits, Stages, Handling, Tag
    <2> QED
      BY <1>3, <2>1, <2>2
  <1>5. Memory' /\ MySQL' /\ failures' \in Nat
    BY <1>0, <1>1, <1>2, <1>3 DEF Memory, MySQL, History, Caches
  <1>6. \A d \in Dbs : Len(table'[d]) >= Len(table[d])
    BY <1>0, <1>2, LenProperties DEF MySQL, Caches
  <1> QED
    BY <1>0, <1>2, <1>4, <1>5, <1>6, ProcessKeeps DEF List

\* Listing an ip.
LEMMA IpInv == Inv /\ Ip /\ UNCHANGED <<mode, made>> => Inv'
  <1> SUFFICES ASSUME Inv, Ip, UNCHANGED <<mode, made>> PROVE Inv'
    OBVIOUS
  <1> DEFINE known == [ipCache EXCEPT ![Db(row)] = @ \cup {sent[row].ip}]
             inserted == [ipsTable EXCEPT ![Db(row)] = @ \cup {sent[row].ip}]
  <1>0. Memory /\ MySQL /\ Loop /\ History /\ List /\ row \in Index
    BY InvParts DEF Loop, Ip, Handling
  <1>1. known \in IpSets /\ inserted \in IpSets /\ Sets \in TagSets /\ Sets \in IpSets
        /\ Seqs \in Caches
    BY <1>0, SetsGrow, NoneType DEF Inv, Memory, MySQL
  <1>2. Index' = Index /\ UNCHANGED <<sent, next, table, tagsTable>>
        /\ ipsTable' \in {ipsTable, inserted}
    BY DEF Ip, Index, mysql
  <1>3. \/ /\ pc' \in {"fetch", "dead"} /\ batch' = <<>> /\ row' = 0
           /\ cache' \in {cache, Seqs} /\ ipCache' \in {known, Sets}
           /\ tagCache' \in {tagCache, Sets} /\ failures' = failures + 1
        \/ /\ pc' = "store" /\ ipCache' \in {ipCache, known}
           /\ UNCHANGED <<batch, row, cache, tagCache, failures>>
    BY DEF Ip, Raise, Die
  <1> HIDE DEF known, inserted
  <1>4. Loop'
    <2>1. CASE pc' \in {"fetch", "dead"} /\ batch' = <<>> /\ row' = 0
      BY <1>2, <2>1, RaiseKeeps
    <2>2. CASE pc' = "store" /\ UNCHANGED <<batch, row>>
      BY <1>0, <1>2, <2>2 DEF Loop, BatchFits, Stages, Handling, Ip
    <2> QED
      BY <1>3, <2>1, <2>2
  <1>5. Memory' /\ MySQL' /\ failures' \in Nat
    BY <1>0, <1>1, <1>2, <1>3 DEF Memory, MySQL, History, Caches
  <1>6. \A d \in Dbs : Len(table'[d]) >= Len(table[d])
    BY <1>0, <1>2, LenProperties DEF MySQL, Caches
  <1> QED
    BY <1>0, <1>2, <1>4, <1>5, <1>6, ProcessKeeps DEF List

\* A flush, that succeeds or raises.
LEMMA FlushInv ==
    ASSUME Inv, UNCHANGED <<sent, next, mode, made>>, NEW d \in Dbs,
           (MultiInsert(d) /\ Loop') \/ MultiInsertRaises(d)
    PROVE  Inv'
  <1> DEFINE emptied == [cache EXCEPT ![d] = <<>>]
  <1>0. Memory /\ MySQL /\ Loop /\ History /\ List
    BY InvParts
  <1>1. /\ emptied \in Caches /\ Inserted(d) \in Caches
        /\ \A e \in Dbs : Len(Inserted(d)[e]) >= Len(table[e])
        /\ Seqs \in Caches /\ Sets \in TagSets /\ Sets \in IpSets
    BY FlushType, NoneType DEF Inv
  <1>2. Index' = Index
    BY DEF Index
  <1>3. /\ table' \in {table, Inserted(d)} /\ UNCHANGED <<tagsTable, ipsTable>>
        /\ \/ /\ cache' = emptied
              /\ UNCHANGED <<tagCache, ipCache, failures>> /\ Loop'
           \/ /\ pc' \in {"fetch", "dead"} /\ batch' = <<>> /\ row' = 0
              /\ cache' \in {cache, Seqs} /\ tagCache' \in {tagCache, Sets}
              /\ ipCache' \in {ipCache, Sets} /\ failures' = failures + 1
    BY DEF MultiInsert, MultiInsertRaises, Raise, Die
  <1> HIDE DEF emptied
  <1>4. Loop'
    BY <1>3, RaiseKeeps
  <1>5. Memory' /\ MySQL' /\ failures' \in Nat
    <2>1. Caches' = Caches /\ TagSets' = TagSets /\ IpSets' = IpSets
      BY <1>2 DEF Caches, TagSets, IpSets
    <2>2. /\ cache' \in Caches /\ tagCache' \in TagSets /\ ipCache' \in IpSets
          /\ failures' \in Nat
      <3>1. /\ cache' \in {cache, emptied, Seqs} /\ tagCache' \in {tagCache, Sets}
            /\ ipCache' \in {ipCache, Sets} /\ failures' \in {failures, failures + 1}
        BY <1>3
      <3> QED
        BY <1>0, <1>1, <3>1 DEF Memory, History
    <2>3. table' \in Caches
      BY <1>0, <1>1, <1>3 DEF MySQL
    <2> QED
      BY <1>0, <1>3, <2>1, <2>2, <2>3 DEF Memory, MySQL
  <1>6. \A e \in Dbs : Len(table'[e]) >= Len(table[e])
    BY <1>0, <1>1, <1>3, LenProperties DEF MySQL, Caches
  <1> QED
    BY <1>0, <1>4, <1>5, <1>6, ProcessKeeps DEF List

\* The row is handled: its cache is flushed, if it is due.
LEMMA StoreInv == Inv /\ Store /\ UNCHANGED <<mode, made>> => Inv'
  <1> SUFFICES ASSUME Inv, Store, UNCHANGED <<mode, made>> PROVE Inv'
    OBVIOUS
  <1>0. /\ Memory /\ MySQL /\ Loop /\ History /\ List /\ row \in Index /\ Db(row) \in Dbs
        /\ Len(batch) < Step
    BY InvParts, AlarmType DEF Loop, Store, Handling, Inv, BatchFits
  <1>1. Index' = Index /\ UNCHANGED <<sent, next>>
    BY DEF Store, Index
  <1>2. ASSUME pc' = Continue(batch), row' = 0, UNCHANGED batch
        PROVE  Loop'
    <2>1. 0 \in 0..Len(sent)
      BY AlarmType DEF Inv
    <2>2. batch' \in Seq(Index) /\ Len(batch') < Step /\ pc' = Continue(batch')
      BY <1>0, <1>2 DEF Loop
    <2> QED
      BY <1>1, <1>2, <2>1, <2>2, ContinueKeeps
  <1>3. CASE MultiInsert(Db(row)) /\ pc' = Continue(batch) /\ row' = 0 /\ UNCHANGED batch
    BY <1>0, <1>1, <1>2, <1>3, FlushInv
  <1>4. CASE MultiInsertRaises(Db(row))
    BY <1>0, <1>1, <1>4, FlushInv
  <1>5. CASE /\ pc' = Continue(batch) /\ row' = 0
             /\ UNCHANGED <<batch, cache, tagCache, ipCache, mysql, failures>>
    <2>1. Memory' /\ MySQL' /\ failures' \in Nat /\ table' = table
      BY <1>0, <1>1, <1>5 DEF Memory, MySQL, mysql, History, Caches
    <2>2. \A d \in Dbs : Len(table'[d]) >= Len(table[d])
      BY <1>0, <2>1, LenProperties DEF MySQL, Caches
    <2> QED
      BY <1>0, <1>1, <1>2, <1>5, <2>1, <2>2, ProcessKeeps DEF List
  <1> QED
    BY <1>3, <1>4, <1>5 DEF Store

\* The flush of all caches after a batch.
LEMMA SweepInv == Inv /\ Sweep /\ UNCHANGED <<mode, made>> => Inv'
  <1> SUFFICES ASSUME Inv, Sweep, UNCHANGED <<mode, made>> PROVE Inv'
    OBVIOUS
  <1>0. Memory /\ MySQL /\ Loop /\ History /\ List /\ batch = <<>> /\ pc = "sweep"
    BY InvParts DEF Sweep, Inv, BatchFits
  <1>1. Index' = Index /\ UNCHANGED <<sent, next>>
    BY DEF Sweep, Index
  <1>2. ASSUME pc' \in {"sweep", "fetch"}, UNCHANGED <<batch, row>>
        PROVE  Loop'
    BY <1>0, <1>1, <1>2, Empty DEF Loop, BatchFits, Stages, Handling
  <1>3. ASSUME NEW d \in Dbs, \/ MultiInsert(d) /\ UNCHANGED <<pc, batch, row>>
                             \/ MultiInsertRaises(d)
        PROVE  Inv'
    <2>1. CASE MultiInsert(d) /\ UNCHANGED <<pc, batch, row>>
      <3>1. Loop'
        BY <1>0, <1>2, <2>1
      <3> QED
        BY <1>1, <2>1, <3>1, FlushInv
    <2>2. CASE MultiInsertRaises(d)
      BY <1>1, <2>2, FlushInv
    <2> QED
      BY <1>3, <2>1, <2>2
  <1>4. CASE pc' = "fetch" /\ UNCHANGED <<batch, row, cache, tagCache, ipCache, mysql, failures>>
    <2>1. Memory' /\ MySQL' /\ failures' \in Nat /\ table' = table
      BY <1>0, <1>1, <1>4 DEF Memory, MySQL, mysql, History, Caches
    <2>2. \A d \in Dbs : Len(table'[d]) >= Len(table[d])
      BY <1>0, <2>1, LenProperties DEF MySQL, Caches
    <2> QED
      BY <1>0, <1>1, <1>2, <1>4, <2>1, <2>2, ProcessKeeps DEF List
  <1> QED
    BY <1>3, <1>4 DEF Sweep

\* Posting, the death of the process and its restart, and databases made again.
LEMMA PostInv ==
    ASSUME Inv, NEW a \in Alarms, Post(a)
    PROVE  Inv'
  <1>0. /\ Memory /\ MySQL /\ Loop /\ History /\ List /\ Len(sent) \in Nat
        /\ MaxAlarms \in Nat
    BY InvParts, LenProperties, BoundsAssumption DEF List
  <1>1. sent' \in Seq(Alarms) /\ Len(sent') = Len(sent) + 1
    BY <1>0, AppendProperties DEF Post, List
  <1>2. Index \subseteq Index'
    BY <1>0, <1>1 DEF Index
  <1>3. Seq(Index) \subseteq Seq(Index')
    BY <1>2, SeqMonotonic
  <1>4. Caches \subseteq Caches' /\ TagSets' = TagSets /\ IpSets' = IpSets
    BY <1>3 DEF Caches, TagSets, IpSets
  <1>5. Memory' /\ MySQL'
    BY <1>0, <1>4 DEF Post, Memory, MySQL, memory, mysql
  <1>6. Loop'
    <2>1. UNCHANGED <<pc, batch, row>>
      BY DEF Post, memory
    <2>2. row' \in 0..Len(sent') /\ batch' \in Seq(Index')
      BY <1>0, <1>1, <1>3, <2>1 DEF Loop
    <2> QED
      BY <1>0, <1>2, <2>1, <2>2 DEF Loop, BatchFits
  <1>7. History' /\ List'
    BY <1>0, <1>1 DEF Post, History, List, made, mysql
  <1> QED
    BY <1>5, <1>6, <1>7, InvParts, PTL

\* kill -9 leaves nothing in memory.
LEMMA KillInv == Inv /\ Kill => Inv'
  <1> SUFFICES ASSUME Inv, Kill PROVE Inv'
    OBVIOUS
  <1>0. Memory /\ MySQL /\ Loop /\ History /\ List
    BY InvParts
  <1>1. Index' = Index /\ UNCHANGED <<mode, sent, next, mysql, made>>
    BY DEF Kill, Index
  <1>2. Loop'
    BY <1>1, RaiseKeeps DEF Kill, Die
  <1>3. Memory' /\ MySQL' /\ failures' \in Nat /\ table' = table
    BY <1>0, <1>1, NoneType DEF Kill, Die, Memory, MySQL, mysql, History, Caches
  <1>4. \A d \in Dbs : Len(table'[d]) >= Len(table[d])
    BY <1>0, <1>3, LenProperties DEF MySQL, Caches
  <1> QED
    BY <1>0, <1>1, <1>2, <1>3, <1>4, ProcessKeeps DEF List

\* A BRPOP that raises ends the process, or only loses the batch.
LEMMA FetchRaisesIs ==
    ASSUME FetchRaises
    PROVE  /\ UNCHANGED <<mode, sent, next, mysql, made>> /\ failures' = failures + 1
           /\ pc = "fetch" /\ pc' \in {"fetch", "dead"} /\ batch' = <<>> /\ row' = 0
           /\ \/ Die
              \/ CatchesErrors /\ UNCHANGED <<cache, tagCache, ipCache>>
  BY DEF FetchRaises, Raise, Die

\* Neither needs anything but the caches.
LEMMA FetchRaisesInv == Inv /\ FetchRaises => Inv'
  <1> SUFFICES ASSUME Inv, FetchRaises PROVE Inv'
    OBVIOUS
  <1>0. Memory /\ MySQL /\ Loop /\ History /\ List
    BY InvParts
  <1>1. Index' = Index /\ UNCHANGED <<mode, sent, next, mysql, made>>
    BY FetchRaisesIs DEF Index
  <1>2. Loop'
    BY <1>1, FetchRaisesIs, RaiseKeeps
  <1>3. Memory' /\ MySQL' /\ failures' \in Nat /\ table' = table
    BY <1>0, <1>1, FetchRaisesIs, NoneType DEF Die, Memory, MySQL, mysql, History, Caches
  <1>4. \A d \in Dbs : Len(table'[d]) >= Len(table[d])
    BY <1>0, <1>3, LenProperties DEF MySQL, Caches
  <1> QED
    BY <1>0, <1>1, <1>2, <1>3, <1>4, ProcessKeeps DEF List

\* A new process begins with nothing in memory.
LEMMA RestartInv == Inv /\ Restart => Inv'
  <1> SUFFICES ASSUME Inv, Restart PROVE Inv'
    OBVIOUS
  <1>0. Memory /\ MySQL /\ Loop /\ History /\ List
    BY InvParts
  <1>1. Index' = Index /\ UNCHANGED <<mode, sent, next, mysql, made>>
    BY DEF Restart, Index
  <1>2. Loop'
    BY <1>0, <1>1, Empty DEF Restart, Loop, BatchFits, Stages, Handling
  <1>3. Memory' /\ MySQL' /\ failures' \in Nat /\ table' = table
    BY <1>0, <1>1 DEF Restart, Memory, MySQL, mysql, History, Caches
  <1>4. \A d \in Dbs : Len(table'[d]) >= Len(table[d])
    BY <1>0, <1>3, LenProperties DEF MySQL, Caches
  <1> QED
    BY <1>0, <1>1, <1>2, <1>3, <1>4, ProcessKeeps DEF List

\* A database made again has empty tables of tags and ips, and keeps its history.
LEMMA RemakeInv ==
    ASSUME Inv, NEW d \in Dbs, Remake(d)
    PROVE  Inv'
  <1>0. Memory /\ MySQL /\ Loop /\ History /\ List
    BY InvParts
  <1>1. Index' = Index /\ UNCHANGED <<mode, sent, next, memory, table, failures>>
    BY DEF Remake, Index
  <1>2. List' /\ Loop' /\ Memory'
    BY <1>0, <1>1 DEF List, Loop, Memory, memory, BatchFits, Caches
  <1>3. MySQL'
    BY <1>0, <1>1 DEF Remake, MySQL, Caches, TagSets, IpSets
  <1>4. /\ stale' \subseteq Dbs \X (Tags \cup Ips)
        /\ remakes' \in Nat /\ failures' \in Nat
    BY <1>0, <1>1 DEF Remake, History, Memory, TagSets, IpSets
  <1>5. dropped' \in [Dbs -> Nat] /\ \A e \in Dbs : dropped'[e] <= Len(table'[e])
    <2>1. \A e \in Dbs : Len(table[e]) \in Nat
      BY <1>0, LenProperties DEF MySQL, Caches
    <2> QED
      BY <1>0, <1>1, <2>1 DEF Remake, History
  <1>6. History'
    BY <1>4, <1>5 DEF History
  <1> QED
    BY <1>2, <1>3, <1>6, InvParts, PTL

\* Every step keeps Inv.
LEMMA StepInv == Inv /\ [Next]_vars => Inv'
  <1> SUFFICES ASSUME Inv, [Next]_vars PROVE Inv'
    OBVIOUS
  <1>1. CASE Process
    BY <1>1, FetchInv, SkipInv, CacheRowInv, TagInv, IpInv, StoreInv, SweepInv DEF Process
  <1>2. CASE UNCHANGED vars
    BY <1>2 DEF vars, memory, mysql, made, Inv, TypeOK, BatchFits, Index
  <1>3. CASE \E a \in Alarms : Post(a)
    BY <1>3, PostInv
  <1>4. CASE Kill \/ Restart \/ FetchRaises
    BY <1>4, KillInv, RestartInv, FetchRaisesInv
  <1>5. CASE \E d \in Dbs : Remake(d)
    BY <1>5, RemakeInv
  <1> QED
    BY <1>1, <1>2, <1>3, <1>4, <1>5 DEF Next

\* It holds at first.
LEMMA InitInv == Init => Inv
  <1> SUFFICES ASSUME Init PROVE Inv
    OBVIOUS
  <1>1. <<>> \in Seq(Alarms) /\ MaxAlarms \in Nat /\ Step \in Nat
    BY EmptySeq, BoundsAssumption, StepAssumption
  <1>2. Memory /\ MySQL
    BY NoneType DEF Init, Memory, MySQL
  <1>3. Loop /\ List
    BY <1>1, Empty DEF Init, Loop, List, BatchFits, Stages, Handling
  <1>4. History
    BY Empty DEF Init, History, Seqs
  <1> QED
    BY <1>2, <1>3, <1>4, InvParts

\* Every reachable state has the types of TypeOK (MetricsConsumer.tla), whatever
\* raises and whenever the process is killed (metrics_counter_consumer.py:55-140).
THEOREM TypeCorrect == Spec => []TypeOK
  <1>1. Inv => TypeOK
    BY DEF Inv
  <1> QED
    BY <1>1, InitInv, StepInv, PTL DEF Spec
-----------------------------------------------------------------------------
\* What RowDelivery holds in memory, and what is proved of it.
held == [d \in Dbs |-> Held(d)]
Abstract == INSTANCE RowDeliveryProofs

\* The rows of a batch are those RowDelivery means.
LEMMA RowsAgree == \A alarms, b, d : Abstract!RowsOf(alarms, b, d) = RowsOf(alarms, b, d)
  BY DEF Abstract!RowsOf, RowsOf, Abstract!IsRow, IsRow

\* An empty batch has no rows.
LEMMA RowsEmpty == \A alarms, d : RowsOf(alarms, <<>>, d) = <<>>
  <1>1. \A alarms, d : Abstract!RowsOf(alarms, <<>>, d) = <<>>
    BY Abstract!RowsOfEmpty
  <1> QED
    BY <1>1, RowsAgree

\* The rows of a batch are elements of it.
LEMMA RowsType ==
    ASSUME NEW S, NEW alarms, NEW d
    PROVE  \A b \in Seq(S) : RowsOf(alarms, b, d) \in Seq(S)
  <1>1. \A b \in Seq(S) : Abstract!RowsOf(alarms, b, d) \in Seq(S)
    BY Abstract!RowsOfType
  <1> QED
    BY <1>1, RowsAgree

\* An alarm popped last becomes the last row, if it becomes one.
LEMMA RowsAppend ==
    ASSUME NEW S, NEW alarms, NEW d
    PROVE  \A b \in Seq(S), e \in S :
             RowsOf(alarms, Append(b, e), d) =
               IF IsRow(alarms[e], d) THEN Append(RowsOf(alarms, b, d), e)
                                      ELSE RowsOf(alarms, b, d)
  <1>1. \A b \in Seq(S), e \in S :
             Abstract!RowsOf(alarms, Append(b, e), d) =
               IF IsRow(alarms[e], d) THEN Append(Abstract!RowsOf(alarms, b, d), e)
                                      ELSE Abstract!RowsOf(alarms, b, d)
    BY Abstract!RowsOfAppend DEF IsRow, Abstract!IsRow
  <1>2. \A b : Abstract!RowsOf(alarms, b, d) = RowsOf(alarms, b, d)
    BY RowsAgree
  <1> QED
    BY <1>1, <1>2, Zenon

\* An alarm handled first is the first row, if it is one.
LEMMA RowsHead ==
    ASSUME NEW S, NEW alarms, NEW d
    PROVE  \A b \in Seq(S) : b # <<>> =>
             RowsOf(alarms, b, d) =
               IF IsRow(alarms[Head(b)], d) THEN <<Head(b)>> \o RowsOf(alarms, Tail(b), d)
                                            ELSE RowsOf(alarms, Tail(b), d)
  <1>1. \A b \in Seq(S) : b # <<>> =>
             Abstract!RowsOf(alarms, b, d) =
               IF Abstract!IsRow(alarms[Head(b)], d)
               THEN <<Head(b)>> \o Abstract!RowsOf(alarms, Tail(b), d)
               ELSE Abstract!RowsOf(alarms, Tail(b), d)
    BY Abstract!RowsOfHead
  <1>2. \A a : Abstract!IsRow(a, d) <=> IsRow(a, d)
    BY DEF IsRow, Abstract!IsRow
  <1>3. \A b : Abstract!RowsOf(alarms, b, d) = RowsOf(alarms, b, d)
    BY RowsAgree
  <1> QED
    BY <1>1, <1>2, <1>3, Zenon

\* Which alarms become rows does not change with what is appended to the list.
LEMMA RowsStay ==
    ASSUME NEW S, NEW alarms, NEW others, NEW d,
           \A e \in S : IsRow(alarms[e], d) <=> IsRow(others[e], d)
    PROVE  \A b \in Seq(S) : RowsOf(alarms, b, d) = RowsOf(others, b, d)
  <1>1. \A e \in S : Abstract!IsRow(alarms[e], d) <=> Abstract!IsRow(others[e], d)
    BY DEF IsRow, Abstract!IsRow
  <1>2. \A b \in Seq(S) : Abstract!RowsOf(alarms, b, d) = Abstract!RowsOf(others, b, d)
    BY <1>1, Abstract!RowsOfSame
  <1> QED
    BY <1>2, RowsAgree

\* The rows of the batch for d.
Coming(d) == RowsOf(sent, batch, d)

\* What is held of a database, cached and coming, are indices of the list.
LEMMA HeldType ==
    ASSUME Inv, NEW d \in Dbs
    PROVE  /\ cache[d] \in Seq(Index) /\ table[d] \in Seq(Index)
           /\ Coming(d) \in Seq(Index) /\ Held(d) \in Seq(Index)
           /\ Held(d) = cache[d] \o Coming(d)
  <1>1. \A b \in Seq(Index) : RowsOf(sent, b, d) \in Seq(Index)
    BY RowsType
  <1>2. /\ cache[d] \in Seq(Index) /\ table[d] \in Seq(Index)
        /\ Coming(d) \in Seq(Index)
    BY <1>1 DEF Inv, TypeOK, Coming
  <1>3. cache[d] \o Coming(d) \in Seq(Index)
    BY <1>2, ConcatProperties
  <1> QED
    BY <1>2, <1>3 DEF Held, Coming

\* Posting holds nothing more.
LEMMA PostComing ==
    ASSUME Inv, NEW a \in Alarms, Post(a), NEW d \in Dbs
    PROVE  Coming(d)' = Coming(d)
  <1>1. /\ Len(sent) \in Nat /\ \A i \in Index : sent'[i] = sent[i]
        /\ batch \in Seq(Index) /\ UNCHANGED batch
    BY LenProperties, AppendProperties DEF Inv, TypeOK, Post, Index, memory
  <1>2. \A i \in Index : IsRow(sent[i], d) <=> IsRow(sent'[i], d)
    BY <1>1
  <1> DEFINE others == sent'
  <1> HIDE DEF others
  <1>3. RowsOf(sent, batch, d) = RowsOf(others, batch, d)
    BY <1>1, <1>2, RowsStay DEF others
  <1> QED
    BY <1>1, <1>3 DEF Coming, others

\* Popping an alarm adds its row, if it is one, as the last.
LEMMA FetchComing ==
    ASSUME Inv, Fetch, NEW d \in Dbs
    PROVE  Coming(d)' = IF IsRow(sent[next + 1], d) THEN Append(Coming(d), next + 1)
                                                   ELSE Coming(d)
  <1>1. /\ next + 1 \in Index /\ batch \in Seq(Index)
        /\ batch' = Append(batch, next + 1) /\ UNCHANGED sent
    BY LenProperties DEF Inv, TypeOK, Fetch, Index
  <1>2. \A b \in Seq(Index), e \in Index :
            RowsOf(sent, Append(b, e), d) =
              IF IsRow(sent[e], d) THEN Append(RowsOf(sent, b, d), e) ELSE RowsOf(sent, b, d)
    BY RowsAppend
  <1> QED
    BY <1>1, <1>2 DEF Coming

\* The alarm at the head of the batch makes the first of its rows, if it is one.
LEMMA HeadComing ==
    ASSUME Inv, pc = "row", NEW d \in Dbs
    PROVE  /\ Head(batch) \in Index
           /\ RowsOf(sent, Tail(batch), d) \in Seq(Index)
           /\ Coming(d) = IF IsRow(sent[Head(batch)], d)
                          THEN <<Head(batch)>> \o RowsOf(sent, Tail(batch), d)
                          ELSE RowsOf(sent, Tail(batch), d)
  <1>1. /\ batch \in Seq(Index) /\ batch # <<>> /\ Tail(batch) \in Seq(Index)
        /\ Head(batch) \in Index
    BY BatchTail DEF Inv, TypeOK, BatchFits
  <1>2. \A b \in Seq(Index) : b # <<>> =>
            RowsOf(sent, b, d) =
              IF IsRow(sent[Head(b)], d) THEN <<Head(b)>> \o RowsOf(sent, Tail(b), d)
                                         ELSE RowsOf(sent, Tail(b), d)
    BY RowsHead
  <1>3. \A b \in Seq(Index) : RowsOf(sent, b, d) \in Seq(Index)
    BY RowsType
  <1> QED
    BY <1>1, <1>2, <1>3 DEF Coming

\* Nothing comes from an empty batch.
LEMMA NoneComing ==
    ASSUME batch' = <<>>, NEW d
    PROVE  Coming(d)' = <<>>
  BY RowsEmpty DEF Coming

\* Concatenation does not care where it begins.
LEMMA Associative ==
    ASSUME NEW S
    PROVE  \A u, v, w \in Seq(S) : (u \o v) \o w = u \o (v \o w)
  BY ConcatAssociative, SMTT(20)

\* Appending to what comes is appending to what is held.
LEMMA HeldAppend ==
    ASSUME NEW S
    PROVE  \A c, r \in Seq(S) : \A i \in S : c \o Append(r, i) = Append(c \o r, i)
  BY Abstract!ConcatAppend

\* Caching a row moves it from what comes to the cache.
LEMMA CacheMove ==
    ASSUME NEW S
    PROVE  \A c, r \in Seq(S) : \A i \in S : Append(c, i) \o r = c \o (<<i>> \o r)
  <1> SUFFICES ASSUME NEW c \in Seq(S), NEW r \in Seq(S), NEW i \in S
               PROVE  Append(c, i) \o r = c \o (<<i>> \o r)
    OBVIOUS
  <1>1. Append(c, i) = c \o <<i>> /\ <<i>> \in Seq(S)
    BY AppendIsConcat
  <1>2. (c \o <<i>>) \o r = c \o (<<i>> \o r)
    BY <1>1, Associative
  <1> QED
    BY <1>1, <1>2

\* Flushing the cache of d saves its rows, the oldest that are held.
LEMMA SplitCache ==
    ASSUME NEW S
    PROVE  \A c, r \in Seq(S) :
             /\ Len(c \o r) \in Nat /\ Len(c) \in 0..Len(c \o r)
             /\ SubSeq(c \o r, 1, Len(c)) = c
             /\ SubSeq(c \o r, Len(c) + 1, Len(c \o r)) = r
  <1> SUFFICES ASSUME NEW c \in Seq(S), NEW r \in Seq(S)
               PROVE  /\ Len(c \o r) \in Nat /\ Len(c) \in 0..Len(c \o r)
                      /\ SubSeq(c \o r, 1, Len(c)) = c
                      /\ SubSeq(c \o r, Len(c) + 1, Len(c \o r)) = r
    OBVIOUS
  <1> DEFINE h == c \o r
  <1>1. /\ h \in Seq(S) /\ Len(h) = Len(c) + Len(r) /\ Len(r) \in Nat /\ Len(c) \in Nat
        /\ \A k \in 1..(Len(c) + Len(r)) : h[k] = IF k <= Len(c) THEN c[k] ELSE r[k - Len(c)]
    BY ConcatProperties, LenProperties
  <1> HIDE DEF h
  <1>2. SubSeq(h, 1, Len(c)) = c
    <2>1. /\ SubSeq(h, 1, Len(c)) \in Seq(S) /\ Len(SubSeq(h, 1, Len(c))) = Len(c)
          /\ \A k \in 1..Len(c) : SubSeq(h, 1, Len(c))[k] = h[k]
      BY <1>1, SubSeqProperties
    <2>2. \A k \in 1..Len(c) : SubSeq(h, 1, Len(c))[k] = c[k]
      BY <1>1, <2>1
    <2> QED
      BY <2>1, <2>2, SeqEqual
  <1>3. SubSeq(h, Len(c) + 1, Len(h)) = r
    <2> DEFINE t == SubSeq(h, Len(c) + 1, Len(h))
    <2>1. /\ t \in Seq(S) /\ Len(t) = Len(r)
          /\ \A k \in 1..Len(r) : t[k] = h[k + Len(c)]
      <3> DEFINE a == Len(c) + 1
                 b == Len(h)
      <3>1. /\ a \in Int /\ b \in Int /\ \A i \in a..b : h[i] \in S
            /\ b - a + 1 = Len(r) /\ (a <= b \/ Len(r) = 0)
            /\ \A k \in 1..Len(r) : a + k - 1 = k + Len(c)
        BY <1>1
      <3> HIDE DEF a, b
      <3>2. /\ SubSeq(h, a, b) \in Seq(S)
            /\ Len(SubSeq(h, a, b)) = IF a <= b THEN b - a + 1 ELSE 0
            /\ \A i \in 1..(b - a + 1) : SubSeq(h, a, b)[i] = h[a + i - 1]
        BY <3>1, SubSeqProperties
      <3>3. t = SubSeq(h, a, b)
        BY DEF a, b
      <3> HIDE DEF t
      <3> QED
        BY <3>1, <3>2, <3>3
    <2>2. ASSUME NEW k \in 1..Len(r)
          PROVE  t[k] = r[k]
      <3>1. /\ k + Len(c) \in 1..(Len(c) + Len(r)) /\ ~(k + Len(c) <= Len(c))
            /\ (k + Len(c)) - Len(c) = k
        BY <1>1
      <3> QED
        BY <1>1, <2>1, <3>1
    <2> QED
      BY <2>1, <2>2, SeqEqual
  <1> QED
    BY <1>1, <1>2, <1>3 DEF h
-----------------------------------------------------------------------------
\* The steps that leave what RowDelivery sees as it is.
LEMMA SameHeld ==
    ASSUME UNCHANGED <<sent, next, batch, cache, table>>
    PROVE  UNCHANGED <<sent, next, held, table>>
  BY DEF held, Held

\* An alarm of another type is not held, so nothing is lost with it.
LEMMA SkipHeld ==
    ASSUME Inv, Skip
    PROVE  UNCHANGED <<sent, next, held, table>>
  <1>1. UNCHANGED <<sent, next, cache, table>>
    BY DEF Skip, mysql
  <1>2. ASSUME NEW d \in Dbs
        PROVE  Held(d)' = Held(d)
    <2>1. ~IsRow(sent[Head(batch)], d)
      BY DEF Skip, IsRow
    <2>2. Coming(d)' = Coming(d)
      BY <2>1, HeadComing DEF Skip, Coming
    <2> QED
      BY <1>1, <2>2 DEF Held, Coming
  <1> QED
    BY <1>1, <1>2 DEF held

\* A row that is cached was held, in the batch.
LEMMA CacheRowHeld ==
    ASSUME Inv, CacheRow, batch' = Tail(batch),
           cache' = [cache EXCEPT ![Db(Head(batch))] = Append(@, Head(batch))]
    PROVE  UNCHANGED <<sent, next, held, table>>
  <1> DEFINE i == Head(batch)
  <1>1. UNCHANGED <<sent, next, table>> /\ pc = "row" /\ sent[i].kind # "alien"
    BY DEF CacheRow, mysql
  <1>2. ASSUME NEW d \in Dbs
        PROVE  Held(d)' = Held(d)
    <2> DEFINE r == RowsOf(sent, Tail(batch), d)
    <2>1. /\ cache[d] \in Seq(Index) /\ r \in Seq(Index) /\ i \in Index
          /\ Held(d) = cache[d] \o Coming(d)
          /\ Coming(d) = IF IsRow(sent[i], d) THEN <<i>> \o r ELSE r
          /\ Held(d)' = cache'[d] \o r
      BY <1>1, HeldType, HeadComing DEF Held
    <2>2. IsRow(sent[i], d) <=> d = Db(i)
      BY <1>1 DEF IsRow, Db
    <2>3. cache'[d] = IF d = Db(i) THEN Append(cache[d], i) ELSE cache[d]
      BY DEF Inv, TypeOK
    <2>4. \A c, t \in Seq(Index) : \A k \in Index : Append(c, k) \o t = c \o (<<k>> \o t)
      BY CacheMove
    <2> HIDE DEF r, i
    <2>5. Append(cache[d], i) \o r = cache[d] \o (<<i>> \o r)
      BY <2>1, <2>4
    <2>6. CASE d = Db(i)
      BY <2>1, <2>2, <2>3, <2>5, <2>6, Zenon
    <2>7. CASE d # Db(i)
      BY <2>1, <2>2, <2>3, <2>7, Zenon
    <2> QED
      BY <2>6, <2>7
  <1> QED
    BY <1>1, <1>2 DEF held

\* Posting and popping are steps of RowDelivery.
LEMMA PostHeld ==
    ASSUME Inv, NEW a \in Alarms, Post(a)
    PROVE  Delivery!Post(a)
  <1>1. UNCHANGED <<next, cache, table>>
    BY DEF Post, memory, mysql
  <1>2. ASSUME NEW d \in Dbs
        PROVE  Held(d)' = Held(d)
    BY <1>1, PostComing DEF Held, Coming
  <1>3. held' = held
    BY <1>2 DEF held
  <1> QED
    BY <1>1, <1>3 DEF Post, Delivery!Post, held

\* A pop is RowDelivery's: the row is held from then on.
LEMMA FetchHeld ==
    ASSUME Inv, Fetch
    PROVE  Delivery!Take
  <1> DEFINE a == sent[next + 1]
  <1>1. /\ next + 1 \in Index /\ a.db \in Dbs
        /\ next' = next + 1 /\ next < Len(sent)
        /\ UNCHANGED <<sent, cache, table>>
    BY LenProperties, AlarmType DEF Inv, TypeOK, Fetch, Index, mysql, Db
  <1>2. ASSUME NEW d \in Dbs
        PROVE  Held(d)' = IF IsRow(a, d) THEN Append(Held(d), next + 1) ELSE Held(d)
    <2>1. /\ cache[d] \in Seq(Index) /\ Coming(d) \in Seq(Index)
          /\ Held(d) = cache[d] \o Coming(d) /\ Held(d)' = cache[d] \o Coming(d)'
      BY <1>1, HeldType DEF Held, Coming
    <2>2. Coming(d)' = IF IsRow(a, d) THEN Append(Coming(d), next + 1) ELSE Coming(d)
      BY FetchComing
    <2>3. \A c, t \in Seq(Index) : \A k \in Index : c \o Append(t, k) = Append(c \o t, k)
      BY HeldAppend
    <2> HIDE DEF a
    <2> QED
      BY <1>1, <2>1, <2>2, <2>3
  <1>3. held' = IF Delivery!Handled(a) THEN [held EXCEPT ![a.db] = Append(@, next + 1)] ELSE held
    <2>1. held' = [d \in Dbs |-> IF IsRow(a, d) THEN Append(Held(d), next + 1) ELSE Held(d)]
      BY <1>2 DEF held
    <2>2. \A d \in Dbs : IsRow(a, d) <=> Delivery!Handled(a) /\ d = a.db
      BY DEF IsRow, Delivery!Handled
    <2> HIDE DEF a
    <2> QED
      BY <1>1, <2>1, <2>2 DEF held
  <1> QED
    BY <1>1, <1>3 DEF Delivery!Take, held

\* A process that was killed, or whose INSERT raised, holds nothing.
LEMMA DieHeld ==
    ASSUME Die
    PROVE  held' = Delivery!NothingHeld
  <1>1. ASSUME NEW d \in Dbs
        PROVE  Held(d)' = <<>>
    <2>1. cache'[d] = <<>> /\ Coming(d)' = <<>>
      BY NoneComing DEF Die, Seqs
    <2>2. <<>> \o <<>> = <<>>
      OBVIOUS
    <2> QED
      BY <2>1, <2>2 DEF Held, Coming
  <1> QED
    BY <1>1 DEF held, Delivery!NothingHeld

\* The death of the process is the crash RowDelivery allows.
LEMMA DieIsCrash ==
    ASSUME Die, UNCHANGED <<sent, next, table>>
    PROVE  Delivery!Next
  BY DieHeld DEF Delivery!Next, Delivery!Crash, held

\* The cache of d is the oldest of what is held for d.
LEMMA CacheIsFirst ==
    ASSUME Inv, NEW d \in Dbs
    PROVE  /\ Len(held[d]) \in Nat /\ Len(cache[d]) \in 0..Len(held[d])
           /\ SubSeq(held[d], 1, Len(cache[d])) = cache[d]
           /\ SubSeq(held[d], Len(cache[d]) + 1, Len(held[d])) = Coming(d)
  <1>1. /\ held[d] = cache[d] \o Coming(d)
        /\ cache[d] \in Seq(Index) /\ Coming(d) \in Seq(Index)
    BY HeldType DEF held
  <1>2. \A c, r \in Seq(Index) :
            /\ Len(c \o r) \in Nat /\ Len(c) \in 0..Len(c \o r)
            /\ SubSeq(c \o r, 1, Len(c)) = c
            /\ SubSeq(c \o r, Len(c) + 1, Len(c \o r)) = r
    BY SplitCache, Zenon
  <1> DEFINE c == cache[d]
             r == Coming(d)
  <1>3. c \in Seq(Index) /\ r \in Seq(Index) /\ held[d] = c \o r
    BY <1>1
  <1> HIDE DEF c, r
  <1>4. /\ Len(c \o r) \in Nat /\ Len(c) \in 0..Len(c \o r)
        /\ SubSeq(c \o r, 1, Len(c)) = c
        /\ SubSeq(c \o r, Len(c) + 1, Len(c \o r)) = r
    BY <1>2, <1>3, Zenon
  <1>5. /\ Len(held[d]) \in Nat /\ Len(c) \in 0..Len(held[d])
        /\ SubSeq(held[d], 1, Len(c)) = c
        /\ SubSeq(held[d], Len(c) + 1, Len(held[d])) = r
    BY <1>3, <1>4, Zenon
  <1> QED
    BY <1>5, Zenon DEF c, r

\* A flush saves the rows of the cache.
LEMMA FlushHeld ==
    ASSUME Inv, NEW d \in Dbs, MultiInsert(d), UNCHANGED <<sent, next, batch>>
    PROVE  Delivery!Next \/ UNCHANGED <<sent, next, held, table>>
  <1> DEFINE n == Len(cache[d])
  <1>1. /\ Len(held[d]) \in Nat /\ n \in 0..Len(held[d])
        /\ SubSeq(held[d], 1, n) = cache[d]
        /\ SubSeq(held[d], n + 1, Len(held[d])) = Coming(d)
        /\ cache \in [Dbs -> Seq(Index)] /\ table \in [Dbs -> Seq(Index)]
    BY CacheIsFirst DEF Inv, TypeOK
  <1>2. table' = [table EXCEPT ![d] = @ \o cache[d]] /\ cache' = [cache EXCEPT ![d] = <<>>]
    BY DEF MultiInsert, Inserted
  <1>3. ASSUME NEW e \in Dbs
        PROVE  Held(e)' = IF e = d THEN Coming(e) ELSE Held(e)
    <2>1. Held(e)' = cache'[e] \o Coming(e) /\ Held(e) = cache[e] \o Coming(e)
      BY DEF Held, Coming
    <2>2. Coming(e) \in Seq(Index)
      BY HeldType
    <2>3. <<>> \o Coming(e) = Coming(e)
      BY <2>2, ConcatEmptySeq
    <2>4. cache'[e] = IF e = d THEN <<>> ELSE cache[e]
      BY <1>1, <1>2
    <2> QED
      BY <2>1, <2>3, <2>4
  <1>4. held' = [held EXCEPT ![d] = SubSeq(@, n + 1, Len(@))]
    <2>1. held' = [e \in Dbs |-> IF e = d THEN Coming(e) ELSE Held(e)]
      BY <1>3 DEF held
    <2>2. held' = [held EXCEPT ![d] = Coming(d)]
      BY <2>1 DEF held
    <2> QED
      BY <1>1, <2>2
  <1>5. Delivery!Save(d, n)
    <2>1. table' = [table EXCEPT ![d] = @ \o SubSeq(held[d], 1, n)]
      BY <1>1, <1>2
    <2> HIDE DEF n
    <2> QED
      BY <1>4, <2>1 DEF Delivery!Save, held
  <1>6. CASE n = 0
    <2>1. cache[d] = <<>>
      BY <1>1, <1>6, EmptySeq
    <2>2. cache' = cache
      BY <1>1, <1>2, <2>1
    <2>3. table[d] \o <<>> = table[d]
      BY <1>1, ConcatEmptySeq
    <2>4. table' = table
      BY <1>1, <1>2, <2>1, <2>3
    <2> QED
      BY <2>2, <2>4, SameHeld
  <1>7. CASE n # 0
    <2>1. n \in 1..Len(held[d])
      BY <1>1, <1>7
    <2> HIDE DEF n
    <2> QED
      BY <1>5, <2>1 DEF Delivery!Next, held
  <1> QED
    BY <1>6, <1>7

\* A flush that raises may have saved them first.
LEMMA FlushRaiseHeld ==
    ASSUME Inv, ~CatchesErrors, NEW d \in Dbs, MultiInsertRaises(d),
           UNCHANGED <<sent, next>>
    PROVE  Delivery!Next
  <1>1. Die /\ (UNCHANGED table \/ table' = Inserted(d))
    BY DEF MultiInsertRaises, Raise
  <1>2. CASE UNCHANGED table
    BY <1>1, <1>2, DieIsCrash
  <1>3. CASE table' = Inserted(d) /\ table' # table
    <2> DEFINE n == Len(cache[d])
    <2>1. /\ n \in 0..Len(held[d]) /\ Len(held[d]) \in Nat
          /\ SubSeq(held[d], 1, n) = cache[d]
          /\ cache[d] \in Seq(Index) /\ table \in [Dbs -> Seq(Index)]
      BY CacheIsFirst DEF Inv, TypeOK
    <2>2. table' = [table EXCEPT ![d] = @ \o SubSeq(held[d], 1, n)]
      BY <1>3, <2>1 DEF Inserted
    <2>3. n # 0
      <3> SUFFICES ASSUME n = 0 PROVE FALSE
        OBVIOUS
      <3>1. cache[d] = <<>>
        BY <2>1, EmptySeq
      <3>2. table[d] \o <<>> = table[d]
        BY <2>1, ConcatEmptySeq
      <3> QED
        BY <1>3, <2>1, <3>1, <3>2 DEF Inserted
    <2>4. n \in 1..Len(held[d])
      BY <2>1, <2>3
    <2>5. held' = Delivery!NothingHeld
      BY <1>1, DieHeld
    <2> HIDE DEF n
    <2>6. Delivery!Crash
      BY <2>2, <2>4, <2>5 DEF Delivery!Crash, held
    <2> QED
      BY <2>6 DEF Delivery!Next
  <1> QED
    BY <1>1, <1>2, <1>3

\* Every step of a process that an exception ends is a step of RowDelivery or
\* leaves it as it is.
LEMMA StepHeld == Inv /\ ~CatchesErrors /\ [Next]_vars => [Delivery!Next]_(Delivery!vars)
  <1> SUFFICES ASSUME Inv, ~CatchesErrors, [Next]_vars
               PROVE  Delivery!Next \/ UNCHANGED <<sent, next, held, table>>
    BY DEF Delivery!vars, held
  <1>1. ASSUME NEW a \in Alarms, Post(a)
        PROVE  Delivery!Next
    BY <1>1, PostHeld DEF Delivery!Next
  <1>2. CASE Fetch
    BY <1>2, FetchHeld DEF Delivery!Next
  <1>3. CASE Skip
    BY <1>3, SkipHeld
  <1>4. CASE CacheRow
    <2>1. UNCHANGED <<sent, next, table>>
      BY <1>4 DEF CacheRow, mysql
    <2>2. \/ Die
          \/ /\ batch' = Tail(batch)
             /\ cache' = [cache EXCEPT ![Db(Head(batch))] = Append(@, Head(batch))]
      BY <1>4 DEF CacheRow, Raise
    <2> QED
      BY <1>4, <2>1, <2>2, DieIsCrash, CacheRowHeld
  <1>5. CASE Tag \/ Ip
    <2>1. UNCHANGED <<sent, next, table>>
      BY <1>5 DEF Tag, Ip, mysql
    <2>2. Die \/ UNCHANGED <<batch, cache>>
      BY <1>5 DEF Tag, Ip, Raise
    <2> QED
      BY <2>1, <2>2, DieIsCrash, SameHeld
  <1>6. CASE Store
    <2>1. UNCHANGED <<sent, next>> /\ Db(row) \in Dbs
      BY <1>6, AlarmType DEF Store, Inv, TypeOK
    <2>2. \/ MultiInsert(Db(row)) /\ UNCHANGED batch
          \/ MultiInsertRaises(Db(row))
          \/ UNCHANGED <<batch, cache, table>>
      BY <1>6 DEF Store, mysql
    <2> QED
      BY <2>1, <2>2, FlushHeld, FlushRaiseHeld, SameHeld
  <1>7. CASE Sweep
    <2>1. UNCHANGED <<sent, next>>
      BY <1>7 DEF Sweep
    <2>2. \/ \E d \in Dbs : \/ MultiInsert(d) /\ UNCHANGED batch
                            \/ MultiInsertRaises(d)
          \/ UNCHANGED <<batch, cache, table>>
      BY <1>7 DEF Sweep, mysql
    <2> QED
      BY <2>1, <2>2, FlushHeld, FlushRaiseHeld, SameHeld
  <1>8. CASE Kill
    BY <1>8, DieIsCrash DEF Kill, mysql
  <1>11. CASE FetchRaises
    BY <1>11, FetchRaisesIs, DieIsCrash DEF mysql
  <1>9. CASE Restart \/ \E d \in Dbs : Remake(d)
    BY <1>9, SameHeld DEF Restart, Remake, memory, mysql
  <1>10. CASE UNCHANGED vars
    BY <1>10, SameHeld DEF vars, memory, mysql
  <1> QED
    BY <1>1, <1>2, <1>3, <1>4, <1>5, <1>6, <1>7, <1>8, <1>9, <1>10, <1>11 DEF Next, Process

\* RowDelivery starts with an empty list, memory and table as well.
LEMMA InitHeld == Init => Delivery!Init
  <1> SUFFICES ASSUME Init PROVE Delivery!Init
    OBVIOUS
  <1>1. ASSUME NEW d \in Dbs
        PROVE  Held(d) = <<>>
    <2>1. cache[d] = <<>> /\ RowsOf(sent, batch, d) = <<>>
      BY RowsEmpty DEF Init, Seqs
    <2> QED
      BY <2>1 DEF Held
  <1> QED
    BY <1>1 DEF Init, Delivery!Init, Delivery!NothingHeld, Seqs

\* Every caching consumer that an exception ends implements RowDelivery: a row is
\* in the batch, then in a cache, then in the table, and a flush that raises takes
\* what was held with it (metrics_counter_consumer.py:55-140).
THEOREM Implements == Spec => DeliverySpec
  <1>1. Inv /\ [Next]_vars => [CatchesErrors \/ Delivery!Next]_(Delivery!vars)
    BY StepHeld
  <1>2. Init => CatchesErrors \/ Delivery!Init
    BY InitHeld
  <1> QED
    BY <1>1, <1>2, InitInv, StepInv, PTL DEF Spec, DeliverySpec

\* So the table of every database has each row at most once and in the order in
\* which the alarms were posted, before those in memory, whatever the process is
\* killed by (metrics_counter_consumer.py:55-140).
COROLLARY RowsInOrder == Spec => [](CatchesErrors \/ Delivery!InOrder)
  <1>1. Abstract!Init <=> Delivery!Init
    BY DEF Abstract!Init, Delivery!Init, Abstract!NothingHeld, Delivery!NothingHeld, held
  <1>2. [Delivery!Next]_(Delivery!vars) => [Abstract!Next]_(Abstract!vars)
    BY DEF Delivery!Next, Abstract!Next, Delivery!vars, Abstract!vars, held,
           Delivery!Post, Abstract!Post, Delivery!Take, Abstract!Take,
           Delivery!Handled, Abstract!Handled, Delivery!Save, Abstract!Save,
           Delivery!Crash, Abstract!Crash, Delivery!NothingHeld, Abstract!NothingHeld
  <1>3. Abstract!InOrder => Delivery!InOrder
    BY DEF Abstract!InOrder, Delivery!InOrder, held
  <1>4. Abstract!Spec => []Abstract!InOrder
    BY Abstract!StoredInOrder
  <1>5. [Next]_vars => (CatchesErrors' <=> CatchesErrors)
    BY DEF Next, Post, Process, FetchRaises, Kill, Restart, Remake, vars, CatchesErrors
  <1>6. Inv /\ [Next]_vars => [CatchesErrors \/ Delivery!Next]_(Delivery!vars)
    BY StepHeld
  <1> QED
    BY <1>1, <1>2, <1>3, <1>4, <1>5, <1>6, StepHeld, InitHeld, InitInv, StepInv, PTL
    DEF Spec, Abstract!Spec
-----------------------------------------------------------------------------
\* What the elements of a sequence are.
LEMMA ElementsType ==
    ASSUME NEW S
    PROVE  \A s \in Seq(S) : ToSet(s) \subseteq S /\ ToSet(<<>>) = {}
  BY ElementOfSeq, LenProperties DEF ToSet

\* Appending adds one element.
LEMMA AppendSet ==
    ASSUME NEW S
    PROVE  \A s \in Seq(S) : \A i \in S : ToSet(Append(s, i)) = ToSet(s) \cup {i}
  <1> SUFFICES ASSUME NEW s \in Seq(S), NEW i \in S
               PROVE  ToSet(Append(s, i)) = ToSet(s) \cup {i}
    OBVIOUS
  <1> DEFINE t == Append(s, i)
  <1>1. /\ Len(s) \in Nat /\ DOMAIN s = 1..Len(s) /\ DOMAIN t = 1..(Len(s) + 1)
        /\ \A k \in 1..Len(s) : t[k] = s[k]
        /\ t[Len(s) + 1] = i
    BY AppendProperties, LenProperties
  <1> HIDE DEF t
  <1>2. \A k \in DOMAIN t : k \in DOMAIN s \/ k = Len(s) + 1
    BY <1>1
  <1>3. DOMAIN s \subseteq DOMAIN t /\ Len(s) + 1 \in DOMAIN t
    BY <1>1
  <1>4. ToSet(t) = ToSet(s) \cup {i}
    BY <1>1, <1>2, <1>3 DEF ToSet
  <1> QED
    BY <1>4 DEF t

\* The elements of two sequences together.
LEMMA ConcatSet ==
    ASSUME NEW S
    PROVE  \A s, t \in Seq(S) : ToSet(s \o t) = ToSet(s) \cup ToSet(t)
  <1> SUFFICES ASSUME NEW s \in Seq(S), NEW t \in Seq(S)
               PROVE  ToSet(s \o t) = ToSet(s) \cup ToSet(t)
    OBVIOUS
  <1> DEFINE u == s \o t
             m == Len(s)
             n == Len(t)
  <1>1. /\ m \in Nat /\ n \in Nat
        /\ DOMAIN s = 1..m /\ DOMAIN t = 1..n /\ DOMAIN u = 1..(m + n)
        /\ \A k \in 1..(m + n) : u[k] = IF k <= m THEN s[k] ELSE t[k - m]
    BY ConcatProperties, LenProperties
  <1> HIDE DEF u, m, n
  <1>2. \A k \in 1..m : k \in 1..(m + n) /\ k <= m
    BY <1>1
  <1>3. \A k \in 1..n : k + m \in 1..(m + n) /\ ~(k + m <= m) /\ (k + m) - m = k
    BY <1>1
  <1>4. \A k \in 1..(m + n) : (k \in 1..m /\ k <= m) \/ (k - m \in 1..n /\ ~(k <= m))
    BY <1>1
  <1>5. ToSet(s) \subseteq ToSet(u)
    BY <1>1, <1>2 DEF ToSet
  <1>6. ASSUME NEW k \in 1..n
        PROVE  t[k] \in ToSet(u)
    <2>1. u[k + m] = t[k] /\ k + m \in DOMAIN u
      BY <1>1, <1>3
    <2> QED
      BY <2>1 DEF ToSet
  <1>7. ASSUME NEW k \in 1..(m + n)
        PROVE  u[k] \in ToSet(s) \cup ToSet(t)
    <2>1. CASE k \in 1..m /\ k <= m
      BY <1>1, <2>1 DEF ToSet
    <2>2. CASE k - m \in 1..n /\ ~(k <= m)
      BY <1>1, <2>2 DEF ToSet
    <2> QED
      BY <1>4, <2>1, <2>2
  <1>8. ToSet(u) = ToSet(s) \cup ToSet(t)
    <2>1. ToSet(t) \subseteq ToSet(u)
      BY <1>1, <1>6 DEF ToSet
    <2>2. ToSet(u) \subseteq ToSet(s) \cup ToSet(t)
      BY <1>1, <1>7 DEF ToSet
    <2> QED
      BY <1>5, <2>1, <2>2
  <1> QED
    BY <1>8 DEF u

\* A row that reached a cache leaves it for its table or with the process: no
\* step of a process that lives on drops it (metrics_counter_consumer.py:138-140).
THEOREM CachesAreKept == Spec => CacheKept
  <1>1. Inv /\ [Next]_vars =>
          (pc' # "dead" => \A d \in Dbs :
             ToSet(cache[d]) \subseteq ToSet(cache'[d]) \cup ToSet(table'[d]))
    <2> SUFFICES ASSUME Inv, [Next]_vars, pc' # "dead", NEW d \in Dbs
                 PROVE  ToSet(cache[d]) \subseteq ToSet(cache'[d]) \cup ToSet(table'[d])
      OBVIOUS
    <2>0. /\ cache \in [Dbs -> Seq(Index)] /\ table \in [Dbs -> Seq(Index)]
      BY DEF Inv, TypeOK
    <2>1. CASE cache'[d] = cache[d]
      BY <2>1
    <2>2. CASE \E i \in Index : cache'[d] = Append(cache[d], i)
      BY <2>0, <2>2, AppendSet
    <2>3. CASE table'[d] = table[d] \o cache[d]
      BY <2>0, <2>3, ConcatSet
    <2>4. \/ cache'[d] = cache[d]
          \/ \E i \in Index : cache'[d] = Append(cache[d], i)
          \/ table'[d] = table[d] \o cache[d]
      <3>1. \A e \in Dbs : MultiInsert(e) \/ MultiInsertRaises(e) =>
               cache'[d] = cache[d] \/ table'[d] = table[d] \o cache[d]
        <4> SUFFICES ASSUME NEW e \in Dbs, MultiInsert(e) \/ MultiInsertRaises(e)
                     PROVE  cache'[d] = cache[d] \/ table'[d] = table[d] \o cache[d]
          OBVIOUS
        <4>1. CASE MultiInsert(e)
          BY <2>0, <4>1 DEF MultiInsert, Inserted
        <4>2. CASE MultiInsertRaises(e)
          BY <4>2 DEF MultiInsertRaises, Raise, Die
        <4> QED
          BY <4>1, <4>2
      <3>2. CASE CacheRow
        <4> DEFINE i == Head(batch)
        <4>1. i \in Index
          BY <3>2, BatchTail DEF CacheRow, Inv, BatchFits
        <4>2. cache' = [cache EXCEPT ![Db(i)] = Append(@, i)]
          BY <3>2 DEF CacheRow, Raise, Die
        <4> HIDE DEF i
        <4> QED
          BY <2>0, <4>1, <4>2
      <3>3. CASE Store
        <4>1. Db(row) \in Dbs
          BY <3>3, AlarmType DEF Store, Inv, TypeOK
        <4> QED
          BY <3>1, <3>3, <4>1 DEF Store
      <3>4. CASE Sweep
        BY <3>1, <3>4 DEF Sweep
      <3>5. CASE Tag \/ Ip \/ Fetch \/ FetchRaises \/ Skip
        BY <3>5 DEF Tag, Ip, Fetch, FetchRaises, Skip, Raise, Die
      <3>6. CASE \/ \E a \in Alarms : Post(a)
                 \/ Kill \/ Restart \/ (\E e \in Dbs : Remake(e))
                 \/ UNCHANGED vars
        BY <3>6 DEF Post, Kill, Die, Restart, Remake, vars, memory
      <3> QED
        BY <3>2, <3>3, <3>4, <3>5, <3>6 DEF Next, Process
    <2> QED
      BY <2>1, <2>2, <2>3, <2>4
  <1> QED
    BY <1>1, InitInv, StepInv, PTL DEF Spec, CacheKept
-----------------------------------------------------------------------------
\* A set that grows by one element at most.
LEMMA GrowsByOne ==
    ASSUME NEW A, IsFiniteSet(A), NEW B, NEW x, B \subseteq A \cup {x}
    PROVE  /\ IsFiniteSet(B) /\ Cardinality(A) \in Nat /\ Cardinality(B) \in Nat
           /\ Cardinality(B) <= Cardinality(A) + 1
           /\ B \subseteq A => Cardinality(B) <= Cardinality(A)
  <1>1. /\ IsFiniteSet(A \cup {x}) /\ Cardinality(A) \in Nat
        /\ Cardinality(A \cup {x}) \in {Cardinality(A), Cardinality(A) + 1}
    BY FS_AddElement, FS_CardinalityType
  <1>2. /\ IsFiniteSet(B) /\ Cardinality(B) <= Cardinality(A \cup {x})
        /\ Cardinality(B) \in Nat
    BY <1>1, FS_Subset, FS_CardinalityType
  <1>3. B \subseteq A => Cardinality(B) <= Cardinality(A)
    BY FS_Subset
  <1> QED
    BY <1>1, <1>2, <1>3

\* Where i is in s.
Places(i, s) == {k \in DOMAIN s : s[k] = i}

\* A sequence has finitely many places for a row, and none for one that is not in it.
LEMMA PlacesFinite ==
    ASSUME NEW S, NEW s \in Seq(S), NEW i
    PROVE  /\ IsFiniteSet(Places(i, s)) /\ Repeats(i, s) = Cardinality(Places(i, s))
           /\ Repeats(i, s) \in Nat
           /\ i \notin ToSet(s) => Repeats(i, s) = 0
  <1>1. Len(s) \in Nat /\ DOMAIN s = 1..Len(s)
    BY LenProperties
  <1>2. IsFiniteSet(1..Len(s)) /\ Places(i, s) \subseteq 1..Len(s)
    BY <1>1, FS_Interval DEF Places
  <1>3. IsFiniteSet(Places(i, s))
    BY <1>2, FS_Subset
  <1>4. Cardinality(Places(i, s)) \in Nat
    BY <1>3, FS_CardinalityType
  <1>5. ASSUME i \notin ToSet(s)
        PROVE  Places(i, s) = {}
    BY <1>5 DEF ToSet, Places
  <1> QED
    BY <1>3, <1>4, <1>5, FS_EmptySet DEF Repeats, Places

\* Rows that are cached once are inserted once.
Distinct(c) == \A j, k \in DOMAIN c : c[j] = c[k] => j = k

\* A flush adds each cached row once to the table, and no other.
LEMMA RepeatsConcat ==
    ASSUME NEW S, NEW t \in Seq(S), NEW c \in Seq(S), Distinct(c), NEW i
    PROVE  /\ Repeats(i, t \o c) <= Repeats(i, t) + 1
           /\ i \notin ToSet(c) => Repeats(i, t \o c) <= Repeats(i, t)
  <1> DEFINE u == t \o c
             m == Len(t)
             n == Len(c)
  <1>1. /\ m \in Nat /\ n \in Nat /\ u \in Seq(S)
        /\ DOMAIN t = 1..m /\ DOMAIN c = 1..n /\ DOMAIN u = 1..(m + n)
        /\ \A k \in 1..(m + n) : u[k] = IF k <= m THEN t[k] ELSE c[k - m]
    BY ConcatProperties, LenProperties
  <1>2. /\ IsFiniteSet(Places(i, t)) /\ Repeats(i, t) = Cardinality(Places(i, t))
        /\ Repeats(i, u) = Cardinality(Places(i, u))
    BY <1>1, PlacesFinite
  <1> HIDE DEF u, m, n
  <1>3. \A k \in 1..(m + n) : \/ k \in 1..m /\ k <= m
                              \/ k - m \in 1..n /\ ~(k <= m) /\ (k - m) + m = k
    BY <1>1
  <1>4. ASSUME NEW k \in Places(i, u)
        PROVE  k \in Places(i, t) \/ \E j \in Places(i, c) : k = j + m
    <2>1. k \in 1..(m + n) /\ u[k] = i
      BY <1>1 DEF Places
    <2>2. CASE k \in 1..m /\ k <= m
      BY <1>1, <2>1, <2>2 DEF Places
    <2>3. CASE k - m \in 1..n /\ ~(k <= m) /\ (k - m) + m = k
      <3>1. k - m \in Places(i, c)
        BY <1>1, <2>1, <2>3 DEF Places
      <3> QED
        BY <2>3, <3>1
    <2> QED
      BY <1>3, <2>1, <2>2, <2>3
  <1>5. CASE i \notin ToSet(c)
    <2>1. Places(i, c) = {}
      BY <1>5 DEF ToSet, Places
    <2>2. Places(i, u) \subseteq Places(i, t)
      BY <1>4, <2>1
    <2>3. /\ Cardinality(Places(i, u)) <= Cardinality(Places(i, t))
          /\ Cardinality(Places(i, t)) \in Nat /\ Cardinality(Places(i, u)) \in Nat
      BY <1>2, <2>2, FS_Subset, FS_CardinalityType
    <2>4. Repeats(i, u) <= Repeats(i, t) /\ Repeats(i, u) <= Repeats(i, t) + 1
      BY <1>2, <2>3
    <2> QED
      BY <2>4 DEF u
  <1>6. CASE i \in ToSet(c)
    <2>1. PICK j \in DOMAIN c : c[j] = i
      BY <1>6 DEF ToSet
    <2>2. Places(i, c) = {j}
      BY <2>1 DEF Places, Distinct
    <2>3. Places(i, u) \subseteq Places(i, t) \cup {j + m}
      BY <1>4, <2>2
    <2>4. Cardinality(Places(i, u)) <= Cardinality(Places(i, t)) + 1
      BY <1>2, <2>3, GrowsByOne
    <2> QED
      BY <1>2, <1>6, <2>4 DEF u
  <1> QED
    BY <1>5, <1>6

\* What the caches and the table of a database are when the process has taken n
\* alarms out of its batches: rows in the cache once and in order, and in the table
\* at most once more than there were failures, and than that once more only when
\* they have left the cache.
Ordered(c, t, n, f) ==
    /\ ToSet(c) \subseteq 1..n /\ ToSet(t) \subseteq 1..n
    /\ \A j, k \in DOMAIN c : j < k => c[j] < c[k]
    /\ \A i \in 1..n : Repeats(i, t) <= IF i \in ToSet(c) THEN f ELSE f + 1

\* A cache in the order of the list has no row twice.
LEMMA OrderedDistinct ==
    ASSUME NEW c \in Seq(Nat), NEW t, NEW n, NEW f, Ordered(c, t, n, f)
    PROVE  Distinct(c)
  <1>1. Len(c) \in Nat /\ DOMAIN c = 1..Len(c) /\ \A k \in DOMAIN c : c[k] \in Nat
    BY LenProperties, ElementOfSeq
  <1>2. \A j, k \in DOMAIN c : j = k \/ j < k \/ k < j
    BY <1>1
  <1>3. \A j, k \in DOMAIN c : j < k => c[j] < c[k]
    BY DEF Ordered
  <1> QED
    BY <1>1, <1>2, <1>3 DEF Distinct

\* More alarms taken, and more failures.
LEMMA OrderedLater ==
    ASSUME NEW c \in Seq(Nat), NEW t \in Seq(Nat), NEW n \in Nat, NEW f \in Nat,
           NEW m \in Nat, NEW g \in Nat, n <= m, f <= g, Ordered(c, t, n, f)
    PROVE  Ordered(c, t, m, g)
  <1>1. ToSet(c) \subseteq 1..m /\ ToSet(t) \subseteq 1..m
    BY DEF Ordered
  <1>2. ASSUME NEW i \in 1..m
        PROVE  Repeats(i, t) <= IF i \in ToSet(c) THEN g ELSE g + 1
    <2>1. Repeats(i, t) \in Nat /\ (i \notin ToSet(t) => Repeats(i, t) = 0)
      BY PlacesFinite
    <2>2. CASE i \in 1..n
      BY <2>1, <2>2 DEF Ordered
    <2>3. CASE i \notin 1..n
      BY <2>1, <2>3 DEF Ordered
    <2> QED
      BY <2>2, <2>3
  <1> QED
    BY <1>1, <1>2 DEF Ordered

\* The next alarm taken is cached.
LEMMA OrderedAppend ==
    ASSUME NEW c \in Seq(Nat), NEW t \in Seq(Nat), NEW n \in Nat, NEW f \in Nat,
           Ordered(c, t, n, f)
    PROVE  Ordered(Append(c, n + 1), t, n + 1, f)
  <1> DEFINE e == Append(c, n + 1)
  <1>1. /\ ToSet(e) = ToSet(c) \cup {n + 1}
        /\ Len(c) \in Nat /\ DOMAIN c = 1..Len(c) /\ DOMAIN e = 1..(Len(c) + 1)
        /\ \A k \in 1..Len(c) : e[k] = c[k] /\ c[k] \in 1..n
        /\ e[Len(c) + 1] = n + 1
    <2>1. \A k \in DOMAIN c : c[k] \in 1..n
      BY DEF Ordered, ToSet
    <2>2. \A s \in Seq(Nat) : \A i \in Nat : ToSet(Append(s, i)) = ToSet(s) \cup {i}
      BY AppendSet
    <2> QED
      BY <2>1, <2>2, AppendProperties, LenProperties
  <1> HIDE DEF e
  <1>2. ASSUME NEW j \in DOMAIN e, NEW k \in DOMAIN e, j < k
        PROVE  e[j] < e[k]
    <2>1. CASE k = Len(c) + 1
      <3>1. j \in 1..Len(c)
        BY <1>1, <1>2, <2>1
      <3>2. e[j] \in 1..n /\ e[k] = n + 1
        BY <1>1, <2>1, <3>1
      <3> QED
        BY <3>2
    <2>2. CASE k \in DOMAIN c
      <3>1. j \in DOMAIN c
        BY <1>1, <1>2, <2>2
      <3> QED
        BY <1>1, <1>2, <2>2, <3>1 DEF Ordered
    <2> QED
      BY <1>1, <2>1, <2>2
  <1>3. ToSet(e) \subseteq 1..(n + 1) /\ ToSet(t) \subseteq 1..(n + 1)
    BY <1>1 DEF Ordered
  <1>4. ASSUME NEW i \in 1..(n + 1)
        PROVE  Repeats(i, t) <= IF i \in ToSet(e) THEN f ELSE f + 1
    <2>1. Repeats(i, t) \in Nat /\ (i \notin ToSet(t) => Repeats(i, t) = 0)
      BY PlacesFinite
    <2>2. CASE i = n + 1
      BY <2>1, <2>2 DEF Ordered
    <2>3. CASE i \in 1..n
      BY <1>1, <2>1, <2>3 DEF Ordered
    <2> QED
      BY <2>2, <2>3
  <1>5. Ordered(e, t, n + 1, f)
    BY <1>2, <1>3, <1>4 DEF Ordered
  <1> QED
    BY <1>5 DEF e

\* The cache is inserted, and kept or not.
LEMMA OrderedConcat ==
    ASSUME NEW c \in Seq(Nat), NEW t \in Seq(Nat), NEW n \in Nat, NEW f \in Nat,
           Ordered(c, t, n, f)
    PROVE  /\ Ordered(<<>>, t \o c, n, f)
           /\ Ordered(c, t \o c, n, f + 1)
  <1> DEFINE u == t \o c
  <1>1. ToSet(u) = ToSet(t) \cup ToSet(c) /\ u \in Seq(Nat)
    BY ConcatSet, ConcatProperties
  <1>2. ASSUME NEW i \in 1..n
        PROVE  Repeats(i, u) <= f + 1
    <2>1. /\ Repeats(i, t) \in Nat /\ Repeats(i, u) \in Nat
      BY <1>1, PlacesFinite
    <2>2. /\ Repeats(i, u) <= Repeats(i, t) + 1
          /\ i \notin ToSet(c) => Repeats(i, u) <= Repeats(i, t)
      BY OrderedDistinct, RepeatsConcat
    <2> HIDE DEF u
    <2>3. Repeats(i, t) <= IF i \in ToSet(c) THEN f ELSE f + 1
      BY DEF Ordered
    <2> QED
      BY <2>1, <2>2, <2>3
  <1>3. ToSet(<<>>) = {} /\ DOMAIN <<>> = {}
    BY DEF ToSet
  <1> HIDE DEF u
  <1>4. Ordered(<<>>, u, n, f)
    BY <1>1, <1>2, <1>3 DEF Ordered
  <1>5. Ordered(c, u, n, f + 1)
    <2>1. \A i \in 1..n : Repeats(i, u) \in Nat
      BY <1>1, PlacesFinite
    <2> QED
      BY <1>1, <1>2, <2>1 DEF Ordered
  <1> QED
    BY <1>4, <1>5 DEF u

\* The cache is lost.
LEMMA OrderedLose ==
    ASSUME NEW c \in Seq(Nat), NEW t \in Seq(Nat), NEW n \in Nat, NEW f \in Nat,
           Ordered(c, t, n, f)
    PROVE  Ordered(<<>>, t, n, f)
  <1>1. ToSet(<<>>) = {} /\ DOMAIN <<>> = {}
    BY DEF ToSet
  <1>2. \A i \in 1..n : Repeats(i, t) \in Nat
    BY PlacesFinite
  <1> QED
    BY <1>1, <1>2 DEF Ordered

\* The alarms taken out of the batches, and those in the batch, which follow.
Done == next - Len(batch)
InSequence ==
    /\ Len(batch) <= next
    /\ \A k \in DOMAIN batch : batch[k] = Done + k
Order ==
    /\ InSequence
    /\ \A d \in Dbs : Ordered(cache[d], table[d], Done, failures)

NatSeqs == \A d \in Dbs : cache[d] \in Seq(Nat) /\ table[d] \in Seq(Nat)

\* Types for the arithmetic of the order.
LEMMA OrderType ==
    ASSUME Inv
    PROVE  /\ next \in Nat /\ Len(batch) \in Nat /\ failures \in Nat
           /\ \A d \in Dbs : cache[d] \in Seq(Nat) /\ table[d] \in Seq(Nat)
           /\ InSequence => Done \in Nat /\ Done <= next
  <1>1. /\ next \in Nat /\ Len(batch) \in Nat /\ failures \in Nat
    BY LenProperties DEF Inv, TypeOK
  <1>2. Index \subseteq Nat
    BY LenProperties DEF Inv, TypeOK, Index
  <1>3. Seq(Index) \subseteq Seq(Nat)
    BY <1>2, SeqMonotonic
  <1>4. \A d \in Dbs : cache[d] \in Seq(Nat) /\ table[d] \in Seq(Nat)
    BY <1>3 DEF Inv, TypeOK
  <1>5. InSequence => Done \in Nat /\ Done <= next
    BY <1>1 DEF InSequence, Done
  <1> QED
    BY <1>1, <1>4, <1>5

\* Caches and tables are sequences of numbers, in this state and the next.
LEMMA RowsAreNats == Inv => NatSeqs
  BY OrderType DEF NatSeqs

\* A step that moves no row keeps the order.
LEMMA SameOrder ==
    ASSUME Order, UNCHANGED <<next, batch, cache, table, failures>>
    PROVE  Order'
  BY DEF Order, InSequence, Done

\* An alarm that is popped follows the others in the batch.
LEMMA FetchOrder ==
    ASSUME Inv, Order, Fetch
    PROVE  Order'
  <1> DEFINE m == Len(batch)
  <1>1. /\ m \in Nat /\ next \in Nat /\ m <= next /\ DOMAIN batch = 1..m
        /\ \A k \in 1..m : batch[k] = (next - m) + k
    BY OrderType, LenProperties DEF Order, InSequence, Done, Inv, TypeOK
  <1>2. /\ Len(batch') = m + 1 /\ next' = next + 1 /\ DOMAIN batch' = 1..(m + 1)
        /\ \A k \in 1..m : batch'[k] = batch[k]
        /\ batch'[m + 1] = next + 1
    <2>1. next + 1 \in Index /\ batch \in Seq(Index) /\ batch' = Append(batch, next + 1)
      BY LenProperties DEF Inv, TypeOK, Fetch, Index
    <2> QED
      BY <2>1, AppendProperties, LenProperties DEF Fetch
  <1> HIDE DEF m
  <1>3. (next + 1) - (m + 1) = next - m /\ (next - m) + (m + 1) = next + 1 /\ m + 1 <= next + 1
    BY <1>1
  <1>4. \A k \in 1..(m + 1) : batch'[k] = (next - m) + k
    <2>1. \A k \in 1..(m + 1) : k \in 1..m \/ k = m + 1
      BY <1>1
    <2> QED
      BY <1>1, <1>2, <1>3, <2>1
  <1>5. InSequence' /\ Done' = Done
    BY <1>2, <1>3, <1>4 DEF InSequence, Done, m
  <1>6. UNCHANGED <<cache, table, failures>>
    BY DEF Fetch, mysql
  <1> QED
    BY <1>5, <1>6 DEF Order

\* An alarm is taken out of the batch, and its row cached or not.
LEMMA TakeOrder ==
    ASSUME Inv, Order, pc = "row", batch' = Tail(batch), UNCHANGED <<next, table, failures>>,
           \/ UNCHANGED cache
           \/ cache' = [cache EXCEPT ![Db(Head(batch))] = Append(@, Head(batch))]
    PROVE  Order'
  <1> DEFINE m == Len(batch)
  <1>1. /\ m \in Nat \ {0} /\ next \in Nat /\ m <= next /\ DOMAIN batch = 1..m
        /\ \A k \in 1..m : batch[k] = (next - m) + k
        /\ batch \in Seq(Index) /\ batch # <<>>
    BY OrderType, LenProperties, EmptySeq DEF Order, InSequence, Done, Inv, TypeOK, BatchFits
  <1>2. /\ Head(batch) = batch[1] /\ Len(batch') = m - 1 /\ DOMAIN batch' = 1..(m - 1)
        /\ \A k \in 1..(m - 1) : batch'[k] = batch[k + 1]
    BY <1>1, HeadTailProperties, LenProperties
  <1> HIDE DEF m
  <1>3. /\ next - (m - 1) = (next - m) + 1 /\ m - 1 <= next
        /\ \A k \in 1..(m - 1) : k + 1 \in 1..m /\ (next - m) + (k + 1) = (next - (m - 1)) + k
    BY <1>1
  <1>4. \A k \in 1..(m - 1) : batch'[k] = (next - (m - 1)) + k
    BY <1>1, <1>2, <1>3
  <1>5. InSequence' /\ Done' = Done + 1 /\ Head(batch) = Done + 1 /\ Done \in Nat
    <2>1. 1 \in 1..m /\ next - m \in Nat
      BY <1>1
    <2>2. Head(batch) = (next - m) + 1
      BY <1>1, <1>2, <2>1
    <2> QED
      BY <1>2, <1>3, <1>4, <2>1, <2>2 DEF InSequence, Done, m
  <1>6. ASSUME NEW d \in Dbs
        PROVE  Ordered(cache[d], table[d], Done, failures) /\ cache[d] \in Seq(Nat)
               /\ table[d] \in Seq(Nat) /\ failures \in Nat
    BY OrderType DEF Order
  <1>7. ASSUME NEW d \in Dbs
        PROVE  Ordered(cache'[d], table'[d], Done', failures')
    <2>1. cache'[d] = cache[d] \/ cache'[d] = Append(cache[d], Done + 1)
      BY <1>5 DEF Inv, TypeOK
    <2>2. Ordered(Append(cache[d], Done + 1), table[d], Done + 1, failures)
      BY <1>5, <1>6, OrderedAppend
    <2>3. Ordered(cache[d], table[d], Done + 1, failures)
      <3>1. Done + 1 \in Nat /\ Done <= Done + 1 /\ failures <= failures
        BY <1>5, <1>6
      <3> QED
        BY <1>5, <1>6, <3>1, OrderedLater
    <2> QED
      BY <1>5, <2>1, <2>2, <2>3
  <1> QED
    BY <1>5, <1>7 DEF Order

\* The rest of the batch is lost, and one failure counted.
LEMMA RaiseOrder ==
    ASSUME Inv, Inv', Order, batch' = <<>>, UNCHANGED next, failures' = failures + 1,
           \A d \in Dbs : \E m \in 0..next : Ordered(cache'[d], table'[d], m, failures')
    PROVE  Order'
  <1>1. /\ next \in Nat /\ Len(batch') = 0 /\ DOMAIN batch' = {} /\ Done' = next
        /\ failures' \in Nat
    BY OrderType, Empty DEF Done
  <1>2. InSequence'
    BY <1>1 DEF InSequence
  <1>3. \A d \in Dbs : cache'[d] \in Seq(Nat) /\ table'[d] \in Seq(Nat)
    <2>1. NatSeqs'
      BY RowsAreNats, PTL
    <2> QED
      BY <2>1 DEF NatSeqs
  <1>4. ASSUME NEW d \in Dbs
        PROVE  Ordered(cache'[d], table'[d], next, failures')
    <2>1. PICK m \in 0..next : Ordered(cache'[d], table'[d], m, failures')
      OBVIOUS
    <2>2. m \in Nat /\ m <= next /\ failures' <= failures'
      BY <1>1
    <2> QED
      BY <1>1, <1>3, <2>1, <2>2, OrderedLater
  <1> QED
    BY <1>1, <1>2, <1>4 DEF Order

\* An exception or a kill, with or without the INSERT.
LEMMA LoseOrder ==
    ASSUME Inv, Inv', Order, batch' = <<>>, UNCHANGED next, failures' = failures + 1,
           \/ cache' \in {cache, Seqs} /\ UNCHANGED table
           \/ cache' \in {cache, Seqs} /\ \E e \in Dbs : table' = Inserted(e)
    PROVE  Order'
  <1>1. Done \in Nat /\ Done <= next /\ next \in Nat /\ failures \in Nat /\ Done \in 0..next
    BY OrderType DEF Order
  <1>2. ASSUME NEW d \in Dbs
        PROVE  Ordered(cache'[d], table'[d], Done, failures')
    <2> DEFINE c == cache[d]
               t == table[d]
               f == failures
    <2>1. c \in Seq(Nat) /\ t \in Seq(Nat) /\ Ordered(c, t, Done, f) /\ f \in Nat
      BY OrderType DEF Order
    <2>2. cache'[d] \in {c, <<>>} /\ table'[d] \in {t, t \o c}
      <3>1. table \in [Dbs -> Seq(Index)]
        BY DEF Inv, TypeOK
      <3> QED
        BY <3>1 DEF Seqs, Inserted
    <2> HIDE DEF c, t, f
    <2>3. <<>> \in Seq(Nat) /\ t \o c \in Seq(Nat) /\ f + 1 \in Nat /\ f <= f + 1
          /\ Done <= Done
      BY <1>1, <2>1, ConcatProperties, EmptySeq
    <2>4. Ordered(c, t, Done, f + 1)
      BY <1>1, <2>1, <2>3, OrderedLater
    <2>5. Ordered(<<>>, t, Done, f + 1)
      BY <1>1, <2>1, <2>3, <2>4, OrderedLose
    <2>6. Ordered(c, t \o c, Done, f + 1)
      BY <1>1, <2>1, OrderedConcat
    <2>7. Ordered(<<>>, t \o c, Done, f + 1)
      BY <1>1, <2>1, <2>3, <2>6, OrderedLose
    <2>8. failures' = f + 1
      BY DEF f
    <2> QED
      BY <2>2, <2>4, <2>5, <2>6, <2>7, <2>8
  <1> QED
    BY <1>1, <1>2, RaiseOrder

\* A flush that succeeds.
LEMMA FlushOrder ==
    ASSUME Inv, Order, NEW e \in Dbs, MultiInsert(e), UNCHANGED <<next, batch>>
    PROVE  Order'
  <1>1. InSequence' /\ Done' = Done /\ failures' = failures
    BY DEF Order, InSequence, Done, MultiInsert
  <1>2. ASSUME NEW d \in Dbs
        PROVE  Ordered(cache'[d], table'[d], Done, failures)
    <2>1. /\ cache[d] \in Seq(Nat) /\ table[d] \in Seq(Nat)
          /\ Ordered(cache[d], table[d], Done, failures)
          /\ failures \in Nat /\ Done \in Nat
      BY OrderType DEF Order
    <2>2. Ordered(<<>>, table[d] \o cache[d], Done, failures)
      BY <2>1, OrderedConcat
    <2>3. \/ cache'[d] = <<>> /\ table'[d] = table[d] \o cache[d]
          \/ cache'[d] = cache[d] /\ table'[d] = table[d]
      BY DEF MultiInsert, Inserted, Inv, TypeOK
    <2> QED
      BY <2>1, <2>2, <2>3
  <1> QED
    BY <1>1, <1>2 DEF Order

\* A row without a tag raises once it is cached.
LEMMA UntaggedOrder ==
    ASSUME Inv, Inv', Order, pc = "row", batch' = <<>>, UNCHANGED <<next, table>>,
           failures' = failures + 1,
           cache' = [cache EXCEPT ![Db(Head(batch))] = Append(@, Head(batch))]
    PROVE  Order'
  <1>1. /\ next \in Nat /\ Head(batch) = Done + 1 /\ Done \in Nat /\ Done + 1 <= next
    <2> DEFINE m == Len(batch)
    <2>1. /\ m \in Nat \ {0} /\ next \in Nat /\ m <= next /\ DOMAIN batch = 1..m
          /\ \A k \in 1..m : batch[k] = Done + k
          /\ batch \in Seq(Index) /\ batch # <<>>
      BY OrderType, LenProperties, EmptySeq DEF Order, InSequence, Inv, TypeOK, BatchFits
    <2>2. Head(batch) = batch[1]
      BY <2>1, HeadTailProperties
    <2> HIDE DEF m
    <2>3. 1 \in 1..m /\ next - m \in Nat /\ (next - m) + 1 <= next
      BY <2>1
    <2> QED
      BY <2>1, <2>2, <2>3 DEF Done, m
  <1>2. ASSUME NEW d \in Dbs
        PROVE  Ordered(cache'[d], table'[d], Done + 1, failures')
    <2>1. /\ cache[d] \in Seq(Nat) /\ table[d] \in Seq(Nat)
          /\ Ordered(cache[d], table[d], Done, failures)
          /\ failures \in Nat
      BY OrderType DEF Order
    <2>2. cache'[d] = cache[d] \/ cache'[d] = Append(cache[d], Done + 1)
      BY <1>1 DEF Inv, TypeOK
    <2>3. /\ Done + 1 \in Nat /\ Done <= Done + 1 /\ failures + 1 \in Nat
          /\ failures <= failures + 1 /\ Done + 1 <= Done + 1
      BY <1>1, <2>1
    <2>4. Ordered(cache[d], table[d], Done + 1, failures + 1)
      BY <1>1, <2>1, <2>3, OrderedLater
    <2>5. Ordered(Append(cache[d], Done + 1), table[d], Done + 1, failures)
      BY <1>1, <2>1, OrderedAppend
    <2>6. Append(cache[d], Done + 1) \in Seq(Nat)
      BY <2>1, <2>3, AppendProperties
    <2>7. Ordered(Append(cache[d], Done + 1), table[d], Done + 1, failures + 1)
      BY <1>1, <2>1, <2>3, <2>5, <2>6, OrderedLater
    <2> QED
      BY <2>2, <2>4, <2>7
  <1>3. Done + 1 \in 0..next
    BY <1>1
  <1> QED
    BY <1>2, <1>3, RaiseOrder

\* Every step keeps the order and the count of repeats, one action after the other.
LEMMA StepOrder == Inv /\ Inv' /\ Order /\ [Next]_vars => Order'
  <1> SUFFICES ASSUME Inv, Inv', Order, [Next]_vars PROVE Order'
    OBVIOUS
  <1>1. CASE Fetch
    BY <1>1, FetchOrder
  <1>2. CASE Skip
    BY <1>2, TakeOrder DEF Skip, mysql
  <1>3. CASE CacheRow
    <2> DEFINE grown == [cache EXCEPT ![Db(Head(batch))] = Append(@, Head(batch))]
    <2>1. pc = "row" /\ UNCHANGED <<next, table>>
      BY <1>3 DEF CacheRow, mysql
    <2>2. CASE batch' = Tail(batch) /\ cache' = grown /\ UNCHANGED failures
      BY <2>1, <2>2, TakeOrder
    <2>3. CASE batch' = <<>> /\ cache' = grown /\ failures' = failures + 1
      BY <2>1, <2>3, UntaggedOrder
    <2>4. CASE batch' = <<>> /\ cache' = Seqs /\ failures' = failures + 1
      BY <2>1, <2>4, LoseOrder
    <2> QED
      BY <1>3, <2>2, <2>3, <2>4 DEF CacheRow, Raise, Die
  <1>4. CASE Tag \/ Ip
    <2>1. UNCHANGED <<next, table>>
      BY <1>4 DEF Tag, Ip, mysql
    <2>2. \/ UNCHANGED <<batch, cache, failures>>
          \/ batch' = <<>> /\ cache' \in {cache, Seqs} /\ failures' = failures + 1
      BY <1>4 DEF Tag, Ip, Raise, Die
    <2> QED
      BY <2>1, <2>2, SameOrder, LoseOrder
  <1>5. ASSUME NEW d \in Dbs, MultiInsertRaises(d), UNCHANGED next
        PROVE  Order'
    <2>1. /\ batch' = <<>> /\ cache' \in {cache, Seqs} /\ failures' = failures + 1
          /\ UNCHANGED table \/ table' = Inserted(d)
      BY <1>5 DEF MultiInsertRaises, Raise, Die
    <2> QED
      BY <1>5, <2>1, LoseOrder
  <1>6. CASE Store
    <2>1. UNCHANGED next /\ Db(row) \in Dbs
      BY <1>6, AlarmType DEF Store, Inv, TypeOK
    <2>2. \/ MultiInsert(Db(row)) /\ UNCHANGED batch
          \/ MultiInsertRaises(Db(row))
          \/ UNCHANGED <<batch, cache, table, failures>>
      BY <1>6 DEF Store, mysql
    <2> QED
      BY <1>5, <2>1, <2>2, FlushOrder, SameOrder
  <1>7. CASE Sweep
    <2>1. UNCHANGED next
      BY <1>7 DEF Sweep
    <2>2. \/ \E d \in Dbs : \/ MultiInsert(d) /\ UNCHANGED batch
                            \/ MultiInsertRaises(d)
          \/ UNCHANGED <<batch, cache, table, failures>>
      BY <1>7 DEF Sweep, mysql
    <2> QED
      BY <1>5, <2>1, <2>2, FlushOrder, SameOrder
  <1>8. CASE Kill
    BY <1>8, LoseOrder DEF Kill, Die, mysql
  <1>10. CASE FetchRaises
    BY <1>10, FetchRaisesIs, LoseOrder DEF Die, mysql
  <1>9. CASE \/ Restart \/ (\E d \in Dbs : Remake(d)) \/ (\E a \in Alarms : Post(a))
             \/ UNCHANGED vars
    BY <1>9, SameOrder DEF Restart, Remake, Post, vars, memory, mysql
  <1> QED
    BY <1>1, <1>2, <1>3, <1>4, <1>6, <1>7, <1>8, <1>9, <1>10 DEF Next, Process

\* No row is in a table more often than once and once more for each exception
\* that may have followed its INSERT (metrics_counter_consumer.py:138-140).
THEOREM RepeatsAreBounded == Spec => []BoundedRepeats
  <1>1. Init => Order
    <2> SUFFICES ASSUME Init PROVE Order
      OBVIOUS
    <2>1. Len(<<>>) = 0 /\ DOMAIN <<>> = {} /\ ToSet(<<>>) = {} /\ \A i \in 1..0 : FALSE
      BY Empty DEF ToSet
    <2> QED
      BY <2>1 DEF Init, Order, InSequence, Done, Ordered, Seqs
  <1>2. Inv /\ Order => BoundedRepeats
    <2> SUFFICES ASSUME Inv, Order, NEW d \in Dbs, NEW i \in ToSet(table[d])
                 PROVE  Repeats(i, table[d]) <= 1 + failures
      BY DEF BoundedRepeats
    <2>1. Repeats(i, table[d]) \in Nat /\ failures \in Nat
      BY OrderType, PlacesFinite
    <2>2. Repeats(i, table[d]) <= IF i \in ToSet(cache[d]) THEN failures ELSE failures + 1
      BY DEF Order, Ordered
    <2> QED
      BY <2>1, <2>2
  <1> QED
    BY <1>1, <1>2, InitInv, StepInv, StepOrder, PTL DEF Spec
-----------------------------------------------------------------------------
\* Cached rows are in the cache of their database.
Own == \A d \in Dbs : \A i \in ToSet(cache[d]) : Db(i) = d

\* Rows in caches and tables are indices of the list.
LEMMA RowTypes ==
    ASSUME Inv
    PROVE  \A d \in Dbs : ToSet(cache[d]) \subseteq Index /\ ToSet(table[d]) \subseteq Index
  BY ElementsType DEF Inv, TypeOK

\* A step leaves the cache of a database, empties it, or caches a row of that
\* database.
LEMMA CacheSteps ==
    ASSUME Inv, [Next]_vars, NEW d \in Dbs
    PROVE  \/ cache'[d] \in {cache[d], <<>>}
           \/ \E i \in Index : d = Db(i) /\ cache'[d] = Append(cache[d], i) /\ UNCHANGED sent
  <1>0. cache \in [Dbs -> Seq(Index)]
    BY DEF Inv, TypeOK
  <1>1. \A e \in Dbs : MultiInsert(e) \/ MultiInsertRaises(e) => cache'[d] \in {cache[d], <<>>}
    BY <1>0 DEF MultiInsert, MultiInsertRaises, Raise, Die, Seqs
  <1>2. CASE CacheRow
    <2> DEFINE i == Head(batch)
    <2>1. i \in Index
      BY <1>2, BatchTail DEF CacheRow, Inv, BatchFits
    <2>2. cache' = [cache EXCEPT ![Db(i)] = Append(@, i)] \/ cache' = Seqs
      BY <1>2 DEF CacheRow, Raise, Die
    <2>3. UNCHANGED sent
      BY <1>2 DEF CacheRow
    <2> HIDE DEF i
    <2> QED
      BY <1>0, <2>1, <2>2, <2>3 DEF Seqs
  <1>3. CASE Store
    <2>1. Db(row) \in Dbs
      BY <1>3, AlarmType DEF Store, Inv, TypeOK
    <2> QED
      BY <1>1, <1>3, <2>1 DEF Store
  <1>4. CASE Sweep
    BY <1>1, <1>4 DEF Sweep
  <1>5. CASE Tag \/ Ip \/ Fetch \/ FetchRaises \/ Skip
    BY <1>5 DEF Tag, Ip, Fetch, FetchRaises, Skip, Raise, Die, Seqs
  <1>6. CASE \/ \E a \in Alarms : Post(a)
             \/ Kill \/ Restart \/ (\E e \in Dbs : Remake(e))
             \/ UNCHANGED vars
    BY <1>6 DEF Post, Kill, Die, Restart, Remake, vars, memory, Seqs
  <1> QED
    BY <1>2, <1>3, <1>4, <1>5, <1>6 DEF Next, Process

\* Only a posting changes the list, at its end.
LEMMA SentSteps ==
    ASSUME Inv, [Next]_vars
    PROVE  /\ UNCHANGED mode
           /\ \A i \in Index : sent'[i] = sent[i]
           /\ UNCHANGED sent \/ \E a \in Alarms : Post(a)
  <1>1. CASE \E a \in Alarms : Post(a)
    <2>1. PICK a \in Alarms : Post(a)
      BY <1>1
    <2>2. \A i \in Index : sent'[i] = sent[i]
      BY <2>1, AppendProperties, LenProperties DEF Post, Index, Inv, TypeOK
    <2>3. UNCHANGED mode
      BY <2>1 DEF Post
    <2> QED
      BY <1>1, <2>2, <2>3
  <1>2. CASE ~\E a \in Alarms : Post(a)
    <2>1. UNCHANGED <<sent, mode>>
      BY <1>2 DEF Next, Process, Fetch, FetchRaises, Skip, CacheRow, Tag, Ip, Store, Sweep,
                  Kill, Restart, Remake, vars
    <2> QED
      BY <2>1
  <1> QED
    BY <1>1, <1>2

\* Every step keeps rows in the caches of their databases.
LEMMA StepOwn == Inv /\ Own /\ [Next]_vars => Own'
  <1> SUFFICES ASSUME Inv, Own, [Next]_vars, NEW d \in Dbs, NEW i \in ToSet(cache'[d])
               PROVE  sent'[i].db = d
    BY DEF Own, Db
  <1>1. cache[d] \in Seq(Index) /\ ToSet(cache[d]) \subseteq Index /\ ToSet(<<>>) = {}
    BY ElementsType DEF Inv, TypeOK
  <1>2. CASE i \in ToSet(cache[d])
    BY <1>1, <1>2, SentSteps DEF Own, Db
  <1>3. CASE i \notin ToSet(cache[d])
    <2>1. PICK j \in Index : d = Db(j) /\ cache'[d] = Append(cache[d], j) /\ UNCHANGED sent
      BY <1>1, <1>3, CacheSteps
    <2>2. ToSet(cache'[d]) = ToSet(cache[d]) \cup {j}
      BY <1>1, <2>1, AppendSet
    <2> QED
      BY <1>3, <2>1, <2>2 DEF Db
  <1> QED
    BY <1>2, <1>3
-----------------------------------------------------------------------------
\* The tags, or ips, a database owes: of rows stored and those remembered, what is
\* not listed, and of rows cached, what is not remembered.
Owes(known, listed, stored, cached) ==
    ((stored \cup known) \ listed) \cup (cached \ known)

\* Nothing more is owed when rows move from the cache to the table, are forgotten, or are
\* listed as soon as remembered.
LEMMA OwesFewer ==
    \A K, L, S, C, K1, L1, S1, C1 :
        /\ S1 \subseteq S \cup C /\ C1 \subseteq C \cup K1 /\ K1 \subseteq K \cup L1
        /\ K \subseteq K1 \/ C1 = {}
        /\ L \subseteq L1
        => Owes(K1, L1, S1, C1) \subseteq Owes(K, L, S, C)
  BY DEF Owes

\* One more tag, or ip, may be owed when one more row is cached, or one remembered unlisted.
LEMMA OwesOneMore ==
    \A K, L, S, C, K1, L1, S1, C1, x :
        /\ S1 \subseteq S /\ C1 \subseteq C \cup {x} /\ K1 \subseteq K \cup {x}
        /\ K \subseteq K1 /\ L \subseteq L1
        => Owes(K1, L1, S1, C1) \subseteq Owes(K, L, S, C) \cup {x}
  BY DEF Owes

\* When a database is made again, what is remembered of it may be owed: it is stale.
LEMMA OwesAnew ==
    ASSUME NEW K, NEW L, NEW S, NEW C
    PROVE  Owes(K, {}, {}, C) \subseteq Owes(K, L, S, C) \cup K
  BY DEF Owes

\* The row whose tag, or ip, is about to be listed is not yet owed.
HasTag(i) == Consumer.tags /\ sent[i].kind # "untagged"
TagsOf(R) == {sent[i].tag : i \in {j \in R : HasTag(j)}}
IpsOf(R) == {sent[i].ip : i \in R}
TagPending == IF pc = "tag" THEN {row} ELSE {}
IpPending == IF pc \in {"tag", "ip"} THEN {row} ELSE {}
CachedTags(d) == TagsOf(ToSet(cache[d]) \ TagPending)
CachedIps(d) == IpsOf(ToSet(cache[d]) \ IpPending)
OwedTags(d) == Owes(tagCache[d], tagsTable[d], TagsOf(Rows(d)), CachedTags(d))
OwedIps(d) == Owes(ipCache[d], ipsTable[d], IpsOf(Rows(d)), CachedIps(d))
Owed == {u \in Dbs \X (Tags \cup Ips) : u[2] \in OwedTags(u[1]) \cup OwedIps(u[1])}
            \ stale
Allowed == IF CatchesErrors THEN 2 * failures ELSE 0
OwedBounded == IsFiniteSet(Owed) /\ Cardinality(Owed) <= Allowed

\* What is not listed is owed.
LEMMA UnlistedOwed == Unlisted \ stale \subseteq Owed
  BY DEF Unlisted, UnlistedTags, UnlistedIps, Owed, OwedTags, OwedIps, Owes, TagsOf, IpsOf, HasTag

\* The tags and ips of some rows are among those of more rows.
LEMMA SetsWithin ==
    \A A, B, C : A \subseteq B \cup C => /\ TagsOf(A) \subseteq TagsOf(B) \cup TagsOf(C)
                                         /\ IpsOf(A) \subseteq IpsOf(B) \cup IpsOf(C)
  BY DEF TagsOf, IpsOf

\* The tags and ips of sets of rows.
LEMMA SetsOf ==
    /\ \A A, B : A \subseteq B => TagsOf(A) \subseteq TagsOf(B) /\ IpsOf(A) \subseteq IpsOf(B)
    /\ \A A, B : /\ TagsOf(A \cup B) = TagsOf(A) \cup TagsOf(B)
                 /\ IpsOf(A \cup B) = IpsOf(A) \cup IpsOf(B)
    /\ TagsOf({}) = {} /\ IpsOf({}) = {}
    /\ \A i : TagsOf({i}) \subseteq {sent[i].tag} /\ IpsOf({i}) = {sent[i].ip}
    /\ \A i : ~HasTag(i) => TagsOf({i}) = {}
  BY DEF TagsOf, IpsOf

\* Counting what is owed.
LEMMA OwedLess ==
    ASSUME Inv, OwedBounded, UNCHANGED mode, failures' \in {failures, failures + 1},
           Owed' \subseteq Owed
    PROVE  OwedBounded'
  <1>1. failures \in Nat
    BY DEF Inv, TypeOK
  <1>2. Allowed' \in Nat /\ Allowed \in Nat /\ Allowed <= Allowed'
    <2>1. \/ Allowed = 2 * failures /\ Allowed' = 2 * failures'
          \/ Allowed = 0 /\ Allowed' = 0
      <3>1. CatchesErrors' = CatchesErrors
        BY DEF CatchesErrors
      <3> QED
        BY <3>1, Zenon DEF Allowed
    <2> QED
      BY <1>1, <2>1
  <1> DEFINE A == Owed
             B == Owed'
  <1>3. IsFiniteSet(A) /\ B \subseteq A /\ Cardinality(A) <= Allowed
    BY DEF OwedBounded
  <1> HIDE DEF A, B
  <1>4. IsFiniteSet(B) /\ Cardinality(B) <= Cardinality(A)
    BY <1>3, FS_Subset
  <1>5. Cardinality(B) \in Nat /\ Cardinality(A) \in Nat
    BY <1>3, <1>4, FS_CardinalityType
  <1>6. Cardinality(B) <= Allowed'
    BY <1>2, <1>3, <1>4, <1>5
  <1> QED
    BY <1>4, <1>6 DEF OwedBounded, B

\* An exception that was caught may leave a tag and an ip to be owed.
LEMMA OwedTwoMore ==
    ASSUME Inv, OwedBounded, CatchesErrors, UNCHANGED mode, failures' = failures + 1,
           \E x, y : Owed' \subseteq (Owed \cup {x}) \cup {y}
    PROVE  OwedBounded'
  <1>1. failures \in Nat /\ CatchesErrors' = CatchesErrors
    BY DEF Inv, TypeOK, CatchesErrors
  <1>2. Allowed' = Allowed + 2 /\ Allowed \in Nat
    BY <1>1 DEF Allowed
  <1> DEFINE A == Owed
             B == Owed'
  <1>3. PICK x, y : B \subseteq (A \cup {x}) \cup {y}
    OBVIOUS
  <1>4. IsFiniteSet(A) /\ Cardinality(A) <= Allowed
    BY DEF OwedBounded
  <1> HIDE DEF A, B
  <1>5. /\ IsFiniteSet(A \cup {x}) /\ Cardinality(A) \in Nat
        /\ Cardinality(A \cup {x}) \in Nat
        /\ Cardinality(A \cup {x}) <= Cardinality(A) + 1
    BY <1>4, GrowsByOne
  <1>6. /\ IsFiniteSet(B) /\ Cardinality(B) \in Nat
        /\ Cardinality(B) <= Cardinality(A \cup {x}) + 1
    <2> DEFINE AX == A \cup {x}
    <2>1. IsFiniteSet(AX) /\ B \subseteq AX \cup {y}
      BY <1>3, <1>5
    <2> HIDE DEF AX
    <2>2. IsFiniteSet(B) /\ Cardinality(B) \in Nat /\ Cardinality(B) <= Cardinality(AX) + 1
      BY <2>1, GrowsByOne
    <2> QED
      BY <2>2 DEF AX
  <1>7. Cardinality(B) <= Allowed'
    BY <1>2, <1>4, <1>5, <1>6
  <1> QED
    BY <1>6, <1>7 DEF OwedBounded, B

\* What the parts of Owed are after a step that posts nothing.
LEMMA OwedNext ==
    ASSUME UNCHANGED <<sent, mode>>, NEW d
    PROVE  /\ OwedTags(d)' = Owes(tagCache'[d], tagsTable'[d], TagsOf(Rows(d)'), CachedTags(d)')
           /\ OwedIps(d)' = Owes(ipCache'[d], ipsTable'[d], IpsOf(Rows(d)'), CachedIps(d)')
           /\ CachedTags(d)' = TagsOf(ToSet(cache'[d]) \ TagPending')
           /\ CachedIps(d)' = IpsOf(ToSet(cache'[d]) \ IpPending')
  BY DEF OwedTags, OwedIps, CachedTags, CachedIps, TagsOf, IpsOf, HasTag, Consumer

\* The rows of a database after an INSERT of its cache, or none.
LEMMA RowsNext ==
    ASSUME Inv, UNCHANGED dropped, NEW d \in Dbs
    PROVE  /\ table'[d] = table[d] => Rows(d)' = Rows(d)
           /\ table'[d] = table[d] \o cache[d] => Rows(d)' \subseteq Rows(d) \cup ToSet(cache[d])
  <1>1. table'[d] = table[d] => Rows(d)' = Rows(d)
    BY DEF Rows
  <1>2. ASSUME table'[d] = table[d] \o cache[d], NEW i \in Rows(d)'
        PROVE  i \in Rows(d) \cup ToSet(cache[d])
    <2> DEFINE t == table[d]
               c == cache[d]
               u == table'[d]
               m == Len(t)
               n == Len(c)
               b == dropped[d]
    <2>1. /\ m \in Nat /\ n \in Nat /\ Len(u) = m + n /\ b \in Nat
          /\ \A k \in 1..(m + n) : u[k] = IF k <= m THEN t[k] ELSE c[k - m]
          /\ DOMAIN c = 1..n
      <3>1. t \in Seq(Index) /\ c \in Seq(Index) /\ u = t \o c /\ b \in Nat
        BY <1>2 DEF Inv, TypeOK
      <3> HIDE DEF t, c, u, b
      <3> QED
        BY <3>1, ConcatProperties, LenProperties
    <2>2. PICK k \in (b + 1)..Len(u) : u[k] = i
      BY <1>2 DEF Rows
    <2>3. Rows(d) = {t[j] : j \in (b + 1)..m}
      BY DEF Rows
    <2> HIDE DEF t, c, u, m, n, b
    <2>4. CASE k <= m
      <3>1. k \in (b + 1)..m /\ k \in 1..(m + n)
        BY <2>1, <2>2, <2>4
      <3>2. t[k] = i
        BY <2>1, <2>2, <2>4, <3>1
      <3> QED
        BY <2>3, <3>1, <3>2
    <2>5. CASE ~(k <= m)
      <3>1. k - m \in 1..n /\ k \in 1..(m + n)
        BY <2>1, <2>2, <2>5
      <3>2. c[k - m] = i
        BY <2>1, <2>2, <2>5, <3>1
      <3>3. i \in ToSet(c)
        BY <2>1, <3>1, <3>2 DEF ToSet
      <3> QED
        BY <3>3 DEF c
    <2> QED
      BY <2>4, <2>5
  <1> QED
    BY <1>1, <1>2

\* What is owed for a database stays as it is or shrinks, or is remembered by a
\* process under which the database was made again.
LessOwed(d) ==
    /\ OwedTags(d)' \subseteq OwedTags(d)
    /\ OwedIps(d)' \subseteq OwedIps(d)

\* If no database owes more, the count is kept.
LEMMA AllLessOwed ==
    ASSUME Inv, OwedBounded, UNCHANGED mode, failures' \in {failures, failures + 1},
           stale \subseteq stale', \A d \in Dbs : LessOwed(d)
    PROVE  OwedBounded'
  <1>1. Owed' \subseteq Owed
    BY DEF Owed, LessOwed, Tags, Ips
  <1> QED
    BY <1>1, OwedLess

\* The end of the process, with or without an INSERT.
LEMMA DieOwed ==
    ASSUME Inv, UNCHANGED <<sent, mode, dropped>>, Die, NEW d \in Dbs,
           tagsTable[d] \subseteq tagsTable'[d], ipsTable[d] \subseteq ipsTable'[d],
           \/ table'[d] = table[d]
           \/ pc \notin {"tag", "ip"} /\ table'[d] = table[d] \o cache[d]
    PROVE  LessOwed(d)
  <1>1. /\ ToSet(cache'[d]) = {} /\ tagCache'[d] = {} /\ ipCache'[d] = {}
    BY DEF Die, Seqs, Sets, ToSet
  <1>2. CachedTags(d)' = {} /\ CachedIps(d)' = {}
    <2>1. ToSet(cache'[d]) \ TagPending' = {} /\ ToSet(cache'[d]) \ IpPending' = {}
      BY <1>1
    <2> QED
      BY <2>1, OwedNext, SetsOf
  <1>3. /\ TagsOf(Rows(d)') \subseteq TagsOf(Rows(d)) \cup CachedTags(d)
        /\ IpsOf(Rows(d)') \subseteq IpsOf(Rows(d)) \cup CachedIps(d)
    <2>1. CASE Rows(d)' = Rows(d)
      BY <2>1
    <2>2. CASE pc \notin {"tag", "ip"} /\ Rows(d)' \subseteq Rows(d) \cup ToSet(cache[d])
      <3>1. ToSet(cache[d]) \ TagPending = ToSet(cache[d]) /\ ToSet(cache[d]) \ IpPending = ToSet(cache[d])
        BY <2>2 DEF TagPending, IpPending
      <3>2. CachedTags(d) = TagsOf(ToSet(cache[d])) /\ CachedIps(d) = IpsOf(ToSet(cache[d]))
        BY <3>1 DEF CachedTags, CachedIps
      <3> QED
        BY <2>2, <3>2, SetsWithin, Zenon
    <2> QED
      BY <2>1, <2>2, RowsNext
  <1>4. OwedTags(d)' \subseteq OwedTags(d)
    <2>1. OwedTags(d)' = Owes(tagCache'[d], tagsTable'[d], TagsOf(Rows(d)'), CachedTags(d)')
      BY OwedNext
    <2> QED
      BY <1>1, <1>2, <1>3, <2>1 DEF OwedTags, Owes
  <1>5. OwedIps(d)' \subseteq OwedIps(d)
    <2>1. OwedIps(d)' = Owes(ipCache'[d], ipsTable'[d], IpsOf(Rows(d)'), CachedIps(d)')
      BY OwedNext
    <2> QED
      BY <1>1, <1>2, <1>3, <2>1 DEF OwedIps, Owes
  <1> QED
    BY <1>4, <1>5 DEF LessOwed

\* A flush, or nothing at all, while no row is pending.
LEMMA FlushOwed ==
    ASSUME Inv, UNCHANGED <<sent, mode, dropped, tagCache, ipCache, tagsTable, ipsTable>>,
           NEW d \in Dbs,
           pc \notin {"tag", "ip"}, ToSet(cache'[d]) \ TagPending' \subseteq ToSet(cache[d]),
           ToSet(cache'[d]) \ IpPending' \subseteq ToSet(cache[d]),
           table'[d] = table[d] \/ table'[d] = table[d] \o cache[d]
    PROVE  LessOwed(d)
  <1>1. ToSet(cache[d]) \ TagPending = ToSet(cache[d]) /\ ToSet(cache[d]) \ IpPending = ToSet(cache[d])
    BY DEF TagPending, IpPending
  <1>2. CachedTags(d) = TagsOf(ToSet(cache[d])) /\ CachedIps(d) = IpsOf(ToSet(cache[d]))
    BY <1>1 DEF CachedTags, CachedIps
  <1>3. /\ TagsOf(Rows(d)') \subseteq TagsOf(Rows(d)) \cup CachedTags(d)
        /\ IpsOf(Rows(d)') \subseteq IpsOf(Rows(d)) \cup CachedIps(d)
    <2>1. Rows(d)' = Rows(d) \/ Rows(d)' \subseteq Rows(d) \cup ToSet(cache[d])
      BY RowsNext
    <2>2. CASE Rows(d)' = Rows(d)
      BY <2>2
    <2>3. CASE Rows(d)' \subseteq Rows(d) \cup ToSet(cache[d])
      BY <1>2, <2>3, SetsWithin, Zenon
    <2> QED
      BY <2>1, <2>2, <2>3
  <1>4. CachedTags(d)' \subseteq CachedTags(d) /\ CachedIps(d)' \subseteq CachedIps(d)
    <2>1. /\ TagsOf(ToSet(cache'[d]) \ TagPending') \subseteq TagsOf(ToSet(cache[d]))
          /\ IpsOf(ToSet(cache'[d]) \ IpPending') \subseteq IpsOf(ToSet(cache[d]))
      BY SetsOf, Zenon
    <2> QED
      BY <1>2, <2>1, OwedNext
  <1>5. OwedTags(d)' \subseteq OwedTags(d)
    <2>1. OwedTags(d)' = Owes(tagCache'[d], tagsTable'[d], TagsOf(Rows(d)'), CachedTags(d)')
      BY OwedNext
    <2> QED
      BY <1>3, <1>4, <2>1 DEF OwedTags, Owes
  <1>6. OwedIps(d)' \subseteq OwedIps(d)
    <2>1. OwedIps(d)' = Owes(ipCache'[d], ipsTable'[d], IpsOf(Rows(d)'), CachedIps(d)')
      BY OwedNext
    <2> QED
      BY <1>3, <1>4, <2>1 DEF OwedIps, Owes
  <1> QED
    BY <1>5, <1>6 DEF LessOwed

\* Databases are made again.
LEMMA RemakeOwed ==
    ASSUME Inv, OwedBounded, NEW e \in Dbs, Remake(e)
    PROVE  OwedBounded'
  <1>1. /\ UNCHANGED <<sent, mode, pc, row, cache, tagCache, ipCache, table, failures>>
    BY DEF Remake, memory
  <1>2. /\ tagsTable' = [tagsTable EXCEPT ![e] = {}] /\ ipsTable' = [ipsTable EXCEPT ![e] = {}]
        /\ dropped' = [dropped EXCEPT ![e] = Len(table[e])]
        /\ stale' = stale \cup ({e} \X (tagCache[e] \cup ipCache[e]))
        /\ tagsTable \in [Dbs -> SUBSET Tags] /\ ipsTable \in [Dbs -> SUBSET Ips]
        /\ dropped \in [Dbs -> Nat]
    BY DEF Remake, Inv, TypeOK
  <1>3. ASSUME NEW d \in Dbs
        PROVE  CachedTags(d)' = CachedTags(d) /\ CachedIps(d)' = CachedIps(d)
    BY <1>1, OwedNext DEF CachedTags, CachedIps, TagPending, IpPending
  <1>4. ASSUME NEW d \in Dbs, d # e
        PROVE  LessOwed(d)
    <2>1. Rows(d)' = Rows(d)
      BY <1>1, <1>2, <1>4 DEF Rows
    <2> QED
      BY <1>1, <1>2, <1>3, <1>4, <2>1, OwedNext DEF LessOwed, OwedTags, OwedIps
  <1>5. /\ OwedTags(e)' \subseteq OwedTags(e) \cup tagCache[e]
        /\ OwedIps(e)' \subseteq OwedIps(e) \cup ipCache[e]
    <2>1. Rows(e)' = {}
      <3>1. Len(table[e]) \in Nat /\ dropped'[e] = Len(table[e]) /\ table' = table
        BY <1>1, <1>2, LenProperties DEF Inv, TypeOK
      <3>2. (dropped'[e] + 1)..Len(table'[e]) = {}
        BY <3>1
      <3> QED
        BY <3>2 DEF Rows
    <2>2. TagsOf(Rows(e)') = {} /\ IpsOf(Rows(e)') = {} /\ tagsTable'[e] = {} /\ ipsTable'[e] = {}
      BY <1>2, <2>1, SetsOf
    <2>3. /\ OwedTags(e)' = Owes(tagCache[e], {}, {}, CachedTags(e))
          /\ OwedIps(e)' = Owes(ipCache[e], {}, {}, CachedIps(e))
      BY <1>1, <1>3, <2>2, OwedNext
    <2> QED
      BY <2>3, OwesAnew DEF OwedTags, OwedIps
  <1>6. Owed' \subseteq Owed
    <2> SUFFICES ASSUME NEW u \in Owed' PROVE u \in Owed
      OBVIOUS
    <2>1. /\ u \in Dbs \X (Tags \cup Ips) /\ u \notin stale'
          /\ u[2] \in OwedTags(u[1])' \cup OwedIps(u[1])'
      BY <1>1 DEF Owed, Tags, Ips
    <2>2. u[1] \in Dbs /\ u \notin stale /\ u = <<u[1], u[2]>>
      BY <1>2, <2>1
    <2>3. u[2] \in OwedTags(u[1]) \cup OwedIps(u[1])
      <3>1. CASE u[1] # e
        BY <1>4, <2>1, <2>2, <3>1 DEF LessOwed
      <3>2. CASE u[1] = e
        <4>1. u[2] \notin tagCache[e] \cup ipCache[e]
          BY <1>2, <2>1, <2>2, <3>2
        <4>2. u[2] \in OwedTags(e)' \cup OwedIps(e)'
          BY <2>1, <3>2
        <4> QED
          BY <1>5, <3>2, <4>1, <4>2
      <3> QED
        BY <3>1, <3>2
    <2> QED
      BY <2>1, <2>2, <2>3 DEF Owed
  <1> QED
    BY <1>1, <1>6, OwedLess

\* One more tag and one more ip is owed at most, in the database of one row.
OneMoreOwed(i) ==
    \A d \in Dbs :
        /\ OwedTags(d)' \subseteq OwedTags(d) \cup (IF d = Db(i) THEN {sent[i].tag} ELSE {})
        /\ OwedIps(d)' \subseteq OwedIps(d) \cup (IF d = Db(i) THEN {sent[i].ip} ELSE {})

\* A caught exception that makes one row owed pays for it.
LEMMA OneMoreBounded ==
    ASSUME Inv, OwedBounded, CatchesErrors, UNCHANGED mode, failures' = failures + 1,
           stale \subseteq stale', UNCHANGED sent, NEW i, OneMoreOwed(i)
    PROVE  OwedBounded'
  <1> DEFINE x == <<Db(i), sent[i].tag>>
             y == <<Db(i), sent[i].ip>>
  <1>1. Owed' \subseteq (Owed \cup {x}) \cup {y}
    <2> SUFFICES ASSUME NEW u \in Owed', u # x, u # y PROVE u \in Owed
      OBVIOUS
    <2>1. /\ u \in Dbs \X (Tags \cup Ips) /\ u \notin stale
          /\ u[2] \in OwedTags(u[1])' \cup OwedIps(u[1])'
      BY DEF Owed, Tags, Ips
    <2>2. u[1] \in Dbs /\ u = <<u[1], u[2]>>
      BY <2>1
    <2>3. u[2] \in OwedTags(u[1]) \cup OwedIps(u[1])
      BY <2>1, <2>2 DEF OneMoreOwed
    <2> QED
      BY <2>1, <2>3 DEF Owed
  <1> HIDE DEF x, y
  <1> QED
    BY <1>1, OwedTwoMore

\* A row without a tag is cached, and the exception caught.
LEMMA UntaggedOwed ==
    ASSUME Inv, UNCHANGED <<sent, mode, dropped, table, tagCache, ipCache, tagsTable, ipsTable>>,
           pc = "row", pc' = "fetch", NEW i \in Index, ~HasTag(i),
           cache' = [cache EXCEPT ![Db(i)] = Append(@, i)]
    PROVE  OneMoreOwed(i)
  <1> SUFFICES ASSUME NEW d \in Dbs
               PROVE  /\ OwedTags(d)' \subseteq OwedTags(d)
                      /\ OwedIps(d)' \subseteq OwedIps(d) \cup (IF d = Db(i) THEN {sent[i].ip} ELSE {})
    BY DEF OneMoreOwed
  <1>1. ToSet(cache'[d]) = ToSet(cache[d]) \cup (IF d = Db(i) THEN {i} ELSE {})
    <2>1. \A s \in Seq(Index) : ToSet(Append(s, i)) = ToSet(s) \cup {i}
      BY AppendSet
    <2> QED
      BY <2>1 DEF Inv, TypeOK
  <1>2. /\ CachedTags(d) = TagsOf(ToSet(cache[d])) /\ CachedIps(d) = IpsOf(ToSet(cache[d]))
        /\ CachedTags(d)' = TagsOf(ToSet(cache'[d])) /\ CachedIps(d)' = IpsOf(ToSet(cache'[d]))
    <2>1. TagPending = {} /\ IpPending = {} /\ TagPending' = {} /\ IpPending' = {}
      BY DEF TagPending, IpPending
    <2>2. /\ ToSet(cache[d]) \ TagPending = ToSet(cache[d])
          /\ ToSet(cache[d]) \ IpPending = ToSet(cache[d])
          /\ ToSet(cache'[d]) \ TagPending' = ToSet(cache'[d])
          /\ ToSet(cache'[d]) \ IpPending' = ToSet(cache'[d])
      BY <2>1
    <2> QED
      BY <2>2, OwedNext DEF CachedTags, CachedIps
  <1>3. /\ CachedTags(d)' \subseteq CachedTags(d)
        /\ CachedIps(d)' \subseteq CachedIps(d) \cup (IF d = Db(i) THEN {sent[i].ip} ELSE {})
    BY <1>1, <1>2, SetsOf DEF TagsOf, IpsOf
  <1>4. Rows(d)' = Rows(d)
    BY RowsNext
  <1>5. OwedTags(d)' \subseteq OwedTags(d)
    <2>1. OwedTags(d)' = Owes(tagCache[d], tagsTable[d], TagsOf(Rows(d)), CachedTags(d)')
      BY <1>4, OwedNext
    <2> QED
      BY <1>3, <2>1 DEF OwedTags, Owes
  <1>6. OwedIps(d)' \subseteq OwedIps(d) \cup (IF d = Db(i) THEN {sent[i].ip} ELSE {})
    <2>1. OwedIps(d)' = Owes(ipCache[d], ipsTable[d], IpsOf(Rows(d)), CachedIps(d)')
      BY <1>4, OwedNext
    <2> QED
      BY <1>3, <2>1 DEF OwedIps, Owes
  <1> QED
    BY <1>5, <1>6

\* A row in its cache owes nothing until its tag and ip were handled, unless it raises.
LEMMA CacheRowOwed ==
    ASSUME Inv, OwedBounded, CacheRow, UNCHANGED <<mode, made>>
    PROVE  OwedBounded'
  <1> DEFINE i == Head(batch)
             grown == [cache EXCEPT ![Db(i)] = Append(@, i)]
  <1>0. i \in Index /\ pc = "row" /\ UNCHANGED <<sent, table, tagsTable, ipsTable, dropped, stale>>
    BY BatchTail DEF CacheRow, Inv, BatchFits, mysql, made
  <1>1. CASE Die /\ failures' = failures + 1
    <2>1. \A d \in Dbs : LessOwed(d)
      BY <1>0, <1>1, DieOwed
    <2> QED
      BY <1>0, <1>1, <2>1, AllLessOwed
  <1>2. CASE /\ CatchesErrors /\ failures' = failures + 1 /\ pc' = "fetch" /\ cache' = grown
             /\ UNCHANGED <<tagCache, ipCache>> /\ Consumer.tags /\ sent[i].kind = "untagged"
    <2>1. ~HasTag(i)
      BY <1>2 DEF HasTag
    <2> HIDE DEF i
    <2>2. OneMoreOwed(i)
      BY <1>0, <1>2, <2>1, UntaggedOwed
    <2> QED
      BY <1>0, <1>2, <2>2, OneMoreBounded
  <1>3. CASE /\ row' = i /\ cache' = grown /\ pc' = "tag"
             /\ UNCHANGED <<tagCache, ipCache, failures>>
    <2>1. ASSUME NEW d \in Dbs
          PROVE  /\ ToSet(cache'[d]) \ TagPending' \subseteq ToSet(cache[d])
                 /\ ToSet(cache'[d]) \ IpPending' \subseteq ToSet(cache[d])
      <3>1. TagPending' = {i} /\ IpPending' = {i}
        BY <1>3 DEF TagPending, IpPending
      <3>2. \A s \in Seq(Index) : ToSet(Append(s, i)) = ToSet(s) \cup {i}
        BY <1>0, AppendSet
      <3>3. cache'[d] = cache[d] \/ cache'[d] = Append(cache[d], i)
        BY <1>3 DEF Inv, TypeOK
      <3>4. cache[d] \in Seq(Index)
        BY DEF Inv, TypeOK
      <3> HIDE DEF i, grown
      <3> QED
        BY <3>1, <3>2, <3>3, <3>4
    <2>2. \A d \in Dbs : LessOwed(d)
      BY <1>0, <1>3, <2>1, FlushOwed
    <2> QED
      BY <1>0, <1>3, <2>2, AllLessOwed
  <1> QED
    BY <1>1, <1>2, <1>3 DEF CacheRow, Raise

\* The row whose tag, or ip, was pending is a row like the others.
LEMMA TagSettled ==
    ASSUME Own, UNCHANGED <<sent, mode, cache>>, pc = "tag", pc' # "tag", NEW d \in Dbs
    PROVE  CachedTags(d)' \subseteq
             CachedTags(d) \cup (IF d = Db(row) /\ HasTag(row) THEN {sent[row].tag} ELSE {})
  <1>1. /\ CachedTags(d) = TagsOf(ToSet(cache[d]) \ {row})
        /\ CachedTags(d)' = TagsOf(ToSet(cache[d]) \ {})
    BY OwedNext DEF CachedTags, TagPending
  <1>2. row \in ToSet(cache[d]) => d = Db(row)
    BY DEF Own
  <1> QED
    BY <1>1, <1>2 DEF TagsOf

\* The same for its ip.
LEMMA IpSettled ==
    ASSUME Own, UNCHANGED <<sent, mode, cache>>, pc \in {"tag", "ip"},
           pc' \notin {"tag", "ip"}, NEW d \in Dbs
    PROVE  CachedIps(d)' \subseteq CachedIps(d) \cup (IF d = Db(row) THEN {sent[row].ip} ELSE {})
  <1>1. /\ CachedIps(d) = IpsOf(ToSet(cache[d]) \ {row})
        /\ CachedIps(d)' = IpsOf(ToSet(cache[d]) \ {})
    BY OwedNext DEF CachedIps, IpPending
  <1>2. row \in ToSet(cache[d]) => d = Db(row)
    BY DEF Own
  <1> QED
    BY <1>1, <1>2 DEF IpsOf

\* A tag is remembered and listed, or was; or the exception is caught.
LEMMA TagOwed ==
    ASSUME Inv, Own, OwedBounded, Tag, UNCHANGED <<mode, made>>
    PROVE  OwedBounded'
  <1> DEFINE t == sent[row].tag
             known == [tagCache EXCEPT ![Db(row)] = @ \cup {t}]
             inserted == [tagsTable EXCEPT ![Db(row)] = @ \cup {t}]
  <1>0. /\ UNCHANGED <<sent, mode, dropped, stale, table, ipsTable>> /\ pc = "tag"
        /\ tagCache \in [Dbs -> SUBSET Tags] /\ tagsTable \in [Dbs -> SUBSET Tags]
    BY DEF Tag, made, mysql, Inv, TypeOK
  <1>1. \A d \in Dbs : Rows(d)' = Rows(d)
    BY <1>0, RowsNext
  <1>2. \/ Die /\ failures' = failures + 1 /\ tagsTable' \in {tagsTable, inserted}
        \/ /\ CatchesErrors /\ failures' = failures + 1 /\ pc' = "fetch"
           /\ tagCache' = known /\ tagsTable' \in {tagsTable, inserted}
           /\ UNCHANGED <<cache, ipCache>>
        \/ /\ pc' = "ip" /\ UNCHANGED <<row, cache, ipCache, failures>>
           /\ \/ /\ tagCache' = known /\ tagsTable' = inserted
              \/ /\ HasTag(row) => t \in tagCache[Db(row)]
                 /\ UNCHANGED <<tagCache, tagsTable>>
    BY DEF Tag, Raise, mysql, HasTag
  <1>3. \A d \in Dbs : /\ inserted[d] = tagsTable[d] \cup (IF d = Db(row) THEN {t} ELSE {})
                       /\ known[d] = tagCache[d] \cup (IF d = Db(row) THEN {t} ELSE {})
    BY <1>0
  <1> HIDE DEF known, inserted
  <1>4. CASE Die /\ failures' = failures + 1 /\ tagsTable' \in {tagsTable, inserted}
    <2>1. \A d \in Dbs : LessOwed(d)
      BY <1>0, <1>3, <1>4, DieOwed
    <2> QED
      BY <1>0, <1>4, <2>1, AllLessOwed
  <1>5. CASE /\ CatchesErrors /\ failures' = failures + 1 /\ pc' = "fetch"
             /\ tagCache' = known /\ tagsTable' \in {tagsTable, inserted}
             /\ UNCHANGED <<cache, ipCache>>
    <2>1. ASSUME NEW d \in Dbs
          PROVE  OwedTags(d)' \subseteq OwedTags(d) \cup (IF d = Db(row) THEN {t} ELSE {})
      <3>1. CachedTags(d)' \subseteq CachedTags(d) \cup (IF d = Db(row) THEN {t} ELSE {})
        BY <1>0, <1>5, TagSettled
      <3>2. OwedTags(d)' = Owes(tagCache'[d], tagsTable'[d], TagsOf(Rows(d)), CachedTags(d)')
        BY <1>0, <1>1, OwedNext
      <3>3. /\ tagCache'[d] = tagCache[d] \cup (IF d = Db(row) THEN {t} ELSE {})
            /\ tagsTable[d] \subseteq tagsTable'[d]
        BY <1>3, <1>5
      <3> QED
        BY <3>1, <3>2, <3>3 DEF OwedTags, Owes
    <2>2. ASSUME NEW d \in Dbs
          PROVE  OwedIps(d)' \subseteq OwedIps(d) \cup (IF d = Db(row) THEN {sent[row].ip} ELSE {})
      <3>1. CachedIps(d)' \subseteq CachedIps(d) \cup (IF d = Db(row) THEN {sent[row].ip} ELSE {})
        BY <1>0, <1>5, IpSettled
      <3>2. OwedIps(d)' = Owes(ipCache[d], ipsTable[d], IpsOf(Rows(d)), CachedIps(d)')
        BY <1>0, <1>1, <1>5, OwedNext
      <3> QED
        BY <3>1, <3>2 DEF OwedIps, Owes
    <2>3. OneMoreOwed(row)
      BY <2>1, <2>2 DEF OneMoreOwed
    <2> QED
      BY <1>0, <1>5, <2>3, OneMoreBounded
  <1>6. CASE /\ pc' = "ip" /\ UNCHANGED <<row, cache, ipCache, failures>>
             /\ \/ /\ tagCache' = known /\ tagsTable' = inserted
                \/ /\ HasTag(row) => t \in tagCache[Db(row)]
                   /\ UNCHANGED <<tagCache, tagsTable>>
    <2>1. ASSUME NEW d \in Dbs
          PROVE  OwedTags(d)' \subseteq OwedTags(d)
      <3>1. CachedTags(d)' \subseteq CachedTags(d) \cup (IF d = Db(row) /\ HasTag(row) THEN {t} ELSE {})
        BY <1>0, <1>6, TagSettled
      <3>2. OwedTags(d)' = Owes(tagCache'[d], tagsTable'[d], TagsOf(Rows(d)), CachedTags(d)')
        BY <1>0, <1>1, OwedNext
      <3>3. CASE tagCache' = known /\ tagsTable' = inserted
        <4>1. /\ tagCache'[d] = tagCache[d] \cup (IF d = Db(row) THEN {t} ELSE {})
              /\ tagsTable'[d] = tagsTable[d] \cup (IF d = Db(row) THEN {t} ELSE {})
          BY <1>3, <3>3
        <4> QED
          BY <3>1, <3>2, <4>1 DEF OwedTags, Owes
      <3>4. CASE /\ HasTag(row) => t \in tagCache[Db(row)]
                 /\ UNCHANGED <<tagCache, tagsTable>>
        <4>1. CachedTags(d)' \subseteq CachedTags(d) \cup tagCache[d]
          BY <3>1, <3>4
        <4> QED
          BY <3>2, <3>4, <4>1 DEF OwedTags, Owes
      <3> QED
        BY <1>6, <3>3, <3>4
    <2>2. ASSUME NEW d \in Dbs
          PROVE  OwedIps(d)' = OwedIps(d)
      <3>1. CachedIps(d)' = CachedIps(d)
        BY <1>0, <1>6, OwedNext DEF CachedIps, IpPending
      <3> QED
        BY <1>0, <1>1, <1>6, <3>1, OwedNext DEF OwedIps
    <2>3. \A d \in Dbs : LessOwed(d)
      BY <2>1, <2>2 DEF LessOwed
    <2> QED
      BY <1>0, <1>6, <2>3, AllLessOwed
  <1> QED
    BY <1>2, <1>4, <1>5, <1>6

\* The same for an ip.
LEMMA IpOwed ==
    ASSUME Inv, Own, OwedBounded, Ip, UNCHANGED <<mode, made>>
    PROVE  OwedBounded'
  <1> DEFINE p == sent[row].ip
             known == [ipCache EXCEPT ![Db(row)] = @ \cup {p}]
             inserted == [ipsTable EXCEPT ![Db(row)] = @ \cup {p}]
  <1>0. /\ UNCHANGED <<sent, mode, dropped, stale, table, tagsTable>> /\ pc = "ip"
        /\ ipCache \in [Dbs -> SUBSET Ips] /\ ipsTable \in [Dbs -> SUBSET Ips]
    BY DEF Ip, made, mysql, Inv, TypeOK
  <1>1. \A d \in Dbs : Rows(d)' = Rows(d)
    BY <1>0, RowsNext
  <1>2. \/ Die /\ failures' = failures + 1 /\ ipsTable' \in {ipsTable, inserted}
        \/ /\ CatchesErrors /\ failures' = failures + 1 /\ pc' = "fetch"
           /\ ipCache' = known /\ ipsTable' \in {ipsTable, inserted}
           /\ UNCHANGED <<cache, tagCache>>
        \/ /\ pc' = "store" /\ UNCHANGED <<row, cache, tagCache, failures>>
           /\ \/ /\ ipCache' = known /\ ipsTable' = inserted
              \/ /\ p \in ipCache[Db(row)]
                 /\ UNCHANGED <<ipCache, ipsTable>>
    BY DEF Ip, Raise, mysql
  <1>3. \A d \in Dbs : /\ inserted[d] = ipsTable[d] \cup (IF d = Db(row) THEN {p} ELSE {})
                       /\ known[d] = ipCache[d] \cup (IF d = Db(row) THEN {p} ELSE {})
    BY <1>0
  <1> HIDE DEF known, inserted
  <1>4. CASE Die /\ failures' = failures + 1 /\ ipsTable' \in {ipsTable, inserted}
    <2>1. \A d \in Dbs : LessOwed(d)
      BY <1>0, <1>3, <1>4, DieOwed
    <2> QED
      BY <1>0, <1>4, <2>1, AllLessOwed
  <1>5. ASSUME pc' \in {"fetch", "store"}, UNCHANGED <<cache, tagCache>>, NEW d \in Dbs
        PROVE  /\ OwedTags(d)' = OwedTags(d)
               /\ CachedIps(d)' \subseteq CachedIps(d) \cup (IF d = Db(row) THEN {p} ELSE {})
               /\ OwedIps(d)' = Owes(ipCache'[d], ipsTable'[d], IpsOf(Rows(d)), CachedIps(d)')
    <2>1. CachedTags(d)' = CachedTags(d)
      BY <1>0, <1>5, OwedNext DEF CachedTags, TagPending
    <2>2. OwedTags(d)' = OwedTags(d)
      BY <1>0, <1>1, <1>5, <2>1, OwedNext DEF OwedTags
    <2> QED
      BY <1>0, <1>1, <1>5, <2>2, OwedNext, IpSettled
  <1>6. CASE /\ CatchesErrors /\ failures' = failures + 1 /\ pc' = "fetch"
             /\ ipCache' = known /\ ipsTable' \in {ipsTable, inserted}
             /\ UNCHANGED <<cache, tagCache>>
    <2>1. ASSUME NEW d \in Dbs
          PROVE  OwedIps(d)' \subseteq OwedIps(d) \cup (IF d = Db(row) THEN {p} ELSE {})
      <3>1. /\ ipCache'[d] = ipCache[d] \cup (IF d = Db(row) THEN {p} ELSE {})
            /\ ipsTable[d] \subseteq ipsTable'[d]
        BY <1>3, <1>6
      <3>2. /\ CachedIps(d)' \subseteq CachedIps(d) \cup (IF d = Db(row) THEN {p} ELSE {})
            /\ OwedIps(d)' = Owes(ipCache'[d], ipsTable'[d], IpsOf(Rows(d)), CachedIps(d)')
        BY <1>5, <1>6
      <3> QED
        BY <3>1, <3>2 DEF OwedIps, Owes
    <2>2. OneMoreOwed(row)
      BY <1>5, <1>6, <2>1 DEF OneMoreOwed
    <2> QED
      BY <1>0, <1>6, <2>2, OneMoreBounded
  <1>7. CASE /\ pc' = "store" /\ UNCHANGED <<row, cache, tagCache, failures>>
             /\ \/ /\ ipCache' = known /\ ipsTable' = inserted
                \/ /\ p \in ipCache[Db(row)]
                   /\ UNCHANGED <<ipCache, ipsTable>>
    <2>1. ASSUME NEW d \in Dbs
          PROVE  OwedIps(d)' \subseteq OwedIps(d)
      <3>1. /\ CachedIps(d)' \subseteq CachedIps(d) \cup (IF d = Db(row) THEN {p} ELSE {})
            /\ OwedIps(d)' = Owes(ipCache'[d], ipsTable'[d], IpsOf(Rows(d)), CachedIps(d)')
        BY <1>5, <1>7
      <3>2. CASE ipCache' = known /\ ipsTable' = inserted
        <4>1. /\ ipCache'[d] = ipCache[d] \cup (IF d = Db(row) THEN {p} ELSE {})
              /\ ipsTable'[d] = ipsTable[d] \cup (IF d = Db(row) THEN {p} ELSE {})
          BY <1>3, <3>2
        <4> QED
          BY <3>1, <4>1 DEF OwedIps, Owes
      <3>3. CASE p \in ipCache[Db(row)] /\ UNCHANGED <<ipCache, ipsTable>>
        <4>1. CachedIps(d)' \subseteq CachedIps(d) \cup ipCache[d]
          BY <3>1, <3>3
        <4> QED
          BY <3>1, <3>3, <4>1 DEF OwedIps, Owes
      <3> QED
        BY <1>7, <3>2, <3>3
    <2>2. \A d \in Dbs : LessOwed(d)
      BY <1>5, <1>7, <2>1 DEF LessOwed
    <2> QED
      BY <1>0, <1>7, <2>2, AllLessOwed
  <1> QED
    BY <1>2, <1>4, <1>6, <1>7

\* A flush, that succeeds or raises.
LEMMA InsertOwed ==
    ASSUME Inv, OwedBounded, UNCHANGED <<sent, mode, made>>, NEW e \in Dbs,
           pc \notin {"tag", "ip"},
           MultiInsert(e) \/ MultiInsertRaises(e)
    PROVE  OwedBounded'
  <1>1. /\ failures' \in {failures, failures + 1} /\ UNCHANGED <<tagsTable, ipsTable, dropped, stale>>
    BY DEF MultiInsert, MultiInsertRaises, Raise, made
  <1>2. ASSUME NEW d \in Dbs
        PROVE  table'[d] = table[d] \/ table'[d] = table[d] \o cache[d]
    BY DEF MultiInsert, MultiInsertRaises, Inserted, Inv, TypeOK
  <1>3. ASSUME NEW d \in Dbs
        PROVE  LessOwed(d)
    <2>1. CASE Die
      BY <1>1, <1>2, <2>1, DieOwed
    <2>2. CASE /\ cache' \in {cache, [cache EXCEPT ![e] = <<>>]}
               /\ UNCHANGED <<tagCache, ipCache>>
      <3>1. cache'[d] = cache[d] \/ cache'[d] = <<>>
        BY <2>2 DEF Inv, TypeOK
      <3>2. ToSet(<<>>) = {}
        BY DEF ToSet
      <3>3. /\ ToSet(cache'[d]) \ TagPending' \subseteq ToSet(cache[d])
            /\ ToSet(cache'[d]) \ IpPending' \subseteq ToSet(cache[d])
        BY <3>1, <3>2
      <3> QED
        BY <1>1, <1>2, <2>2, <3>3, FlushOwed
    <2> QED
      BY <2>1, <2>2 DEF MultiInsert, MultiInsertRaises, Raise
  <1> QED
    BY <1>1, <1>3, AllLessOwed

\* A step that changes nothing of this.
LEMMA SameOwed ==
    ASSUME Inv, OwedBounded, UNCHANGED <<sent, mode, made, cache, tagCache, ipCache, mysql, failures>>,
           \/ UNCHANGED <<pc, row>>
           \/ pc \notin {"tag", "ip"}
    PROVE  OwedBounded'
  <1>1. ASSUME NEW d \in Dbs
        PROVE  LessOwed(d)
    <2>1. CASE UNCHANGED <<pc, row>>
      <3>1. /\ CachedTags(d)' = CachedTags(d) /\ CachedIps(d)' = CachedIps(d)
            /\ Rows(d)' = Rows(d)
        BY <2>1, OwedNext DEF CachedTags, CachedIps, TagPending, IpPending, Rows, mysql, made
      <3> QED
        BY <3>1, OwedNext DEF LessOwed, OwedTags, OwedIps, mysql
    <2>2. CASE pc \notin {"tag", "ip"}
      <3>1. /\ ToSet(cache'[d]) \ TagPending' \subseteq ToSet(cache[d])
            /\ ToSet(cache'[d]) \ IpPending' \subseteq ToSet(cache[d])
        OBVIOUS
      <3> QED
        BY <2>2, <3>1, FlushOwed DEF mysql, made
    <2> QED
      BY <2>1, <2>2
  <1> QED
    BY <1>1, AllLessOwed DEF made

\* A posting owes nothing: caches and tables have no row that was not posted.
LEMMA PostOwed ==
    ASSUME Inv, OwedBounded, NEW a \in Alarms, Post(a)
    PROVE  OwedBounded'
  <1>1. /\ UNCHANGED <<mode, pc, row, cache, tagCache, ipCache, mysql, failures, made>>
        /\ \A i \in Index : sent'[i] = sent[i]
    <2>1. [Next]_vars
      BY DEF Next
    <2> QED
      BY <2>1, SentSteps DEF Post, memory
  <1>2. ASSUME NEW d \in Dbs
        PROVE  LessOwed(d)
    <2>1. /\ ToSet(cache[d]) \subseteq Index /\ Rows(d) \subseteq Index
      <3>1. dropped[d] \in Nat /\ table[d] \in Seq(Index)
        BY DEF Inv, TypeOK
      <3>2. \A k \in (dropped[d] + 1)..Len(table[d]) : k \in 1..Len(table[d])
        BY <3>1, LenProperties
      <3>3. Rows(d) \subseteq Index
        BY <3>1, <3>2, ElementOfSeq DEF Rows
      <3> QED
        BY <3>3, RowTypes
    <2>2. Rows(d)' = Rows(d) /\ TagPending' = TagPending /\ IpPending' = IpPending
      BY <1>1 DEF Rows, TagPending, IpPending, mysql, made
    <2>3. \A i \in Index : HasTag(i)' <=> HasTag(i)
      BY <1>1 DEF HasTag, Consumer
    <2>4. \A R \in SUBSET Index : /\ {sent'[i].tag : i \in {j \in R : HasTag(j)'}} = TagsOf(R)
                                  /\ {sent'[i].ip : i \in R} = IpsOf(R)
      BY <1>1, <2>3 DEF TagsOf, IpsOf
    <2>5. /\ CachedTags(d)' = CachedTags(d) /\ CachedIps(d)' = CachedIps(d)
      BY <1>1, <2>1, <2>2, <2>4 DEF CachedTags, CachedIps, TagsOf, IpsOf
    <2>6. TagsOf(Rows(d))' = TagsOf(Rows(d)) /\ IpsOf(Rows(d))' = IpsOf(Rows(d))
      BY <2>1, <2>2, <2>4 DEF TagsOf, IpsOf
    <2> QED
      BY <1>1, <2>5, <2>6 DEF LessOwed, OwedTags, OwedIps, mysql
  <1> QED
    BY <1>1, <1>2, AllLessOwed DEF made

\* Every step keeps the count of what is owed, one action after the other.
LEMMA StepOwed == Inv /\ Own /\ OwedBounded /\ [Next]_vars => OwedBounded'
  <1> SUFFICES ASSUME Inv, Own, OwedBounded, [Next]_vars PROVE OwedBounded'
    OBVIOUS
  <1>1. CASE Process
    <2>0. UNCHANGED <<mode, made>>
      BY <1>1 DEF Process
    <2>1. CASE Fetch \/ Skip
      BY <2>0, <2>1, SameOwed DEF Fetch, Skip
    <2>2. CASE CacheRow \/ Tag \/ Ip
      BY <2>0, <2>2, CacheRowOwed, TagOwed, IpOwed
    <2>3. CASE Store
      <3>1. pc = "store" /\ UNCHANGED sent /\ Db(row) \in Dbs
        BY <2>3, AlarmType DEF Store, Inv, TypeOK
      <3>2. \/ MultiInsert(Db(row)) \/ MultiInsertRaises(Db(row))
            \/ UNCHANGED <<cache, tagCache, ipCache, mysql, failures>>
        BY <2>3 DEF Store
      <3> QED
        BY <2>0, <3>1, <3>2, InsertOwed, SameOwed
    <2>4. CASE Sweep
      <3>1. pc = "sweep" /\ UNCHANGED sent
        BY <2>4 DEF Sweep
      <3>2. \/ \E d \in Dbs : MultiInsert(d) \/ MultiInsertRaises(d)
            \/ UNCHANGED <<cache, tagCache, ipCache, mysql, failures>>
        BY <2>4 DEF Sweep
      <3> QED
        BY <2>0, <3>1, <3>2, InsertOwed, SameOwed
    <2> QED
      BY <1>1, <2>1, <2>2, <2>3, <2>4 DEF Process
  <1>2. CASE Kill
    <2>1. \A d \in Dbs : LessOwed(d)
      BY <1>2, DieOwed DEF Kill, mysql, made
    <2> QED
      BY <1>2, <2>1, AllLessOwed DEF Kill, made
  <1>3. CASE Restart
    BY <1>3, SameOwed DEF Restart
  <1>7. CASE FetchRaises
    <2>1. CASE Die
      <3>1. \A d \in Dbs : LessOwed(d)
        BY <1>7, <2>1, FetchRaisesIs, DieOwed DEF mysql, made
      <3> QED
        BY <1>7, <3>1, FetchRaisesIs, AllLessOwed DEF made
    <2>2. CASE UNCHANGED <<cache, tagCache, ipCache>>
      <3>1. \A d \in Dbs : LessOwed(d)
        BY <1>7, <2>2, FetchRaisesIs, FlushOwed DEF mysql, made
      <3> QED
        BY <1>7, <3>1, FetchRaisesIs, AllLessOwed DEF made
    <2> QED
      BY <1>7, <2>1, <2>2, FetchRaisesIs
  <1>4. CASE \E d \in Dbs : Remake(d)
    BY <1>4, RemakeOwed
  <1>5. CASE \E a \in Alarms : Post(a)
    BY <1>5, PostOwed
  <1>6. CASE UNCHANGED vars
    BY <1>6, SameOwed DEF vars, memory
  <1> QED
    BY <1>1, <1>2, <1>3, <1>4, <1>5, <1>6, <1>7 DEF Next

\* At first nothing is owed, and caches are empty.
LEMMA InitOwed == Init => Own /\ OwedBounded
  <1> SUFFICES ASSUME Init PROVE Own /\ OwedBounded
    OBVIOUS
  <1>1. \A d \in Dbs : ToSet(cache[d]) = {} /\ Rows(d) = {}
    BY Empty DEF Init, Seqs, ToSet, Rows
  <1>2. ASSUME NEW d \in Dbs
        PROVE  OwedTags(d) = {} /\ OwedIps(d) = {}
    <2>1. CachedTags(d) = {} /\ CachedIps(d) = {}
      BY <1>1 DEF CachedTags, CachedIps, TagsOf, IpsOf
    <2>2. TagsOf(Rows(d)) = {} /\ IpsOf(Rows(d)) = {} /\ tagCache[d] = {} /\ ipCache[d] = {}
      BY <1>1, SetsOf DEF Init, Sets
    <2> QED
      BY <2>1, <2>2 DEF OwedTags, OwedIps, Owes
  <1>3. Owed = {}
    BY <1>2 DEF Owed
  <1>4. Allowed = 0
    <2>1. Allowed = 2 * failures \/ Allowed = 0
      BY Zenon DEF Allowed
    <2> QED
      BY <2>1 DEF Init
  <1> QED
    BY <1>1, <1>3, <1>4, FS_EmptySet DEF Own, OwedBounded

\* Whatever is stored is found through tags_table and ips_table, but for two entries
\* for each exception that was caught, and those a process remembered of a database
\* that was dropped (metrics_counter_consumer.py:74-93, 123-140).
THEOREM RowsAreListed == Spec => []RowsListed
  <1>1. Inv /\ OwedBounded => RowsListed
    <2> SUFFICES ASSUME Inv, OwedBounded PROVE Cardinality(Unlisted \ stale) <= Allowed
      BY DEF RowsListed, Allowed
    <2> DEFINE A == Owed
               B == Unlisted \ stale
    <2>1. IsFiniteSet(A) /\ Cardinality(A) <= Allowed /\ B \subseteq A
      BY UnlistedOwed DEF OwedBounded
    <2> HIDE DEF A, B
    <2>2. IsFiniteSet(B) /\ Cardinality(B) <= Cardinality(A)
      BY <2>1, FS_Subset
    <2>3. Cardinality(B) \in Nat /\ Cardinality(A) \in Nat
      BY <2>1, <2>2, FS_CardinalityType
    <2>4. Allowed \in Nat
      <3>1. Allowed = 2 * failures \/ Allowed = 0
        BY Zenon DEF Allowed
      <3>2. failures \in Nat
        BY DEF Inv, TypeOK
      <3> QED
        BY <3>1, <3>2
    <2>5. Cardinality(B) <= Allowed
      BY <2>1, <2>2, <2>3, <2>4
    <2> QED
      BY <2>5 DEF B
  <1> QED
    BY <1>1, InitInv, StepInv, InitOwed, StepOwn, StepOwed, PTL DEF Spec
-----------------------------------------------------------------------------
\* Counting: the elements of a sequence, of a union, and of the first rows of caches.
LEMMA ElementsCount ==
    ASSUME NEW S
    PROVE  \A s \in Seq(S) : IsFiniteSet(ToSet(s)) /\ Cardinality(ToSet(s)) \in Nat
                             /\ Cardinality(ToSet(s)) <= Len(s)
  <1> SUFFICES ASSUME NEW s \in Seq(S)
               PROVE  IsFiniteSet(ToSet(s)) /\ Cardinality(ToSet(s)) \in Nat
                      /\ Cardinality(ToSet(s)) <= Len(s)
    OBVIOUS
  <1> DEFINE n == Len(s)
             T == ToSet(s)
  <1>1. n \in Nat /\ s \in [1..n -> S] /\ DOMAIN s = 1..n
    BY LenProperties
  <1>2. s \in Surjection(1..n, T)
    <2>1. s \in [1..n -> T]
      BY <1>1 DEF ToSet
    <2>2. \A x \in T : \E k \in 1..n : s[k] = x
      BY <1>1 DEF ToSet
    <2> QED
      BY <2>1, <2>2 DEF Surjection
  <1>3. IsFiniteSet(1..n) /\ Cardinality(1..n) = n
    BY <1>1, FS_Interval
  <1> HIDE DEF n, T
  <1>4. IsFiniteSet(T) /\ Cardinality(T) <= Cardinality(1..n)
    BY <1>2, <1>3, FS_Surjection
  <1>5. Cardinality(T) \in Nat
    BY <1>4, FS_CardinalityType
  <1> QED
    BY <1>3, <1>4, <1>5 DEF n, T

\* A union has at most the elements of its parts together.
LEMMA UnionCount ==
    ASSUME NEW A, NEW B, IsFiniteSet(A), IsFiniteSet(B)
    PROVE  /\ IsFiniteSet(A \cup B) /\ Cardinality(A \cup B) \in Nat
           /\ Cardinality(A) \in Nat /\ Cardinality(B) \in Nat
           /\ Cardinality(A \cup B) <= Cardinality(A) + Cardinality(B)
  <1>1. /\ IsFiniteSet(A \cup B)
        /\ Cardinality(A \cup B) = Cardinality(A) + Cardinality(B) - Cardinality(A \cap B)
    BY FS_Union
  <1>2. IsFiniteSet(A \cap B)
    BY FS_Intersection
  <1>3. /\ Cardinality(A) \in Nat /\ Cardinality(B) \in Nat
        /\ Cardinality(A \cap B) \in Nat /\ Cardinality(A \cup B) \in Nat
    BY <1>1, <1>2, FS_CardinalityType
  <1> QED
    BY <1>1, <1>3

\* A subset of a finite set has at most as many elements.
LEMMA SubsetCount ==
    ASSUME NEW A, NEW B, IsFiniteSet(A), B \subseteq A
    PROVE  /\ IsFiniteSet(B) /\ Cardinality(B) \in Nat /\ Cardinality(A) \in Nat
           /\ Cardinality(B) <= Cardinality(A)
  <1>1. IsFiniteSet(B) /\ Cardinality(B) <= Cardinality(A)
    BY FS_Subset
  <1> QED
    BY <1>1, FS_CardinalityType

\* The first n elements of each of some sequences.
Firsts(c, A, n) == {x \in UNION {ToSet(c[d]) : d \in A} :
                      \E d \in A : \E k \in DOMAIN c[d] : k <= n /\ c[d][k] = x}

\* The first n rows of some caches are at most n for each cache.
LEMMA FirstsCount ==
    ASSUME NEW A, IsFiniteSet(A), NEW S, NEW c, \A d \in A : c[d] \in Seq(S), NEW n \in Nat
    PROVE  /\ IsFiniteSet(Firsts(c, A, n)) /\ Cardinality(A) \in Nat
           /\ Cardinality(Firsts(c, A, n)) \in Nat
           /\ Cardinality(Firsts(c, A, n)) <= n * Cardinality(A)
  <1> DEFINE P == A \X (1..n)
             Q == {p \in P : p[2] \in DOMAIN c[p[1]]}
             f == [p \in Q |-> c[p[1]][p[2]]]
             T == Firsts(c, A, n)
  <1>1. /\ IsFiniteSet(1..n) /\ Cardinality(1..n) = n /\ Cardinality(A) \in Nat
    <2>1. IsFiniteSet(1..n) /\ Cardinality(1..n) = IF 1 > n THEN 0 ELSE n - 1 + 1
      BY FS_Interval
    <2>2. (IF 1 > n THEN 0 ELSE n - 1 + 1) = n
      OBVIOUS
    <2>3. Cardinality(A) \in Nat
      BY FS_CardinalityType
    <2> QED
      BY <2>1, <2>2, <2>3
  <1>2. /\ IsFiniteSet(P) /\ Cardinality(P) = Cardinality(A) * n
    <2> DEFINE N == 1..n
    <2>1. IsFiniteSet(N) /\ Cardinality(N) = n
      BY <1>1
    <2> HIDE DEF N
    <2>2. IsFiniteSet(A \X N) /\ Cardinality(A \X N) = Cardinality(A) * Cardinality(N)
      BY <2>1, FS_Product
    <2> QED
      BY <2>1, <2>2 DEF N
  <1>3. /\ IsFiniteSet(Q) /\ Cardinality(Q) \in Nat /\ Cardinality(Q) <= Cardinality(P)
    <2>1. Q \subseteq P
      OBVIOUS
    <2> HIDE DEF P, Q
    <2> QED
      BY <1>2, <2>1, SubsetCount
  <1>4. f \in Surjection(Q, T)
    <2>1. \A d \in A : DOMAIN c[d] = 1..Len(c[d]) /\ Len(c[d]) \in Nat
      BY LenProperties
    <2>2. ASSUME NEW p \in Q
          PROVE  f[p] \in T
      <3>1. /\ p[1] \in A /\ p[2] \in 1..n /\ p[2] \in DOMAIN c[p[1]]
            /\ f[p] = c[p[1]][p[2]]
        OBVIOUS
      <3>2. f[p] \in ToSet(c[p[1]]) /\ p[2] <= n
        BY <3>1 DEF ToSet
      <3> QED
        BY <3>1, <3>2 DEF Firsts
    <2>3. ASSUME NEW x \in T
          PROVE  \E p \in Q : f[p] = x
      <3>1. PICK d \in A : \E k \in DOMAIN c[d] : k <= n /\ c[d][k] = x
        BY DEF Firsts
      <3>2. PICK k \in DOMAIN c[d] : k <= n /\ c[d][k] = x
        BY <3>1
      <3>3. k \in 1..n
        BY <2>1, <3>2
      <3>4. <<d, k>> \in Q /\ f[<<d, k>>] = x
        BY <3>2, <3>3
      <3> QED
        BY <3>4
    <2>4. f \in [Q -> T]
      BY <2>2
    <2> HIDE DEF f, Q, T
    <2> QED
      BY <2>3, <2>4 DEF Surjection
  <1> HIDE DEF P, Q, f, T
  <1>5. IsFiniteSet(T) /\ Cardinality(T) <= Cardinality(Q)
    BY <1>3, <1>4, FS_Surjection
  <1>6. Cardinality(T) \in Nat
    BY <1>5, FS_CardinalityType
  <1>7. Cardinality(A) * n = n * Cardinality(A) /\ n * Cardinality(A) \in Nat
    BY <1>1
  <1> QED
    BY <1>1, <1>2, <1>3, <1>5, <1>6, <1>7 DEF T

\* The processes that end every batch with a flush of all caches.
Sweeping == Consumer.sweeps /\ ~CatchesErrors

\* Rows that a cache holds beyond what it may, but for the row being handled: a
\* failure that was caught has left them there.
Past(d) == {x \in ToSet(cache[d]) :
              ~Sweeping /\ \E k \in DOMAIN cache[d] :
                             cache[d][k] = x /\ (d \in Accumulating => ~(k <= CacheNum))}
Rest == IF pc \in Handling THEN {row} ELSE {}
Extra == (UNION {Past(d) : d \in Dbs}) \ Rest
Cached == UNION {ToSet(cache[d]) : d \in Dbs}

\* Rows lost, and those that may be lost for failures already counted.
Gone == Lost \cup Extra
Paid == Cardinality(Gone) <= failures * PerFailure

\* What a process that flushes after every batch holds is one batch.
Swept == Sweeping => /\ Cardinality(ToSet(batch) \cup Cached) <= Step
                     /\ pc \in {"fetch", "dead"} => Cached = {}

\* All of these are finite sets of indices, and the bound is a number.
LEMMA GoneTypes ==
    ASSUME Inv
    PROVE  /\ IsFiniteSet(Index) /\ Gone \subseteq Index /\ Extra \subseteq Cached
           /\ Cached \subseteq Index /\ ToSet(batch) \subseteq Index /\ Rest \subseteq Index
           /\ IsFiniteSet(Gone) /\ IsFiniteSet(Accumulating) /\ Accumulating \subseteq Dbs
           /\ PerFailure \in Nat /\ failures \in Nat
  <1>1. IsFiniteSet(Index)
    BY AlarmType, FS_Interval DEF Inv, Index
  <1>2. Cached \subseteq Index /\ Extra \subseteq Cached
    BY RowTypes DEF Cached, Extra, Past
  <1>3. Lost \subseteq Index
    <2>1. 1..next \subseteq Index
      BY AlarmType DEF Inv, TypeOK, Index
    <2> QED
      BY <2>1 DEF Lost
  <1>4. ToSet(batch) \subseteq Index /\ Rest \subseteq Index
    BY ElementsType DEF Inv, TypeOK, Rest, Handling
  <1>5. IsFiniteSet(Accumulating) /\ Accumulating \subseteq Dbs
    <2>1. Accumulating \subseteq Dbs
      BY DEF Accumulating
    <2> QED
      BY <2>1, DbsAssumption, FS_Subset
  <1>6. PerFailure \in Nat /\ failures \in Nat
    <2>1. Cardinality(Accumulating) \in Nat /\ Step \in Nat /\ CacheNum \in Nat
      BY <1>5, FS_CardinalityType, StepAssumption
    <2> QED
      BY <2>1 DEF PerFailure, Inv, TypeOK
  <1>7. IsFiniteSet(Gone) /\ Gone \subseteq Index
    BY <1>1, <1>2, <1>3, SubsetCount DEF Gone
  <1> QED
    BY <1>1, <1>2, <1>4, <1>5, <1>6, <1>7

\* What is lost with the process, or with the batch, is one batch and the caches.
LEMMA Stake ==
    ASSUME Inv, Swept
    PROVE  \E X \in SUBSET Index :
             /\ Cardinality(X) <= PerFailure
             /\ ToSet(batch) \cup Cached \subseteq Extra \cup X
             /\ ~Sweeping => ToSet(batch) \cup Rest \subseteq X
  <1>1. CASE Sweeping
    <2> DEFINE X == ToSet(batch) \cup Cached
    <2>1. X \subseteq Index /\ Cardinality(X) <= Step
      BY <1>1, GoneTypes DEF Swept
    <2>2. PerFailure = Step
      <3>1. Accumulating = {}
        BY <1>1 DEF Accumulating, Sweeping
      <3>2. Cardinality(Accumulating) = 0
        BY <3>1, FS_EmptySet
      <3>3. Step + CacheNum * 0 = Step
        BY StepAssumption
      <3> QED
        BY <3>2, <3>3 DEF PerFailure
    <2> HIDE DEF X
    <2>3. ToSet(batch) \cup Cached \subseteq Extra \cup X
      BY DEF X
    <2> QED
      BY <1>1, <2>1, <2>2, <2>3
  <1>2. CASE ~Sweeping
    <2> DEFINE H == ToSet(batch) \cup Rest
               F == Firsts(cache, Accumulating, CacheNum)
               X == H \cup F
    <2>1. IsFiniteSet(H) /\ Cardinality(H) <= Step /\ Cardinality(H) \in Nat
      <3> DEFINE B == ToSet(batch)
      <3>1. /\ IsFiniteSet(B) /\ Cardinality(B) \in Nat /\ Cardinality(B) <= Len(batch)
            /\ Len(batch) \in Nat /\ Len(batch) <= Step /\ Step \in Nat
        <4>1. batch \in Seq(Index) /\ Len(batch) <= Step
          BY DEF Inv, TypeOK
        <4> QED
          BY <4>1, ElementsCount, LenProperties, StepAssumption
      <3> HIDE DEF B
      <3>2. CASE pc \in Handling
        <4>1. H \subseteq B \cup {row}
          BY DEF B, Rest
        <4>2. IsFiniteSet(H) /\ Cardinality(H) \in Nat /\ Cardinality(H) <= Cardinality(B) + 1
          <5> HIDE DEF H
          <5> QED
            BY <3>1, <4>1, GrowsByOne
        <4>3. Len(batch) < Step
          BY <3>2 DEF Inv, BatchFits, Handling
        <4> HIDE DEF H
        <4> QED
          BY <3>1, <4>2, <4>3
      <3>3. CASE pc \notin Handling
        <4>1. H = B
          BY <3>3 DEF B, Rest
        <4> HIDE DEF H
        <4> QED
          BY <3>1, <4>1
      <3> QED
        BY <3>2, <3>3
    <2>2. /\ IsFiniteSet(F) /\ Cardinality(F) \in Nat /\ Cardinality(Accumulating) \in Nat
          /\ Cardinality(F) <= CacheNum * Cardinality(Accumulating)
      <3>1. \A d \in Accumulating : cache[d] \in Seq(Index)
        BY GoneTypes DEF Inv, TypeOK
      <3>2. CacheNum \in Nat /\ IsFiniteSet(Accumulating)
        BY StepAssumption, GoneTypes
      <3> QED
        BY <3>1, <3>2, FirstsCount
    <2>3. Cardinality(X) <= PerFailure
      <3> HIDE DEF H, F
      <3>1. /\ Cardinality(X) <= Cardinality(H) + Cardinality(F) /\ Cardinality(X) \in Nat
        BY <2>1, <2>2, UnionCount
      <3> HIDE DEF X
      <3>2. Step \in Nat /\ CacheNum \in Nat /\ CacheNum * Cardinality(Accumulating) \in Nat
        BY <2>2, StepAssumption
      <3>3. \A h, f, s, m, x \in Nat : x <= h + f /\ h <= s /\ f <= m => x <= s + m
        OBVIOUS
      <3> QED
        BY <2>1, <2>2, <3>1, <3>2, <3>3 DEF PerFailure
    <2>4. F \subseteq Index
      BY GoneTypes, RowTypes DEF Firsts
    <2>5. X \subseteq Index
      BY <2>4, GoneTypes
    <2>6. ASSUME NEW x \in Cached
          PROVE  x \in Extra \cup X
      <3>1. PICK d \in Dbs : x \in ToSet(cache[d])
        BY DEF Cached
      <3>2. PICK k \in DOMAIN cache[d] : cache[d][k] = x
        BY <3>1 DEF ToSet
      <3>3. CASE d \in Accumulating /\ k <= CacheNum
        BY <3>1, <3>2, <3>3 DEF Firsts
      <3>4. CASE ~(d \in Accumulating /\ k <= CacheNum)
        <4>1. x \in Past(d)
          <5> HIDE DEF X
          <5> QED
            BY <1>2, <3>1, <3>2, <3>4 DEF Past
        <4> HIDE DEF F
        <4> QED
          BY <3>1, <4>1 DEF Extra
      <3> QED
        BY <3>3, <3>4
    <2> QED
      BY <2>3, <2>5, <2>6
  <1> QED
    BY <1>1, <1>2

\* Counting what is gone.
LEMMA GoneLess ==
    ASSUME Inv, Paid, UNCHANGED <<mode, failures>>, Gone' \subseteq Gone
    PROVE  Paid'
  <1> DEFINE A == Gone
             B == Gone'
  <1>1. IsFiniteSet(A) /\ B \subseteq A /\ failures * PerFailure \in Nat
    BY GoneTypes
  <1>2. Cardinality(A) <= failures * PerFailure
    BY DEF Paid
  <1>3. PerFailure' = PerFailure
    BY DEF PerFailure, Accumulating, Consumer, CatchesErrors
  <1> HIDE DEF A, B
  <1>4. /\ Cardinality(B) \in Nat /\ Cardinality(A) \in Nat
        /\ Cardinality(B) <= Cardinality(A)
    BY <1>1, SubsetCount
  <1>5. Cardinality(B) <= failures * PerFailure
    BY <1>1, <1>2, <1>4
  <1> QED
    BY <1>3, <1>5 DEF Paid, B

\* A failure that costs no more than what the process holds is paid by its count.
LEMMA GoneMore ==
    ASSUME Inv, Paid, Swept, UNCHANGED mode, failures' = failures + 1,
           \/ Gone' \subseteq Gone \cup (ToSet(batch) \cup Cached)
           \/ ~Sweeping /\ Gone' \subseteq Gone \cup (ToSet(batch) \cup Rest)
    PROVE  Paid'
  <1> DEFINE A == Gone
             B == Gone'
             P == PerFailure
  <1>1. IsFiniteSet(A) /\ failures \in Nat /\ P \in Nat /\ IsFiniteSet(Index)
    BY GoneTypes
  <1>2. Cardinality(A) <= failures * P
    BY DEF Paid
  <1>3. PerFailure' = P
    BY DEF PerFailure, Accumulating, Consumer, CatchesErrors
  <1>4. PICK X \in SUBSET Index :
             /\ Cardinality(X) <= P
             /\ ToSet(batch) \cup Cached \subseteq Extra \cup X
             /\ ~Sweeping => ToSet(batch) \cup Rest \subseteq X
    BY Stake
  <1>5. B \subseteq A \cup X
    BY <1>4 DEF Gone
  <1> HIDE DEF A, B, P
  <1>6. /\ IsFiniteSet(X) /\ Cardinality(X) \in Nat /\ Cardinality(A) \in Nat
        /\ IsFiniteSet(A \cup X) /\ Cardinality(A \cup X) \in Nat
        /\ Cardinality(A \cup X) <= Cardinality(A) + Cardinality(X)
    <2>1. IsFiniteSet(X)
      BY <1>1, SubsetCount
    <2> QED
      BY <1>1, <2>1, UnionCount
  <1>7. Cardinality(B) \in Nat /\ Cardinality(B) <= Cardinality(A \cup X)
    <2> DEFINE U == A \cup X
    <2>1. IsFiniteSet(U) /\ B \subseteq U
      BY <1>5, <1>6
    <2> HIDE DEF U
    <2>2. Cardinality(B) \in Nat /\ Cardinality(B) <= Cardinality(U)
      BY <2>1, SubsetCount
    <2> QED
      BY <2>2 DEF U
  <1>8. (failures + 1) * P = failures * P + P /\ failures * P \in Nat
    BY <1>1
  <1>9. Cardinality(B) <= failures * P + P
    <2>1. \A b, u, a, x, m, p \in Nat : b <= u /\ u <= a + x /\ a <= m /\ x <= p => b <= m + p
      OBVIOUS
    <2> QED
      BY <1>1, <1>2, <1>4, <1>6, <1>7, <1>8, <2>1
  <1> QED
    BY <1>3, <1>8, <1>9 DEF Paid, B

\* What is held or stored, and lost, after a step that posts and pops nothing.
LEMMA LostNext ==
    ASSUME UNCHANGED <<sent, next>>, NEW X, NEW Y,
           ToSet(batch) \cup Cached \subseteq ToSet(batch') \cup Cached' \cup Stored' \cup X,
           Stored \subseteq Stored', \A i \in X : i \in Y \/ sent[i].kind = "alien"
    PROVE  Lost' \subseteq Lost \cup Y
  <1>1. InMemory = ToSet(batch) \cup Cached /\ InMemory' = ToSet(batch') \cup Cached'
    BY DEF InMemory, Cached
  <1> QED
    BY <1>1 DEF Lost

\* The tables keep what they have.
LEMMA StoredGrows ==
    ASSUME Inv, NEW e \in Dbs
    PROVE  /\ UNCHANGED table => Stored' = Stored
           /\ table' = Inserted(e) => Stored' = Stored \cup ToSet(cache[e])
  <1>1. UNCHANGED table => Stored' = Stored
    BY DEF Stored
  <1>2. ASSUME table' = Inserted(e)
        PROVE  Stored' = Stored \cup ToSet(cache[e])
    <2>1. /\ table \in [Dbs -> Seq(Index)] /\ cache[e] \in Seq(Index) /\ table[e] \in Seq(Index)
      BY DEF Inv, TypeOK
    <2>2. \A d \in Dbs : table'[d] = IF d = e THEN table[d] \o cache[e] ELSE table[d]
      BY <1>2, <2>1 DEF Inserted
    <2>3. ToSet(table[e] \o cache[e]) = ToSet(table[e]) \cup ToSet(cache[e])
      BY <2>1, ConcatSet
    <2>4. \A d \in Dbs : ToSet(table'[d]) = IF d = e THEN ToSet(table[d]) \cup ToSet(cache[e])
                                                     ELSE ToSet(table[d])
      BY <2>2, <2>3, Zenon
    <2> QED
      BY <2>4 DEF Stored
  <1> QED
    BY <1>1, <1>2

\* The end of the process: a kill, or an exception that is not caught.
LEMMA DiePaid ==
    ASSUME Inv, Paid, Swept, UNCHANGED <<mode, sent, next>>, Die, failures' = failures + 1,
           UNCHANGED table \/ \E e \in Dbs : table' = Inserted(e)
    PROVE  Paid' /\ Swept'
  <1>1. /\ \A d \in Dbs : cache'[d] = <<>> /\ Past(d)' = {}
        /\ Cached' = {} /\ batch' = <<>> /\ pc' = "dead"
    BY DEF Die, Seqs, Past, Cached, ToSet
  <1>2. Stored \subseteq Stored'
    <2>1. CASE UNCHANGED table
      BY <2>1 DEF Stored
    <2>2. CASE \E e \in Dbs : table' = Inserted(e)
      <3>1. PICK e \in Dbs : table' = Inserted(e)
        BY <2>2
      <3>2. Stored' = Stored \cup ToSet(cache[e])
        BY <3>1, StoredGrows
      <3> QED
        BY <3>2
    <2> QED
      BY <2>1, <2>2
  <1>3. Extra' = {}
    BY <1>1 DEF Extra
  <1>4. Lost' \subseteq Lost \cup (ToSet(batch) \cup Cached)
    BY <1>2, LostNext
  <1>5. Paid'
    BY <1>3, <1>4, GoneMore DEF Gone
  <1>6. Swept'
    <2>1. ToSet(batch') \cup Cached' = {}
      BY <1>1 DEF ToSet
    <2>2. 0 <= Step
      BY StepAssumption
    <2> QED
      BY <1>1, <2>1, <2>2, FS_EmptySet DEF Swept
  <1> QED
    BY <1>5, <1>6

\* A cache that grows by one row, and one that stays.
LEMMA PastGrows ==
    ASSUME Inv, UNCHANGED mode, NEW d \in Dbs, NEW i \in Index,
           cache'[d] = Append(cache[d], i)
    PROVE  Past(d)' \subseteq Past(d) \cup {i} /\ ToSet(cache'[d]) = ToSet(cache[d]) \cup {i}
  <1> DEFINE c == cache[d]
             e == cache'[d]
  <1>1. /\ Len(c) \in Nat /\ DOMAIN c = 1..Len(c) /\ DOMAIN e = 1..(Len(c) + 1)
        /\ \A k \in 1..Len(c) : e[k] = c[k]
        /\ e[Len(c) + 1] = i /\ ToSet(e) = ToSet(c) \cup {i}
    <2>1. c \in Seq(Index) /\ e = Append(c, i)
      BY DEF Inv, TypeOK
    <2> HIDE DEF c, e
    <2> QED
      BY <2>1, AppendSet, AppendProperties, LenProperties
  <1>2. /\ Sweeping' <=> Sweeping
        /\ d \in Accumulating' <=> d \in Accumulating
    BY DEF Sweeping, Accumulating, Consumer, CatchesErrors
  <1>3. ASSUME NEW x \in Past(d)', x # i
        PROVE  x \in Past(d)
    <2>1. /\ x \in ToSet(e) /\ ~Sweeping
          /\ \E k \in DOMAIN e : e[k] = x /\ (d \in Accumulating => ~(k <= CacheNum))
      BY <1>2 DEF Past
    <2>2. PICK k \in DOMAIN e : e[k] = x /\ (d \in Accumulating => ~(k <= CacheNum))
      BY <2>1
    <2> HIDE DEF c, e
    <2>3. k \in DOMAIN c /\ c[k] = x /\ x \in ToSet(c)
      BY <1>1, <1>3, <2>1, <2>2
    <2> QED
      BY <2>1, <2>2, <2>3 DEF Past, c
  <1> QED
    BY <1>1, <1>3

\* A cache that stays, or is emptied, has no more rows beyond what it may hold.
LEMMA PastStays ==
    ASSUME UNCHANGED mode, NEW d, cache'[d] = cache[d] \/ cache'[d] = <<>>
    PROVE  /\ Past(d)' \subseteq Past(d) /\ ToSet(cache'[d]) \subseteq ToSet(cache[d])
           /\ cache'[d] = <<>> => Past(d)' = {}
  <1>1. CASE cache'[d] = <<>>
    BY <1>1 DEF Past, ToSet
  <1>2. CASE cache'[d] = cache[d]
    <2>1. Past(d)' = Past(d)
      BY <1>2 DEF Past, Sweeping, Accumulating, Consumer, CatchesErrors
    <2>2. cache'[d] = <<>> => Past(d)' = {}
      BY DEF Past, ToSet
    <2> QED
      BY <1>2, <2>1, <2>2
  <1> QED
    BY <1>1, <1>2

\* A process that holds less than a batch still does.
LEMMA HeldLess ==
    ASSUME Inv, Cardinality(ToSet(batch) \cup Cached) <= Step,
           ToSet(batch') \cup Cached' \subseteq ToSet(batch) \cup Cached
    PROVE  Cardinality(ToSet(batch') \cup Cached') <= Step
  <1> DEFINE A == ToSet(batch) \cup Cached
             B == ToSet(batch') \cup Cached'
  <1>1. IsFiniteSet(A) /\ B \subseteq A /\ Cardinality(A) <= Step /\ Step \in Nat
    <2>1. A \subseteq Index /\ IsFiniteSet(Index)
      BY GoneTypes
    <2> QED
      BY <2>1, SubsetCount, StepAssumption
  <1> HIDE DEF A, B
  <1>2. Cardinality(B) \in Nat /\ Cardinality(A) \in Nat /\ Cardinality(B) <= Cardinality(A)
    BY <1>1, SubsetCount
  <1>3. Cardinality(B) <= Step
    BY <1>1, <1>2
  <1> QED
    BY <1>3 DEF B

\* A step that keeps what the process holds: it pops an alarm, or moves rows from
\* the batch to a cache or from a cache to the table.
LEMMA KeepPaid ==
    ASSUME Inv, Paid, UNCHANGED <<mode, failures>>, Lost' \subseteq Lost,
           \A d \in Dbs : Past(d)' \ Rest' \subseteq Past(d) \ Rest
    PROVE  Paid'
  <1>1. Extra' \subseteq Extra
    <2> SUFFICES ASSUME NEW x \in Extra' PROVE x \in Extra
      OBVIOUS
    <2>1. PICK d \in Dbs : x \in Past(d)' /\ x \notin Rest'
      BY DEF Extra
    <2>2. x \in Past(d) /\ x \notin Rest
      BY <2>1
    <2> QED
      BY <2>2 DEF Extra
  <1> QED
    BY <1>1, GoneLess DEF Gone

\* A pop: the alarm is in the batch, and a sweeping process had empty caches.
LEMMA FetchPaid ==
    ASSUME Inv, Paid, Swept, Fetch, UNCHANGED mode
    PROVE  Paid' /\ Swept'
  <1>1. /\ next + 1 \in Index /\ batch \in Seq(Index) /\ batch' = Append(batch, next + 1)
        /\ next \in Nat /\ next' = next + 1
        /\ UNCHANGED <<sent, row, cache, table, failures>> /\ pc = "fetch" /\ pc' \in {"fetch", "row"}
    BY LenProperties DEF Inv, TypeOK, Fetch, Index, mysql
  <1>2. ToSet(batch') = ToSet(batch) \cup {next + 1}
    BY <1>1, AppendSet
  <1>3. /\ \A d \in Dbs : Past(d)' = Past(d)
        /\ Rest = {} /\ Rest' = {} /\ Cached' = Cached /\ Stored' = Stored
    BY <1>1 DEF Past, Rest, Handling, Cached, Stored, Sweeping, Accumulating, Consumer, CatchesErrors
  <1>4. Lost' \subseteq Lost
    <2>1. InMemory = ToSet(batch) \cup Cached /\ InMemory' = ToSet(batch') \cup Cached'
      BY DEF InMemory, Cached
    <2>2. \A i \in 1..(next + 1) : i \in 1..next \/ i = next + 1
      BY <1>1
    <2> QED
      BY <1>1, <1>2, <1>3, <2>1, <2>2 DEF Lost
  <1>5. Paid'
    BY <1>1, <1>3, <1>4, KeepPaid
  <1>6. Swept'
    <2> SUFFICES ASSUME Sweeping
                 PROVE  /\ Cardinality(ToSet(batch') \cup Cached') <= Step
                        /\ pc' \in {"fetch", "dead"} => Cached' = {}
      BY DEF Swept, Sweeping, Consumer, CatchesErrors
    <2>1. Cached = {} /\ Cached' = {}
      BY <1>1, <1>3 DEF Swept
    <2>2. Cardinality(ToSet(batch')) <= Len(batch') /\ Len(batch') <= Step
      <3>1. batch' \in Seq(Index) /\ Len(batch') = Len(batch) + 1 /\ Len(batch) \in Nat
        BY <1>1, AppendProperties, LenProperties
      <3>2. Len(batch) < Step
        BY <1>1 DEF Inv, BatchFits
      <3> QED
        BY <3>1, <3>2, ElementsCount, StepAssumption
    <2>3. Cardinality(ToSet(batch')) \in Nat /\ Len(batch') \in Nat /\ Step \in Nat
      <3>1. batch' \in Seq(Index)
        BY <1>1, AppendProperties
      <3> QED
        BY <3>1, ElementsCount, LenProperties, StepAssumption
    <2>4. ToSet(batch') \cup Cached' = ToSet(batch')
      BY <2>1
    <2> QED
      BY <2>1, <2>2, <2>3, <2>4
  <1> QED
    BY <1>5, <1>6

\* What a batch loses with its head.
LEMMA TailSet ==
    ASSUME Inv, pc = "row"
    PROVE  ToSet(batch) = ToSet(Tail(batch)) \cup {Head(batch)}
  <1> DEFINE t == Tail(batch)
             n == Len(batch)
  <1>1. /\ n \in Nat \ {0} /\ DOMAIN batch = 1..n /\ DOMAIN t = 1..(n - 1)
        /\ Head(batch) = batch[1] /\ \A k \in 1..(n - 1) : t[k] = batch[k + 1]
    <2>1. batch \in Seq(Index) /\ batch # <<>>
      BY DEF Inv, TypeOK, BatchFits
    <2> QED
      BY <2>1, HeadTailProperties, LenProperties, EmptySeq
  <1> HIDE DEF t, n
  <1>2. /\ \A k \in 1..n : k = 1 \/ (k - 1 \in 1..(n - 1) /\ (k - 1) + 1 = k)
        /\ \A k \in 1..(n - 1) : k + 1 \in 1..n
        /\ 1 \in 1..n
    BY <1>1
  <1>3. \A k \in 1..n : batch[k] = batch[1] \/ \E j \in 1..(n - 1) : t[j] = batch[k]
    BY <1>1, <1>2
  <1>4. ToSet(t) \cup {Head(batch)} \subseteq ToSet(batch)
    BY <1>1, <1>2 DEF ToSet
  <1>5. ASSUME NEW x \in ToSet(batch)
        PROVE  x \in ToSet(t) \cup {Head(batch)}
    <2>1. PICK k \in 1..n : batch[k] = x
      BY <1>1 DEF ToSet
    <2>2. CASE x = Head(batch)
      BY <2>2
    <2>3. CASE x # Head(batch)
      <3>1. \E j \in 1..(n - 1) : t[j] = x
        BY <1>1, <1>3, <2>1, <2>3
      <3> QED
        BY <1>1, <3>1 DEF ToSet
    <2> QED
      BY <2>2, <2>3
  <1> QED
    BY <1>4, <1>5 DEF t

\* An alarm of another type is no loss.
LEMMA SkipPaid ==
    ASSUME Inv, Paid, Swept, Skip, UNCHANGED mode
    PROVE  Paid' /\ Swept'
  <1>1. /\ batch' = Tail(batch) /\ UNCHANGED <<sent, next, row, cache, table, failures>>
        /\ pc = "row" /\ pc' = Continue(Tail(batch)) /\ sent[Head(batch)].kind = "alien"
    BY DEF Skip, mysql
  <1>2. ToSet(batch) = ToSet(batch') \cup {Head(batch)}
    BY <1>1, TailSet
  <1>3. /\ \A d \in Dbs : Past(d)' = Past(d)
        /\ Rest = {} /\ Rest' = {} /\ Cached' = Cached /\ Stored' = Stored
    BY <1>1 DEF Past, Rest, Handling, Cached, Stored, Sweeping, Accumulating, Consumer,
                CatchesErrors, Continue
  <1>4. Lost' \subseteq Lost
    <2>1. InMemory = ToSet(batch) \cup Cached /\ InMemory' = ToSet(batch') \cup Cached'
      BY DEF InMemory, Cached
    <2> QED
      BY <1>1, <1>2, <1>3, <2>1 DEF Lost
  <1>5. Paid'
    BY <1>1, <1>3, <1>4, KeepPaid
  <1>6. Swept'
    <2> SUFFICES ASSUME Sweeping
                 PROVE  /\ Cardinality(ToSet(batch') \cup Cached') <= Step
                        /\ pc' \in {"fetch", "dead"} => Cached' = {}
      BY DEF Swept, Sweeping, Consumer, CatchesErrors
    <2>1. pc' \in {"row", "sweep"}
      BY <1>1 DEF Continue, Sweeping
    <2>2. ToSet(batch') \cup Cached' \subseteq ToSet(batch) \cup Cached
      BY <1>2, <1>3
    <2>3. Cardinality(ToSet(batch) \cup Cached) <= Step
      BY DEF Swept
    <2> QED
      BY <2>1, <2>2, <2>3, HeldLess
  <1> QED
    BY <1>5, <1>6

\* The rows a step may add to those beyond what a cache may hold are known.
LEMMA ExtraWithin ==
    ASSUME NEW Z, \A d \in Dbs : Past(d)' \subseteq Past(d) \cup Z
    PROVE  Extra' \subseteq (Extra \cup Rest) \cup Z
  <1> SUFFICES ASSUME NEW x \in Extra', x \notin Rest, x \notin Z
               PROVE  x \in Extra
    OBVIOUS
  <1>1. PICK d \in Dbs : x \in Past(d)'
    BY DEF Extra
  <1>2. x \in Past(d)
    BY <1>1
  <1> QED
    BY <1>2 DEF Extra

\* An exception that ends only the batch, its row being in a cache.
LEMMA CaughtPaid ==
    ASSUME Inv, Paid, Swept, UNCHANGED <<mode, sent, next>>, CatchesErrors,
           failures' = failures + 1, Cached \subseteq Cached', Stored \subseteq Stored',
           \A d \in Dbs : Past(d)' \subseteq Past(d) \cup ToSet(batch)
    PROVE  Paid' /\ Swept'
  <1> DEFINE B == ToSet(batch)
  <1>1. ~Sweeping /\ ~Sweeping'
    BY DEF Sweeping, CatchesErrors
  <1>2. Lost' \subseteq Lost \cup B
    <2>1. B \cup Cached \subseteq ToSet(batch') \cup Cached' \cup Stored' \cup B
      OBVIOUS
    <2> HIDE DEF B
    <2> QED
      BY <2>1, LostNext DEF B
  <1>3. Extra' \subseteq (Extra \cup Rest) \cup B
    BY ExtraWithin
  <1>4. Gone' \subseteq Gone \cup (B \cup Rest)
    BY <1>2, <1>3 DEF Gone
  <1> QED
    BY <1>1, <1>4, GoneMore DEF Swept

\* The row moves from the batch to its cache; until it is handled it counts as the batch's.
LEMMA CacheRowPaid ==
    ASSUME Inv, Paid, Swept, CacheRow, UNCHANGED mode
    PROVE  Paid' /\ Swept'
  <1> DEFINE i == Head(batch)
             grown == [cache EXCEPT ![Db(i)] = Append(@, i)]
  <1>1. /\ i \in Index /\ i \in ToSet(batch) /\ ToSet(batch) = ToSet(Tail(batch)) \cup {i}
        /\ pc = "row" /\ Rest = {} /\ Db(i) \in Dbs
    <2>1. i \in Index
      BY BatchTail DEF CacheRow, Inv, BatchFits
    <2>2. ToSet(batch) = ToSet(Tail(batch)) \cup {i}
      BY TailSet DEF CacheRow
    <2> QED
      BY <2>1, <2>2, AlarmType DEF CacheRow, Rest, Handling, Inv
  <1>2. /\ UNCHANGED <<sent, next, table>>
        /\ \/ Raise(grown, tagCache, ipCache)
           \/ /\ batch' = Tail(batch) /\ row' = i /\ cache' = grown
              /\ pc' = "tag" /\ UNCHANGED failures
    BY DEF CacheRow, mysql
  <1>3. cache \in [Dbs -> Seq(Index)]
    BY DEF Inv, TypeOK
  <1>4. Stored' = Stored
    BY <1>2 DEF Stored
  <1> HIDE DEF i
  <1>5. ASSUME cache' = grown
        PROVE  /\ \A d \in Dbs : Past(d)' \subseteq Past(d) \cup {i}
               /\ Cached' = Cached \cup {i}
    <2>1. \A d \in Dbs : cache'[d] = IF d = Db(i) THEN Append(cache[d], i) ELSE cache[d]
      BY <1>3, <1>5
    <2>2. ASSUME NEW d \in Dbs
          PROVE  /\ Past(d)' \subseteq Past(d) \cup {i}
                 /\ ToSet(cache'[d]) = IF d = Db(i) THEN ToSet(cache[d]) \cup {i}
                                                    ELSE ToSet(cache[d])
      <3>1. CASE d = Db(i)
        BY <1>1, <2>1, <3>1, PastGrows
      <3>2. CASE d # Db(i)
        <4>1. cache'[d] = cache[d]
          BY <2>1, <3>2
        <4>2. Past(d)' \subseteq Past(d)
          BY <4>1, PastStays
        <4> QED
          BY <3>2, <4>1, <4>2
      <3> QED
        BY <3>1, <3>2
    <2>3. Cached' = Cached \cup {i}
      <3>1. Db(i) \in Dbs
        BY <1>1
      <3>2. \A d \in Dbs : ToSet(cache'[d]) = IF d = Db(i) THEN ToSet(cache[d]) \cup {i}
                                                           ELSE ToSet(cache[d])
        BY <2>2
      <3> QED
        BY <3>1, <3>2 DEF Cached
    <2> QED
      BY <2>2, <2>3
  <1>6. CASE Raise(grown, tagCache, ipCache) /\ ~CatchesErrors
    BY <1>2, <1>6, DiePaid DEF Raise
  <1>7. CASE Raise(grown, tagCache, ipCache) /\ CatchesErrors
    <2>1. cache' = grown /\ failures' = failures + 1
      BY <1>7 DEF Raise
    <2>2. /\ Cached \subseteq Cached'
          /\ \A d \in Dbs : Past(d)' \subseteq Past(d) \cup ToSet(batch)
      BY <1>1, <1>5, <2>1
    <2> QED
      BY <1>2, <1>4, <1>7, <2>1, <2>2, CaughtPaid
  <1>8. CASE /\ batch' = Tail(batch) /\ row' = i /\ cache' = grown
             /\ pc' = "tag" /\ UNCHANGED failures
    <2>1. Rest' = {i}
      BY <1>8 DEF Rest, Handling
    <2>2. \A d \in Dbs : Past(d)' \ Rest' \subseteq Past(d) \ Rest
      BY <1>1, <1>5, <1>8, <2>1
    <2>3. ToSet(batch') \cup Cached' = ToSet(batch) \cup Cached
      BY <1>1, <1>5, <1>8
    <2>4. Lost' \subseteq Lost
      <3>1. InMemory = ToSet(batch) \cup Cached /\ InMemory' = ToSet(batch') \cup Cached'
        BY DEF InMemory, Cached
      <3> QED
        BY <1>2, <1>4, <2>3, <3>1 DEF Lost
    <2>5. Paid'
      BY <1>8, <2>2, <2>4, KeepPaid
    <2>6. Swept'
      <3> SUFFICES ASSUME Sweeping
                   PROVE  /\ Cardinality(ToSet(batch') \cup Cached') <= Step
                          /\ pc' \in {"fetch", "dead"} => Cached' = {}
        BY DEF Swept, Sweeping, Consumer, CatchesErrors
      <3>1. Cardinality(ToSet(batch) \cup Cached) <= Step
        BY DEF Swept
      <3> QED
        BY <1>8, <2>3, <3>1
    <2> QED
      BY <2>5, <2>6
  <1> QED
    BY <1>2, <1>6, <1>7, <1>8

\* The tag and the ip are listed: the row is in its cache by then.
LEMMA ListPaid ==
    ASSUME Inv, Paid, Swept, Tag \/ Ip, UNCHANGED mode
    PROVE  Paid' /\ Swept'
  <1>1. /\ UNCHANGED <<sent, next, table>> /\ pc \in {"tag", "ip"}
        /\ \/ pc' \in {"ip", "store"} /\ UNCHANGED <<batch, row, cache, failures>>
           \/ \E T, P : Raise(cache, T, P)
    BY DEF Tag, Ip, mysql
  <1>2. Stored' = Stored
    BY <1>1 DEF Stored
  <1>3. CASE pc' \in {"ip", "store"} /\ UNCHANGED <<batch, row, cache, failures>>
    <2>1. \A d \in Dbs : Past(d)' = Past(d)
      BY <1>3 DEF Past, Sweeping, Accumulating, Consumer, CatchesErrors
    <2>2. Rest' = Rest /\ Cached' = Cached
      BY <1>1, <1>3 DEF Rest, Handling, Cached
    <2>3. Lost' = Lost
      BY <1>1, <1>2, <1>3 DEF Lost, InMemory
    <2>4. Paid'
      BY <1>3, <2>1, <2>2, <2>3, KeepPaid
    <2>5. Swept'
      BY <1>3, <2>2 DEF Swept, Sweeping, Consumer, CatchesErrors
    <2> QED
      BY <2>4, <2>5
  <1>4. CASE \E T, P : Raise(cache, T, P)
    <2>1. PICK T, P : Raise(cache, T, P)
      BY <1>4
    <2>2. CASE ~CatchesErrors
      BY <1>1, <2>1, <2>2, DiePaid DEF Raise
    <2>3. CASE CatchesErrors
      <3>1. cache' = cache /\ failures' = failures + 1
        BY <2>1, <2>3 DEF Raise
      <3>2. \A d \in Dbs : Past(d)' = Past(d)
        BY <3>1 DEF Past, Sweeping, Accumulating, Consumer, CatchesErrors
      <3>3. Cached' = Cached
        BY <3>1 DEF Cached
      <3> QED
        BY <1>1, <1>2, <2>3, <3>1, <3>2, <3>3, CaughtPaid
    <2> QED
      BY <2>2, <2>3
  <1> QED
    BY <1>1, <1>3, <1>4

\* The INSERT of a cache moves its rows from the memory to the table.
LEMMA InsertKeeps ==
    ASSUME Inv, UNCHANGED <<mode, sent, next, batch>>, NEW e \in Dbs, MultiInsert(e)
    PROVE  /\ \A d \in Dbs : Past(d)' \subseteq Past(d)
           /\ Past(e)' = {} /\ Cached' \subseteq Cached /\ Lost' \subseteq Lost
  <1>1. /\ table' = Inserted(e) /\ UNCHANGED failures
        /\ \A d \in Dbs : cache'[d] = IF d = e THEN <<>> ELSE cache[d]
    <2>1. cache \in [Dbs -> Seq(Index)]
      BY DEF Inv, TypeOK
    <2> QED
      BY <2>1 DEF MultiInsert
  <1>2. \A d \in Dbs : /\ Past(d)' \subseteq Past(d)
                       /\ ToSet(cache'[d]) \subseteq ToSet(cache[d])
    BY <1>1, PastStays
  <1>3. Past(e)' = {}
    BY <1>1, PastStays
  <1>4. Stored' = Stored \cup ToSet(cache[e])
    BY <1>1, StoredGrows
  <1>5. Cached' \subseteq Cached /\ Cached \subseteq Cached' \cup ToSet(cache[e])
    <2>1. Cached' \subseteq Cached
      BY <1>2 DEF Cached
    <2>2. ASSUME NEW x \in Cached, x \notin ToSet(cache[e])
          PROVE  x \in Cached'
      <3>1. PICK d \in Dbs : x \in ToSet(cache[d])
        BY DEF Cached
      <3>2. cache'[d] = cache[d]
        BY <1>1, <2>2, <3>1
      <3>3. x \in ToSet(cache'[d])
        BY <3>1, <3>2
      <3> QED
        BY <3>3 DEF Cached
    <2> QED
      BY <2>1, <2>2
  <1>6. Lost' \subseteq Lost
    <2>1. ToSet(batch) \cup Cached \subseteq ToSet(batch') \cup Cached' \cup Stored' \cup {}
      BY <1>4, <1>5
    <2>2. Lost' \subseteq Lost \cup {}
      BY <1>4, <2>1, LostNext
    <2> QED
      BY <2>2
  <1> QED
    BY <1>2, <1>3, <1>5, <1>6

\* An INSERT that raises, whether or not it took effect.
LEMMA InsertRaisesPaid ==
    ASSUME Inv, Paid, Swept, UNCHANGED <<mode, sent, next>>, NEW e \in Dbs,
           MultiInsertRaises(e)
    PROVE  Paid' /\ Swept'
  <1>1. /\ Raise(cache, tagCache, ipCache)
        /\ UNCHANGED table \/ table' = Inserted(e)
    BY DEF MultiInsertRaises
  <1>2. CASE ~CatchesErrors
    <2>1. Die /\ failures' = failures + 1
      BY <1>1, <1>2 DEF Raise
    <2>2. UNCHANGED table \/ \E d \in Dbs : table' = Inserted(d)
      BY <1>1
    <2> QED
      BY <2>1, <2>2, DiePaid
  <1>3. CASE CatchesErrors
    <2>1. cache' = cache /\ failures' = failures + 1
      BY <1>1, <1>3 DEF Raise
    <2>2. \A d \in Dbs : Past(d)' = Past(d)
      BY <2>1 DEF Past, Sweeping, Accumulating, Consumer, CatchesErrors
    <2>3. Cached' = Cached
      BY <2>1 DEF Cached
    <2>4. Stored \subseteq Stored'
      BY <1>1, StoredGrows
    <2> QED
      BY <1>3, <2>1, <2>2, <2>3, <2>4, CaughtPaid
  <1> QED
    BY <1>2, <1>3

\* A cache that need not be flushed holds no more rows than it may.
LEMMA NotDue ==
    ASSUME Inv, NEW d \in Dbs, ~Due(d)
    PROVE  Past(d) = {}
  <1>1. cache[d] \in Seq(Index)
    BY DEF Inv, TypeOK
  <1>2. /\ Len(cache[d]) \in Nat /\ CacheNum \in Nat /\ ~(Len(cache[d]) > CacheNum)
        /\ DOMAIN cache[d] = 1..Len(cache[d])
    BY <1>1, LenProperties, StepAssumption DEF Due
  <1>3. \A k \in DOMAIN cache[d] : k <= CacheNum
    <2> DEFINE n == Len(cache[d])
    <2>1. n \in Nat /\ CacheNum \in Nat /\ ~(n > CacheNum) /\ DOMAIN cache[d] = 1..n
      BY <1>2
    <2> HIDE DEF n
    <2> QED
      BY <2>1
  <1>4. ~Sweeping => d \in Accumulating
    BY DEF Sweeping, Accumulating, Due
  <1> QED
    BY <1>3, <1>4 DEF Past

\* A row that was handled is in the table, or in a cache that may hold it.
LEMMA StorePaid ==
    ASSUME Inv, Own, Paid, Swept, Store, UNCHANGED mode
    PROVE  Paid' /\ Swept'
  <1>1. /\ UNCHANGED <<sent, next>> /\ pc = "store" /\ Db(row) \in Dbs /\ Rest = {row}
    <2>1. pc = "store" /\ row \in Index
      BY DEF Store, Inv, TypeOK
    <2> QED
      BY <2>1, AlarmType DEF Store, Inv, Rest, Handling
  <1>e. PICK e \in Dbs : e = Db(row)
    BY <1>1
  <1>2. \/ MultiInsertRaises(e)
        \/ /\ pc' = Continue(batch) /\ row' = 0 /\ UNCHANGED batch
           /\ \/ MultiInsert(e)
              \/ ~Due(e) /\ UNCHANGED <<cache, table, failures>>
    BY <1>e DEF Store, mysql
  <1>3. CASE MultiInsertRaises(e)
    BY <1>1, <1>3, InsertRaisesPaid
  <1>4. CASE /\ pc' = Continue(batch) /\ row' = 0 /\ UNCHANGED batch
             /\ \/ MultiInsert(e)
                \/ ~Due(e) /\ UNCHANGED <<cache, table, failures>>
    <2>1. /\ \A d \in Dbs : Past(d)' \subseteq Past(d)
          /\ Past(e)' = {} /\ Cached' \subseteq Cached /\ Lost' \subseteq Lost
          /\ UNCHANGED failures
      <3>1. CASE MultiInsert(e)
        <4>1. UNCHANGED failures
          BY <3>1 DEF MultiInsert
        <4> QED
          BY <1>1, <1>4, <3>1, <4>1, InsertKeeps
      <3>2. CASE ~Due(e) /\ UNCHANGED <<cache, table, failures>>
        <4>1. Past(e) = {}
          BY <1>1, <3>2, NotDue
        <4>2. \A d \in Dbs : Past(d)' = Past(d)
          BY <3>2 DEF Past, Sweeping, Accumulating, Consumer, CatchesErrors
        <4>3. Cached' = Cached /\ Stored' = Stored
          BY <3>2 DEF Cached, Stored
        <4>4. Lost' = Lost
          BY <1>1, <1>4, <3>2, <4>3 DEF Lost, InMemory
        <4> QED
          BY <1>1, <3>2, <4>1, <4>2, <4>3, <4>4
      <3> QED
        BY <1>4, <3>1, <3>2
    <2>2. ASSUME NEW d \in Dbs
          PROVE  row \notin Past(d)'
      <3>1. CASE d = e
        BY <2>1, <3>1
      <3>2. CASE d # e
        <4>1. row \notin ToSet(cache[d])
          BY <1>e, <3>2 DEF Own
        <4> QED
          BY <2>1, <4>1 DEF Past
      <3> QED
        BY <3>1, <3>2
    <2>3. \A d \in Dbs : Past(d)' \ Rest' \subseteq Past(d) \ Rest
      BY <1>1, <2>1, <2>2
    <2>4. Paid'
      BY <2>1, <2>3, KeepPaid
    <2>5. Swept'
      <3> SUFFICES ASSUME Sweeping
                   PROVE  /\ Cardinality(ToSet(batch') \cup Cached') <= Step
                          /\ pc' \in {"fetch", "dead"} => Cached' = {}
        BY DEF Swept, Sweeping, Consumer, CatchesErrors
      <3>1. pc' \in {"row", "sweep"}
        BY <1>4 DEF Continue, Sweeping
      <3>2. ToSet(batch') \cup Cached' \subseteq ToSet(batch) \cup Cached
        BY <1>4, <2>1
      <3>3. Cardinality(ToSet(batch) \cup Cached) <= Step
        BY DEF Swept
      <3> QED
        BY <3>1, <3>2, <3>3, HeldLess
    <2> QED
      BY <2>4, <2>5
  <1> QED
    BY <1>2, <1>3, <1>4

\* The flush of all caches after a batch loses nothing, and leaves nothing.
LEMMA SweepPaid ==
    ASSUME Inv, Paid, Swept, Sweep, UNCHANGED mode
    PROVE  Paid' /\ Swept'
  <1>1. UNCHANGED <<sent, next>> /\ pc = "sweep" /\ Rest = {}
    BY DEF Sweep, Rest, Handling
  <1>2. CASE \E e \in Dbs : MultiInsert(e) /\ UNCHANGED <<pc, batch, row>>
    <2>1. PICK e \in Dbs : MultiInsert(e) /\ UNCHANGED <<pc, batch, row>>
      BY <1>2
    <2>2. /\ \A d \in Dbs : Past(d)' \subseteq Past(d)
          /\ Cached' \subseteq Cached /\ Lost' \subseteq Lost
      BY <1>1, <2>1, InsertKeeps
    <2>3. Rest' = {} /\ UNCHANGED failures /\ pc' = "sweep"
      BY <1>1, <2>1 DEF Rest, Handling, MultiInsert
    <2>4. Paid'
      BY <1>1, <2>2, <2>3, KeepPaid
    <2>5. Swept'
      <3> SUFFICES ASSUME Sweeping
                   PROVE  /\ Cardinality(ToSet(batch') \cup Cached') <= Step
                          /\ pc' \in {"fetch", "dead"} => Cached' = {}
        BY DEF Swept, Sweeping, Consumer, CatchesErrors
      <3>1. ToSet(batch') \cup Cached' \subseteq ToSet(batch) \cup Cached
        BY <2>1, <2>2
      <3>2. Cardinality(ToSet(batch) \cup Cached) <= Step
        BY DEF Swept
      <3> QED
        BY <2>3, <3>1, <3>2, HeldLess
    <2> QED
      BY <2>4, <2>5
  <1>3. CASE \E e \in Dbs : MultiInsertRaises(e)
    BY <1>1, <1>3, InsertRaisesPaid
  <1>4. CASE cache = Seqs /\ pc' = "fetch" /\ UNCHANGED <<batch, row, cache, table, failures>>
    <2>1. \A d \in Dbs : Past(d)' = Past(d)
      BY <1>4 DEF Past, Sweeping, Accumulating, Consumer, CatchesErrors
    <2>2. /\ Cached' = Cached /\ Cached = {}
          /\ Stored' = Stored /\ Rest' = {}
      BY <1>4 DEF Cached, Stored, Rest, Handling, Seqs, ToSet
    <2>3. Lost' = Lost
      BY <1>1, <1>4, <2>2 DEF Lost, InMemory
    <2>4. Paid'
      BY <1>1, <1>4, <2>1, <2>2, <2>3, KeepPaid
    <2>5. Swept'
      BY <1>4, <2>2 DEF Swept, Sweeping, Consumer, CatchesErrors
    <2> QED
      BY <2>4, <2>5
  <1> QED
    BY <1>2, <1>3, <1>4 DEF Sweep, mysql

\* A posting, a start and a remake change neither memory nor rows.
LEMMA OthersPaid ==
    ASSUME Inv, Paid, Swept, [Next]_vars,
           \/ \E a \in Alarms : Post(a)
           \/ Restart
           \/ \E d \in Dbs : Remake(d)
           \/ UNCHANGED vars
    PROVE  Paid' /\ Swept'
  <1>1. /\ UNCHANGED <<mode, next, batch, row, cache, table, failures>>
        /\ UNCHANGED pc \/ (pc = "dead" /\ pc' = "fetch")
    BY DEF Post, Restart, Remake, vars, memory, mysql
  <1>2. \A d \in Dbs : Past(d)' = Past(d)
    BY <1>1 DEF Past, Sweeping, Accumulating, Consumer, CatchesErrors
  <1>3. Rest' = Rest /\ Cached' = Cached /\ Stored' = Stored
    BY <1>1 DEF Rest, Handling, Cached, Stored
  <1>4. Lost' \subseteq Lost
    <2>1. \A i \in 1..next : sent'[i] = sent[i]
      <3>1. 1..next \subseteq Index
        BY AlarmType DEF Inv, TypeOK, Index
      <3> QED
        BY <3>1, SentSteps
    <2>2. InMemory = ToSet(batch) \cup Cached /\ InMemory' = ToSet(batch') \cup Cached'
      BY DEF InMemory, Cached
    <2> QED
      BY <1>1, <1>3, <2>1, <2>2 DEF Lost
  <1>5. Paid'
    BY <1>1, <1>2, <1>3, <1>4, KeepPaid
  <1>6. Swept'
    BY <1>1, <1>3 DEF Swept, Sweeping, Consumer, CatchesErrors
  <1> QED
    BY <1>5, <1>6

\* Every step keeps the account of losses, one action after the other.
LEMMA StepPaid == Inv /\ Own /\ (Paid /\ Swept) /\ [Next]_vars => (Paid /\ Swept)'
  <1> SUFFICES ASSUME Inv, Own, Paid, Swept, [Next]_vars
               PROVE  Paid' /\ Swept'
    OBVIOUS
  <1>1. UNCHANGED mode
    BY SentSteps
  <1>2. CASE Fetch
    BY <1>1, <1>2, FetchPaid
  <1>3. CASE Skip
    BY <1>1, <1>3, SkipPaid
  <1>4. CASE CacheRow
    BY <1>1, <1>4, CacheRowPaid
  <1>5. CASE Tag \/ Ip
    BY <1>1, <1>5, ListPaid
  <1>6. CASE Store
    BY <1>1, <1>6, StorePaid
  <1>7. CASE Sweep
    BY <1>1, <1>7, SweepPaid
  <1>8. CASE Kill
    <2>1. UNCHANGED <<sent, next, table>> /\ Die /\ failures' = failures + 1
      BY <1>8 DEF Kill, mysql
    <2> QED
      BY <1>1, <2>1, DiePaid
  <1>10. CASE FetchRaises
    <2>1. UNCHANGED <<sent, next, table>> /\ failures' = failures + 1
      BY <1>10, FetchRaisesIs DEF mysql
    <2>2. CASE Die
      BY <1>1, <2>1, <2>2, DiePaid
    <2>3. CASE CatchesErrors /\ UNCHANGED <<cache, tagCache, ipCache>>
      <3>1. \A d \in Dbs : Past(d)' = Past(d)
        BY <1>1, <2>3 DEF Past, Sweeping, Accumulating, Consumer, CatchesErrors
      <3>2. Cached' = Cached /\ Stored' = Stored
        BY <2>1, <2>3 DEF Cached, Stored
      <3> QED
        BY <1>1, <2>1, <2>3, <3>1, <3>2, CaughtPaid
    <2> QED
      BY <1>10, <2>2, <2>3, FetchRaisesIs
  <1>9. CASE \/ \E a \in Alarms : Post(a)
             \/ Restart
             \/ \E d \in Dbs : Remake(d)
             \/ UNCHANGED vars
    BY <1>9, OthersPaid
  <1> QED
    BY <1>2, <1>3, <1>4, <1>5, <1>6, <1>7, <1>8, <1>9, <1>10 DEF Next, Process

\* At first nothing is lost.
LEMMA InitPaid == Init => Paid /\ Swept
  <1> SUFFICES ASSUME Init
               PROVE  Paid /\ Swept
    OBVIOUS
  <1>1. /\ \A d \in Dbs : cache[d] = <<>>
        /\ batch = <<>> /\ next = 0 /\ failures = 0 /\ pc = "fetch"
    BY DEF Init, Seqs
  <1>2. ToSet(<<>>) = {}
    BY DEF ToSet
  <1>3. Cached = {} /\ ToSet(batch) = {}
    BY <1>1, <1>2 DEF Cached
  <1>4. \A d \in Dbs : Past(d) = {}
    BY <1>1, <1>2 DEF Past
  <1>5. Extra = {}
    BY <1>4 DEF Extra
  <1>6. Lost = {}
    <2>1. 1..0 = {}
      OBVIOUS
    <2> QED
      BY <1>1, <2>1 DEF Lost
  <1>7. Cardinality(Gone) = 0
    BY <1>5, <1>6, FS_EmptySet DEF Gone
  <1>8. PerFailure \in Nat
    BY InitInv, GoneTypes
  <1>9. Paid
    <2>1. failures * PerFailure = 0
      BY <1>1, <1>8
    <2> QED
      BY <1>7, <2>1 DEF Paid
  <1>10. Swept
    <2>1. Cardinality(ToSet(batch) \cup Cached) = 0
      BY <1>3, FS_EmptySet
    <2>2. 0 <= Step
      BY StepAssumption
    <2> QED
      BY <1>3, <2>1, <2>2 DEF Swept
  <1> QED
    BY <1>9, <1>10

\* What is lost is bounded by what memory holds: a batch and the rows that caches
\* may hold, once for each exception or kill (metrics_counter_consumer.py:138-140,
\* metrics_array_counter_consumer.py:71-72).
THEOREM LossIsBounded == Spec => []BoundedLoss
  <1>1. ASSUME Inv, Paid
        PROVE  BoundedLoss
    <2> DEFINE A == Gone
               B == Lost
               M == failures * PerFailure
    <2>1. IsFiniteSet(A) /\ B \subseteq A /\ M \in Nat
      BY <1>1, GoneTypes DEF Gone
    <2>2. Cardinality(A) <= M
      BY <1>1 DEF Paid
    <2> HIDE DEF A, B, M
    <2>3. Cardinality(A) \in Nat /\ Cardinality(B) \in Nat /\ Cardinality(B) <= Cardinality(A)
      BY <2>1, SubsetCount
    <2>4. Cardinality(B) <= M
      BY <2>1, <2>2, <2>3
    <2> QED
      BY <2>4 DEF BoundedLoss, B, M
  <1> QED
    BY <1>1, InitInv, StepInv, InitOwed, StepOwn, InitPaid, StepPaid, PTL DEF Spec
=============================================================================
