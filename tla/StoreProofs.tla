----------------------------- MODULE StoreProofs -----------------------------
(***************************************************************************)
(* Theorems about StoreCreate, for every set of processes and every number  *)
(* of tables, and about StoreQuery, for every set of threads and every      *)
(* number of queries, and of statements and connections MySQL refuses.     *)
(***************************************************************************)
EXTENDS StoreCreate, StoreQuery, FiniteSetTheorems, TLAPS

-----------------------------------------------------------------------------
(* StoreCreate.                                                            *)

USE ProcsAssumption, NTablesAssumption, LookalikeAssumption, CreationBounds

\* Every variable keeps its type, and a database that does not exist has no
\* tables (store.py:36-389).
THEOREM CreationTypeCorrect == CreationSpec => []CreationTypeOK
  <1>1. CreationInit => CreationTypeOK
    <2> SUFFICES ASSUME CreationInit PROVE CreationTypeOK
      OBVIOUS
    <2>1. exists \in BOOLEAN /\ broken \in BOOLEAN
      BY Zenon DEF CreationInit
    <2>2. /\ tables \subseteq Tables /\ tables = {}
          /\ stage \in [Procs -> {"none", "show", "create", "tables", "connect", "ready"}]
          /\ at \in [Procs -> 1..(NTables + 1)]
          /\ kills \in Nat /\ drops \in Nat
      BY DEF CreationInit, Tables
    <2> QED
      BY <2>1, <2>2 DEF CreationTypeOK
  <1>2. CreationTypeOK /\ [CreationNext]_creationVars => CreationTypeOK'
    <2> SUFFICES ASSUME CreationTypeOK, [CreationNext]_creationVars PROVE CreationTypeOK'
      OBVIOUS
    <2> USE DEF CreationTypeOK, Tables, GotoStage, Keeps
    <2>1. ASSUME NEW p \in Procs, Start(p) PROVE CreationTypeOK'
      BY <2>1 DEF Start
    <2>2. ASSUME NEW p \in Procs, Show(p) PROVE CreationTypeOK'
      BY <2>2 DEF Show
    <2>3. ASSUME NEW p \in Procs, Create(p) PROVE CreationTypeOK'
      <3>1. CASE exists
        BY <2>3, <3>1 DEF Create
      <3>2. CASE ~exists
        <4>1. exists' \in BOOLEAN /\ exists' /\ broken' \in BOOLEAN
          BY <2>3, <3>2, Zenon DEF Create
        <4>2. at' \in [Procs -> 1..(NTables + 1)]
          BY <2>3, <3>2 DEF Create
        <4>3. stage' \in [Procs -> {"none", "show", "create", "tables", "connect", "ready"}]
          BY <2>3, <3>2 DEF Create
        <4> QED
          BY <2>3, <4>1, <4>2, <4>3 DEF Create
      <3> QED
        BY <3>1, <3>2
    <2>4. ASSUME NEW p \in Procs, CreateTable(p) PROVE CreationTypeOK'
      <3>1. at[p] \in Tables /\ at[p] + 1 \in 1..(NTables + 1)
        BY <2>4 DEF CreateTable
      <3>2. tables' \subseteq Tables /\ (~exists' => tables' = {})
        BY <2>4, <3>1 DEF CreateTable
      <3>3. at' \in [Procs -> 1..(NTables + 1)]
        BY <2>4, <3>1 DEF CreateTable
      <3>4. stage' \in [Procs -> {"none", "show", "create", "tables", "connect", "ready"}]
        BY <2>4 DEF CreateTable
      <3> QED
        BY <2>4, <3>2, <3>3, <3>4 DEF CreateTable
    <2>5. ASSUME NEW p \in Procs, Again(p) PROVE CreationTypeOK'
      BY <2>5 DEF Again
    <2>6. ASSUME NEW p \in Procs, Connect(p) PROVE CreationTypeOK'
      BY <2>6 DEF Connect
    <2>7. ASSUME NEW p \in Procs, Use(p) PROVE CreationTypeOK'
      BY <2>7 DEF Use
    <2>8. ASSUME NEW p \in Procs, Kill(p) PROVE CreationTypeOK'
      BY <2>8 DEF Kill
    <2>9. CASE Drop
      <3>1. exists' \in BOOLEAN /\ broken' \in BOOLEAN
        BY <2>9, Zenon DEF Drop
      <3> QED
        BY <2>9, <3>1 DEF Drop
    <2>10. CASE UNCHANGED creationVars
      BY <2>10 DEF creationVars
    <2> QED
      BY <2>1, <2>2, <2>3, <2>4, <2>5, <2>6, <2>7, <2>8, <2>9, <2>10 DEF CreationNext, CreationStep
  <1> QED
    BY <1>1, <1>2, PTL DEF CreationSpec

\* p is on its way to table t, and nothing is in its way.
OnItsWay(p, t) == /\ p \in Creators
                  /\ at[p] <= t
                  /\ at[p]..t \cap tables = {}

\* A step that touches neither the tables nor a creator forgets no table.
LEMMA CreatorsKept ==
    ASSUME CreationTypeOK, NoTableForgotten,
           exists' = exists, tables' = tables, at' = at, broken' = broken,
           Creators \subseteq Creators'
    PROVE  NoTableForgotten'
  BY DEF NoTableForgotten

\* As long as no creator was killed, every missing table has a creator on its
\* way to it, however many processes create the database and however often it is
\* dropped under them.
THEOREM NoneForgotten == CreationSpec => []NoTableForgotten
  <1>1. CreationInit => NoTableForgotten
    BY DEF CreationInit, NoTableForgotten
  <1>2. /\ CreationTypeOK /\ CreationTypeOK' /\ NoTableForgotten
        /\ [CreationNext]_creationVars
        => NoTableForgotten'
    <2> SUFFICES ASSUME CreationTypeOK, CreationTypeOK', NoTableForgotten,
                        [CreationNext]_creationVars
                 PROVE  NoTableForgotten'
      OBVIOUS
    <2>1. ASSUME NEW p \in Procs, Start(p) \/ Show(p) \/ Connect(p) \/ Use(p)
          PROVE  NoTableForgotten'
      <3>1. Creators \subseteq Creators'
        BY <2>1 DEF Start, Show, Connect, Use, Creators, GotoStage, CreationTypeOK
      <3> QED
        BY <2>1, <3>1, CreatorsKept DEF Start, Show, Connect, Use, Keeps
    <2>2. ASSUME NEW p \in Procs, Create(p) PROVE NoTableForgotten'
      <3>1. CASE exists
        <4>1. Creators \subseteq Creators'
          BY <2>2, <3>1 DEF Create, Creators, GotoStage, CreationTypeOK
        <4> QED
          BY <2>2, <3>1, <4>1, CreatorsKept DEF Create
      <3>2. CASE ~exists
        <4>1. tables' = {} /\ p \in Creators' /\ at'[p] = 1
          BY <2>2, <3>2 DEF Create, Creators, GotoStage, CreationTypeOK
        <4> QED
          BY <4>1 DEF NoTableForgotten, Tables
      <3> QED
        BY <3>1, <3>2
    <2>3. ASSUME NEW p \in Procs, CreateTable(p) PROVE NoTableForgotten'
      <3> SUFFICES ASSUME exists', ~broken', NEW t \in Tables, t \notin tables'
                   PROVE  \E q \in Procs : OnItsWay(q, t)'
        BY DEF NoTableForgotten, OnItsWay, Creators
      <3>1. exists /\ ~broken /\ t \notin tables
        BY <2>3 DEF CreateTable
      <3>2. PICK q \in Procs : OnItsWay(q, t)
        BY <3>1 DEF NoTableForgotten, OnItsWay, Creators
      <3>3. CASE at[p] \in tables
        <4>1. q # p /\ q \in Creators' /\ UNCHANGED <<tables, at>>
          BY <2>3, <3>1, <3>2, <3>3 DEF CreateTable, GotoStage, OnItsWay, Creators, CreationTypeOK
        <4> QED
          BY <3>2, <4>1 DEF OnItsWay
      <3>4. CASE at[p] \notin tables
        <4>1. /\ tables' = tables \cup {at[p]} /\ Creators' = Creators
              /\ at' = [at EXCEPT ![p] = @ + 1] /\ p \in Creators
          BY <2>3, <3>1, <3>4 DEF CreateTable, Creators
        <4>2. at[p] # t
          BY <4>1
        <4>3. CASE at[p] \in at[q]..t
          <5>1. at'[p] <= t /\ at'[p]..t \cap tables' = {}
            BY <3>2, <4>1, <4>2, <4>3 DEF OnItsWay, CreationTypeOK, Tables
          <5> QED
            BY <4>1, <5>1 DEF OnItsWay
        <4>4. CASE at[p] \notin at[q]..t
          <5>1. q # p
            BY <3>2, <4>4 DEF OnItsWay, CreationTypeOK, Tables
          <5>2. at'[q] = at[q]
            BY <4>1, <5>1 DEF CreationTypeOK
          <5> QED
            BY <3>2, <4>1, <4>4, <5>2 DEF OnItsWay
        <4> QED
          BY <4>3, <4>4
      <3> QED
        BY <3>3, <3>4
    <2>4. ASSUME NEW p \in Procs, Again(p) PROVE NoTableForgotten'
      <3> SUFFICES ASSUME exists', ~broken', NEW t \in Tables, t \notin tables'
                   PROVE  \E q \in Procs : OnItsWay(q, t)'
        BY DEF NoTableForgotten, OnItsWay, Creators
      <3>1. UNCHANGED <<exists, broken, tables, at>>
        BY <2>4 DEF Again, Keeps
      <3>2. PICK q \in Procs : OnItsWay(q, t)
        BY <3>1 DEF NoTableForgotten, OnItsWay, Creators
      <3>3. q # p
        BY <2>4, <3>2 DEF Again, OnItsWay, CreationTypeOK, Tables
      <3>4. q \in Creators'
        BY <2>4, <3>2, <3>3 DEF Again, GotoStage, OnItsWay, Creators, CreationTypeOK
      <3> QED
        BY <3>1, <3>2, <3>4 DEF OnItsWay
    <2>5. ASSUME NEW p \in Procs, Kill(p) PROVE NoTableForgotten'
      <3>1. CASE stage[p] = "tables"
        BY <2>5, <3>1 DEF Kill, NoTableForgotten
      <3>2. CASE stage[p] # "tables"
        <4>1. Creators \subseteq Creators' /\ broken' = broken
          BY <2>5, <3>2 DEF Kill, GotoStage, Creators, CreationTypeOK
        <4> QED
          BY <2>5, <4>1, CreatorsKept DEF Kill
      <3> QED
        BY <3>1, <3>2
    <2>6. CASE Drop
      BY <2>6 DEF Drop, NoTableForgotten
    <2>7. CASE UNCHANGED creationVars
      BY <2>7 DEF creationVars, NoTableForgotten, Creators
    <2> QED
      BY <2>1, <2>2, <2>3, <2>4, <2>5, <2>6, <2>7 DEF CreationNext, CreationStep
  <1> QED
    BY <1>1, <1>2, CreationTypeCorrect, PTL DEF CreationSpec
-----------------------------------------------------------------------------
(* StoreQuery.                                                             *)

USE ThreadsAssumption, BoundsAssumption

\* A lock somebody took is held by one thread.
LEMMA OneHolder ==
    ASSUME NEW t \in Threads
    PROVE  {t} \subseteq Threads /\ Cardinality({t}) <= 1
  <1>1. Cardinality({t}) = 1
    BY FS_Singleton
  <1> QED
    BY <1>1

\* Every variable keeps its type, and at most one thread holds the lock
\* (store.py:391-414, 474-482).
THEOREM TypeCorrect == Spec => []TypeOK
  <1>1. Init => TypeOK
    <2> SUFFICES ASSUME Init PROVE TypeOK
      OBVIOUS
    <2>1. /\ open \in BOOLEAN /\ cursor \in BOOLEAN /\ (cursor => open)
          /\ idle \in BOOLEAN /\ leaked \in BOOLEAN
      BY Zenon DEF Init
    <2>2. lock \subseteq Threads /\ Cardinality(lock) <= 1
      BY FS_EmptySet DEF Init
    <2>3. /\ pc \in [Threads -> Stages] /\ answer \in [Threads -> Answers]
          /\ rows \in {"fresh", "empty"} \cup Threads
          /\ on \in {"none", "cursor", "old", "closed"}
          /\ queries \in 0..MaxQueries /\ errors \in 0..MaxErrors /\ refused \in 0..MaxErrors
      BY DEF Init, Stages, Answers
    <2>4. alone \in [Threads -> BOOLEAN]
      BY DEF Init
    <2> QED
      BY <2>1, <2>2, <2>3, <2>4 DEF TypeOK
  <1>2. TypeOK /\ [Next]_vars => TypeOK'
    <2> SUFFICES ASSUME TypeOK, [Next]_vars PROVE TypeOK'
      OBVIOUS
    <2>0. ASSUME NEW t \in Threads, NEW s \in Stages, Goto(t, s)
          PROVE  pc' \in [Threads -> Stages]
      BY <2>0 DEF TypeOK, Goto
    <2>00. ASSUME NEW t \in Threads, NEW a \in Answers, Return(t, a)
           PROVE  pc' \in [Threads -> Stages] /\ answer' \in [Threads -> Answers]
      BY <2>0, <2>00 DEF TypeOK, Return, Stages
    <2>1. ASSUME NEW t \in Threads, Begin(t) PROVE TypeOK'
      <3>1. pc' \in [Threads -> Stages]
        BY <2>0, <2>1 DEF Begin, Stages
      <3>2. answer' \in [Threads -> Answers]
        BY <2>1 DEF Begin, TypeOK, Answers
      <3>3. alone' \in [Threads -> BOOLEAN]
        <4>1. \A u \in Threads :
                (IF u = t THEN Busy = {} ELSE alone[u] /\ u \notin Busy) \in BOOLEAN
          BY Zenon
        <4> QED
          BY <2>1, <4>1 DEF Begin
      <3>4. queries' \in 0..MaxQueries
        BY <2>1 DEF Begin, TypeOK
      <3> QED
        BY <2>1, <3>1, <3>2, <3>3, <3>4 DEF Begin, TypeOK
    <2>2. CASE Wait
      <3>1. idle' \in BOOLEAN
        BY <2>2, Zenon DEF Wait
      <3> QED
        BY <2>2, <3>1 DEF Wait, TypeOK
    <2>3. ASSUME NEW t \in Threads, Check(t) PROVE TypeOK'
      <3>1. pc' \in [Threads -> Stages] /\ answer' \in [Threads -> Answers]
        BY <2>0, <2>00, <2>3 DEF Check, Stages, Answers, TypeOK
      <3>2. open' \in BOOLEAN /\ cursor' \in BOOLEAN /\ (cursor' => open')
        <4>1. CASE open' = open /\ cursor' = cursor
          BY <4>1, Zenon DEF TypeOK
        <4>2. CASE open' = FALSE /\ cursor' = FALSE
          BY <4>2, Zenon
        <4> QED
          BY <2>3, <4>1, <4>2, Zenon DEF Check
      <3>3. on' \in {"none", "cursor", "old", "closed"}
        BY <2>3 DEF Check, TypeOK
      <3> QED
        BY <2>3, <3>1, <3>2, <3>3 DEF Check, TypeOK
    <2>4. ASSUME NEW t \in Threads, NewConnection(t) PROVE TypeOK'
      <3>1. pc' \in [Threads -> Stages] /\ answer' \in [Threads -> Answers]
        BY <2>0, <2>00, <2>4 DEF NewConnection, Stages, Answers, TypeOK
      <3>2. open' \in BOOLEAN /\ cursor' \in BOOLEAN /\ (cursor' => open')
        <4>1. (open' = open \/ open' = TRUE) /\ cursor' = cursor
          BY <2>4, Zenon DEF NewConnection
        <4> QED
          BY <4>1, Zenon DEF TypeOK
      <3>3. refused' \in 0..MaxErrors
        BY <2>4 DEF NewConnection, MayRefuse, TypeOK
      <3> QED
        BY <2>4, <3>1, <3>2, <3>3 DEF NewConnection, TypeOK
    <2>11. ASSUME NEW t \in Threads, NewCursor(t) PROVE TypeOK'
      <3>1. pc' \in [Threads -> Stages]
        BY <2>0, <2>11 DEF NewCursor, Stages
      <3>2. cursor' \in BOOLEAN /\ (cursor' => open')
        BY <2>11, Zenon DEF NewCursor, TypeOK
      <3>3. on' \in {"none", "cursor", "old", "closed"}
        BY <2>11 DEF NewCursor, TypeOK
      <3> QED
        BY <2>11, <3>1, <3>2, <3>3 DEF NewCursor, TypeOK
    <2>5. ASSUME NEW t \in Threads, Acquire(t) PROVE TypeOK'
      <3>1. pc' \in [Threads -> Stages]
        BY <2>0, <2>5 DEF Acquire, Stages
      <3>2. lock' \subseteq Threads /\ Cardinality(lock') <= 1
        BY <2>5, OneHolder DEF Acquire
      <3> QED
        BY <2>5, <3>1, <3>2 DEF Acquire, TypeOK
    <2>6. ASSUME NEW t \in Threads, Execute(t) PROVE TypeOK'
      <3>1. pc' \in [Threads -> Stages] /\ answer' \in [Threads -> Answers]
        BY <2>0, <2>00, <2>6 DEF Execute, Raise, Stages, Answers, TypeOK
      <3>2. leaked' \in BOOLEAN
        <4>1. leaked' = leaked \/ leaked' = TRUE
          BY <2>6, Zenon DEF Execute, Raise
        <4> QED
          BY <4>1, Zenon DEF TypeOK
      <3>3. on' \in {"none", "cursor", "old", "closed"}
        BY <2>6 DEF Execute, TypeOK
      <3> QED
        BY <2>6, <3>1, <3>2, <3>3 DEF Execute, TypeOK
    <2>7. ASSUME NEW t \in Threads, Read(t) PROVE TypeOK'
      <3>1. pc' \in [Threads -> Stages] /\ answer' \in [Threads -> Answers]
        BY <2>0, <2>00, <2>7 DEF Read, Raise, Stages, Answers, TypeOK
      <3>2. leaked' \in BOOLEAN
        <4>1. leaked' = leaked \/ leaked' = TRUE
          BY <2>7, Zenon DEF Read, Raise
        <4> QED
          BY <4>1, Zenon DEF TypeOK
      <3>3. rows' \in {"fresh", "empty"} \cup Threads /\ errors' \in 0..MaxErrors
        BY <2>7 DEF Read, MayRefuse, TypeOK
      <3> QED
        BY <2>7, <3>1, <3>2, <3>3 DEF Read, TypeOK
    <2>8. ASSUME NEW t \in Threads, Release(t) PROVE TypeOK'
      <3>1. pc' \in [Threads -> Stages]
        BY <2>0, <2>8 DEF Release, Stages
      <3>2. lock' \subseteq Threads /\ Cardinality(lock') <= 1
        BY <2>8, FS_EmptySet DEF Release
      <3> QED
        BY <2>8, <3>1, <3>2 DEF Release, TypeOK
    <2>9. ASSUME NEW t \in Threads, Fetch(t) PROVE TypeOK'
      <3>1. pc' \in [Threads -> Stages] /\ answer' \in [Threads -> Answers]
        BY <2>00, <2>9 DEF Fetch, Answers
      <3>2. rows' \in {"fresh", "empty"} \cup Threads
        BY <2>9 DEF Fetch
      <3> QED
        BY <2>9, <3>1, <3>2 DEF Fetch, TypeOK
    <2>10. CASE UNCHANGED vars
      BY <2>10 DEF vars, TypeOK
    <2> QED
      BY <2>1, <2>2, <2>3, <2>4, <2>5, <2>6, <2>7, <2>8, <2>9, <2>10,
         <2>11 DEF Next, Step
  <1> QED
    BY <1>1, <1>2, PTL DEF Spec

-----------------------------------------------------------------------------
AtStatement == {t \in Threads : pc[t] \in {"execute", "sent", "release"}}
Connecting == {t \in Threads : pc[t] = "connect"}
AtCursor == {t \in Threads : pc[t] = "cursor"}

\* The thread that sends a statement and reads its result holds the lock.
Holding == \A t \in AtStatement : lock = {t}

\* The connection is closed while one thread makes a new one: a second thread
\* gets the exception of db.close() and leaves query.  Unless a connection was
\* refused it is open otherwise, and so is the cursor once nobody is in
\* reconnect.
ClosedWhileConnecting ==
    /\ Connecting # {} => ~open
    /\ \A t, u \in Connecting : t = u
    /\ (Connecting = {} /\ refused = 0) => open
    /\ (Connecting = {} /\ AtCursor = {} /\ refused = 0) => cursor

\* A query that nothing overlapped so far is the only one.
AloneIsOnly == \A t \in Busy : alone[t] => Busy = {t}

\* What such a query fetches is what its own statement left in self.cursor.
AloneRows ==
    \A t \in Threads :
        /\ (alone[t] /\ pc[t] = "sent") => on = "cursor"
        /\ (alone[t] /\ pc[t] \in {"release", "fetch"}) => rows = t

\* A query without overlap has no answer yet, its own, or an exception after
\* MySQL refused something.
Fine(t) ==
    \/ answer[t] \in {"none", "own"}
    \/ answer[t] = "raised" /\ errors + refused > 0

\* What makes OneStatement and AloneAnswered inductive.
QueryInv ==
    /\ Holding
    /\ ClosedWhileConnecting
    /\ AloneIsOnly
    /\ AloneRows
    /\ AloneAnswered

\* A step of a query moves its thread only, no query becomes alone, and what
\* MySQL refused is not forgotten.
LEMMA StepMoves ==
    ASSUME TypeOK, NEW t \in Threads, Step(t)
    PROVE  /\ pc[t] # "idle"
           /\ \A u \in Threads : u # t => pc'[u] = pc[u] /\ answer'[u] = answer[u]
           /\ alone' = alone
           /\ errors + refused > 0 => errors' + refused' > 0
           /\ refused' = 0 => refused = 0
           /\ Busy' \subseteq Busy
  <1>1. /\ pc[t] # "idle"
        /\ alone' = alone
    BY DEF Step, Check, NewConnection, NewCursor, Acquire, Execute, Read, Release, Fetch
  <1>2. ASSUME NEW u \in Threads, u # t
        PROVE  pc'[u] = pc[u] /\ answer'[u] = answer[u]
    <2>1. \/ UNCHANGED answer /\ \E s \in Stages : Goto(t, s)
          \/ \E a \in Answers : Return(t, a)
      BY DEF Step, Check, NewConnection, NewCursor, Acquire, Execute, Read, Release,
             Fetch, Raise, Stages, Answers
    <2> QED
      BY <1>2, <2>1 DEF TypeOK, Goto, Return
  <1>3. /\ errors' = errors \/ errors' = errors + 1
        /\ refused' = refused \/ refused' = refused + 1
    BY DEF Step, Check, NewConnection, NewCursor, Acquire, Execute, Read, Release, Fetch
  <1>4. errors \in Nat /\ refused \in Nat
    BY DEF TypeOK
  <1>5. Busy' \subseteq Busy
    BY <1>1, <1>2 DEF Busy
  <1> QED
    BY <1>1, <1>2, <1>3, <1>4, <1>5

\* While a query is alone, the other threads are outside query.
LEMMA OnlyMe ==
    ASSUME TypeOK, AloneIsOnly, NEW t \in Threads, NEW u \in Threads,
           pc[t] # "idle", pc[u] # "idle", u # t
    PROVE  ~alone[t] /\ ~alone[u]
  BY DEF AloneIsOnly, Busy

\* A step of a query that stays alone, or is over, keeps AloneIsOnly.
LEMMA StepAlone ==
    ASSUME TypeOK, AloneIsOnly, NEW t \in Threads, Step(t)
    PROVE  AloneIsOnly'
  <1> SUFFICES ASSUME NEW u \in Busy', alone[u]
               PROVE  Busy' = {u}
    BY StepMoves DEF AloneIsOnly
  <1>1. u \in Busy /\ Busy = {u}
    BY StepMoves DEF AloneIsOnly
  <1> QED
    BY <1>1, StepMoves

\* The answers and the rows of the queries a step does not move.
LEMMA OthersAnswered ==
    ASSUME TypeOK, QueryInv, NEW t \in Threads, Step(t),
           NEW u \in Threads, u # t, alone'[u]
    PROVE  /\ pc'[u] \notin {"sent", "release", "fetch"}
           /\ pc'[u] = "idle" => Fine(u)'
  <1>1. /\ pc[t] # "idle" /\ pc'[u] = pc[u] /\ answer'[u] = answer[u] /\ alone[u]
        /\ errors + refused > 0 => errors' + refused' > 0
    BY StepMoves
  <1>2. pc[u] = "idle"
    BY <1>1, OnlyMe DEF QueryInv
  <1>3. Fine(u)
    BY <1>1, <1>2 DEF QueryInv, AloneAnswered, Fine
  <1> QED
    BY <1>1, <1>2, <1>3 DEF Fine

\* A step of a query keeps the invariant once its own thread does: what is left
\* to show of each action.
LEMMA StepKeeps ==
    ASSUME TypeOK, QueryInv, NEW t \in Threads, Step(t),
           Holding', ClosedWhileConnecting',
           (alone[t] /\ pc'[t] = "sent") => on' = "cursor",
           (alone[t] /\ pc'[t] \in {"release", "fetch"}) => rows' = t,
           (alone[t] /\ pc'[t] = "idle") => Fine(t)'
    PROVE  QueryInv'
  <1>1. AloneIsOnly'
    BY StepAlone DEF QueryInv
  <1>2. alone' = alone
    BY StepMoves
  <1>3. AloneRows'
    <2> SUFFICES ASSUME NEW u \in Threads, alone'[u]
                 PROVE  /\ pc'[u] = "sent" => on' = "cursor"
                        /\ pc'[u] \in {"release", "fetch"} => rows' = u
      BY DEF AloneRows
    <2> QED
      BY <1>2, OthersAnswered
  <1>4. AloneAnswered'
    <2> SUFFICES ASSUME NEW u \in Threads, alone'[u], pc'[u] = "idle"
                 PROVE  Fine(u)'
      BY DEF AloneAnswered, Fine
    <2> QED
      BY <1>2, OthersAnswered
  <1> QED
    BY <1>1, <1>3, <1>4 DEF QueryInv

\* A thread that is in none of the stages between taking and releasing the lock
\* neither before nor after a step that leaves the lock alone.
LEMMA HoldingKept ==
    ASSUME TypeOK, QueryInv, NEW t \in Threads, Step(t), lock' = lock,
           t \in AtStatement' => t \in AtStatement
    PROVE  Holding'
  <1>1. AtStatement' \subseteq AtStatement
    BY StepMoves DEF AtStatement
  <1> QED
    BY <1>1 DEF QueryInv, Holding

\* A step that neither enters nor leaves reconnect leaves the connection and the
\* cursor as they are.
LEMMA ConnectionKept ==
    ASSUME TypeOK, QueryInv, NEW t \in Threads, Step(t),
           open' = open, cursor' = cursor,
           pc[t] \notin {"connect", "cursor"}, pc'[t] \notin {"connect", "cursor"}
    PROVE  ClosedWhileConnecting'
  <1>1. Connecting' = Connecting /\ AtCursor' = AtCursor
    BY StepMoves DEF Connecting, AtCursor
  <1>2. refused' = 0 => refused = 0
    BY StepMoves
  <1> QED
    BY <1>1, <1>2, Zenon DEF QueryInv, ClosedWhileConnecting

\* A query that is alone finds the connection and the cursor open, unless it
\* replaces them or a connection was refused.
LEMMA AloneOpen ==
    ASSUME TypeOK, QueryInv, NEW t \in Threads, alone[t], refused = 0,
           pc[t] \notin {"idle", "connect", "cursor"}
    PROVE  open /\ cursor
  <1>1. Busy = {t}
    BY DEF QueryInv, AloneIsOnly, Busy
  <1>2. Connecting = {} /\ AtCursor = {}
    BY <1>1 DEF Connecting, AtCursor, Busy
  <1> QED
    BY <1>2, Zenon DEF QueryInv, ClosedWhileConnecting

\* check_timeout closes the connection only when it is open, so that one thread
\* makes a new one.
LEMMA CheckKeeps ==
    ASSUME TypeOK, QueryInv, NEW t \in Threads, Check(t)
    PROVE  QueryInv'
  <1>0. Step(t) /\ pc[t] = "check" /\ lock' = lock /\ refused' = refused /\ errors' = errors
    BY DEF Check, Step
  <1>1. CASE idle /\ open
    <2>1. pc'[t] = "connect" /\ ~open'
      BY <1>1 DEF Check, Goto, TypeOK
    <2>2. Connecting = {}
      BY <1>1 DEF QueryInv, ClosedWhileConnecting
    <2>3. Connecting' = {t}
      BY <1>0, <2>1, <2>2, StepMoves DEF Connecting
    <2>4. ClosedWhileConnecting'
      BY <2>1, <2>3 DEF ClosedWhileConnecting
    <2>5. Holding'
      BY <1>0, <2>1, HoldingKept DEF AtStatement
    <2> QED
      BY <1>0, <2>1, <2>4, <2>5, StepKeeps
  <1>2. CASE ~idle
    <2>1. pc'[t] = "lock" /\ open' = open /\ cursor' = cursor
      BY <1>2 DEF Check, Goto, TypeOK
    <2>2. Holding' /\ ClosedWhileConnecting'
      BY <1>0, <2>1, HoldingKept, ConnectionKept DEF AtStatement
    <2> QED
      BY <1>0, <2>1, <2>2, StepKeeps
  <1>3. CASE idle /\ ~open
    <2>1. pc'[t] = "idle" /\ answer'[t] = "raised" /\ open' = open /\ cursor' = cursor
      BY <1>3 DEF Check, Return, Goto, TypeOK
    <2>2. Holding' /\ ClosedWhileConnecting'
      BY <1>0, <2>1, HoldingKept, ConnectionKept DEF AtStatement
    <2>3. alone[t] => refused # 0
      BY <1>0, <1>3, AloneOpen
    <2>4. alone[t] => errors' + refused' > 0
      BY <1>0, <2>3 DEF TypeOK
    <2> QED
      BY <1>0, <2>1, <2>2, <2>4, StepKeeps DEF Fine
  <1> QED
    BY <1>1, <1>2, <1>3

\* A new connection, or none: then the Store stays closed.
LEMMA NewConnectionKeeps ==
    ASSUME TypeOK, QueryInv, NEW t \in Threads, NewConnection(t)
    PROVE  QueryInv'
  <1>1. Step(t) /\ pc[t] = "connect" /\ lock' = lock
    BY DEF NewConnection, Step
  <1>2. Connecting = {t}
    BY <1>1 DEF QueryInv, ClosedWhileConnecting, Connecting
  <1>3. CASE open' = TRUE /\ Goto(t, "cursor")
    <2>1. pc'[t] = "cursor"
      BY <1>3 DEF Goto, TypeOK
    <2>2. Connecting' = {}
      BY <1>1, <1>2, <2>1, StepMoves DEF Connecting
    <2>3. AtCursor' # {}
      BY <2>1 DEF AtCursor
    <2>4. ClosedWhileConnecting'
      BY <1>3, <2>2, <2>3 DEF ClosedWhileConnecting
    <2>5. Holding'
      BY <1>1, <2>1, HoldingKept DEF AtStatement
    <2> QED
      BY <1>1, <2>1, <2>4, <2>5, StepKeeps
  <1>4. CASE MayRefuse /\ refused' = refused + 1 /\ Return(t, "raised")
    <2>1. pc'[t] = "idle" /\ answer'[t] = "raised" /\ errors' = errors
      BY <1>4 DEF NewConnection, Return, Goto, TypeOK
    <2>2. Connecting' = {}
      BY <1>1, <1>2, <2>1, StepMoves DEF Connecting
    <2>3. refused' # 0 /\ errors' + refused' > 0
      BY <1>4, <2>1 DEF TypeOK
    <2>4. ClosedWhileConnecting'
      BY <2>2, <2>3 DEF ClosedWhileConnecting
    <2>5. Holding'
      BY <1>1, <2>1, HoldingKept DEF AtStatement
    <2> QED
      BY <1>1, <2>1, <2>3, <2>4, <2>5, StepKeeps DEF Fine
  <1> QED
    BY <1>3, <1>4 DEF NewConnection

\* The last thread that leaves reconnect leaves an open cursor, unless a
\* connection was refused.
LEMMA NewCursorKeeps ==
    ASSUME TypeOK, QueryInv, NEW t \in Threads, NewCursor(t)
    PROVE  QueryInv'
  <1>1. /\ Step(t) /\ pc[t] = "cursor" /\ pc'[t] = "lock" /\ lock' = lock
        /\ open' = open /\ refused' = refused
    BY DEF NewCursor, Goto, Step, TypeOK
  <1>2. cursor' = open
    BY Zenon DEF NewCursor
  <1>3. Connecting' = Connecting
    BY <1>1, StepMoves DEF Connecting
  <1>4. ClosedWhileConnecting'
    BY <1>1, <1>2, <1>3, Zenon DEF QueryInv, ClosedWhileConnecting
  <1>5. Holding'
    BY <1>1, HoldingKept DEF AtStatement
  <1> QED
    BY <1>1, <1>4, <1>5, StepKeeps

\* The lock is taken only when nobody holds it.
LEMMA AcquireKeeps ==
    ASSUME TypeOK, QueryInv, NEW t \in Threads, Acquire(t)
    PROVE  QueryInv'
  <1>1. /\ Step(t) /\ pc[t] = "lock" /\ pc'[t] = "execute"
        /\ lock = {} /\ lock' = {t} /\ open' = open /\ cursor' = cursor
    BY DEF Acquire, Goto, Step, TypeOK
  <1>2. AtStatement = {}
    BY <1>1 DEF QueryInv, Holding
  <1>3. AtStatement' = {t}
    BY <1>1, <1>2, StepMoves DEF AtStatement
  <1>4. Holding'
    BY <1>1, <1>3 DEF Holding
  <1>5. ClosedWhileConnecting'
    BY <1>1, ConnectionKept
  <1> QED
    BY <1>1, <1>4, <1>5, StepKeeps

\* execute sends its statement, or raises on a cursor that is closed.
LEMMA ExecuteKeeps ==
    ASSUME TypeOK, QueryInv, NEW t \in Threads, Execute(t)
    PROVE  QueryInv'
  <1>1. /\ Step(t) /\ pc[t] = "execute" /\ lock' = lock /\ open' = open
        /\ cursor' = cursor /\ errors' = errors /\ refused' = refused
        /\ pc'[t] \in {"sent", "idle"}
        /\ pc'[t] = "sent" => on' = "cursor"
        /\ pc'[t] = "idle" => ~cursor /\ answer'[t] = "raised"
    BY DEF Execute, Raise, Return, Goto, Step, TypeOK
  <1>2. Holding' /\ ClosedWhileConnecting'
    BY <1>1, HoldingKept, ConnectionKept DEF AtStatement
  <1>3. (alone[t] /\ ~cursor) => refused # 0
    BY <1>1, AloneOpen
  <1>4. refused # 0 => errors' + refused' > 0
    BY <1>1 DEF TypeOK
  <1> QED
    BY <1>1, <1>2, <1>3, <1>4, StepKeeps DEF Fine

\* The result is read into the cursor, or execute raises.
LEMMA ReadKeeps ==
    ASSUME TypeOK, QueryInv, NEW t \in Threads, Read(t)
    PROVE  QueryInv'
  <1>1. /\ Step(t) /\ pc[t] = "sent" /\ lock' = lock /\ open' = open /\ cursor' = cursor
        /\ refused' = refused
        /\ pc'[t] \in {"release", "idle"}
        /\ (pc'[t] = "release" /\ on = "cursor") => rows' = t
        /\ (pc'[t] = "idle" /\ on # "closed") =>
               errors' = errors + 1 /\ answer'[t] = "raised"
    BY DEF Read, Raise, Return, Goto, Step, TypeOK
  <1>2. Holding' /\ ClosedWhileConnecting'
    BY <1>1, HoldingKept, ConnectionKept DEF AtStatement
  <1>3. alone[t] => on = "cursor"
    BY <1>1 DEF QueryInv, AloneRows
  <1>4. errors' = errors + 1 => errors' + refused' > 0
    BY <1>1 DEF TypeOK
  <1> QED
    BY <1>1, <1>2, <1>3, <1>4, StepKeeps DEF Fine

\* The lock is released by the thread that holds it.
LEMMA ReleaseKeeps ==
    ASSUME TypeOK, QueryInv, NEW t \in Threads, Release(t)
    PROVE  QueryInv'
  <1>1. /\ Step(t) /\ pc[t] = "release" /\ pc'[t] = "fetch"
        /\ open' = open /\ cursor' = cursor /\ rows' = rows
    BY DEF Release, Goto, Step, TypeOK
  <1>2. \A u \in AtStatement : u = t
    BY <1>1 DEF QueryInv, Holding, AtStatement
  <1>3. AtStatement' = {}
    BY <1>1, <1>2, StepMoves DEF AtStatement
  <1>4. Holding' /\ ClosedWhileConnecting'
    BY <1>1, <1>3, ConnectionKept DEF Holding
  <1>5. alone[t] => rows = t
    BY <1>1 DEF QueryInv, AloneRows
  <1> QED
    BY <1>1, <1>4, <1>5, StepKeeps

\* fetchall gives a query that is alone the rows of its own statement.
LEMMA FetchKeeps ==
    ASSUME TypeOK, QueryInv, NEW t \in Threads, Fetch(t)
    PROVE  QueryInv'
  <1>1. /\ Step(t) /\ pc[t] = "fetch" /\ pc'[t] = "idle"
        /\ open' = open /\ cursor' = cursor /\ lock' = lock
    BY DEF Fetch, Return, Goto, Step, TypeOK
  <1>2. Holding' /\ ClosedWhileConnecting'
    BY <1>1, HoldingKept, ConnectionKept DEF AtStatement
  <1>3. alone[t] => rows = t
    BY <1>1 DEF QueryInv, AloneRows
  <1>4. rows = t => answer'[t] = "own"
    <2> SUFFICES ASSUME rows = t PROVE answer'[t] = "own"
      OBVIOUS
    <2>1. rows # "empty" /\ rows # "fresh"
      OBVIOUS
    <2>2. (CASE rows = t       -> "own"
             [] rows = "empty" -> "empty"
             [] rows = "fresh" -> "raised"
             [] OTHER          -> "other") = "own"
      BY <2>1
    <2> QED
      BY <2>2 DEF Fetch, Return, TypeOK
  <1> QED
    BY <1>1, <1>2, <1>3, <1>4, StepKeeps DEF Fine

\* A query that begins while others run makes all of them overlapped.
LEMMA BeginKeeps ==
    ASSUME TypeOK, QueryInv, NEW t \in Threads, Begin(t)
    PROVE  QueryInv'
  <1>1. /\ pc[t] = "idle" /\ pc'[t] = "check"
        /\ \A u \in Threads : u # t => pc'[u] = pc[u] /\ answer'[u] = answer[u]
        /\ UNCHANGED <<lock, open, cursor, rows, on, errors, refused>>
    BY DEF Begin, Goto, TypeOK
  <1>2. \A u \in Threads :
           alone'[u] <=> IF u = t THEN Busy = {} ELSE alone[u] /\ u \notin Busy
    BY Zenon DEF Begin
  <1>3. Holding' /\ ClosedWhileConnecting'
    <2>1. /\ AtStatement' = AtStatement
          /\ Connecting' = Connecting /\ AtCursor' = AtCursor
      BY <1>1 DEF AtStatement, Connecting, AtCursor
    <2>2. Holding'
      BY <1>1, <2>1 DEF QueryInv, Holding
    <2>3. ClosedWhileConnecting'
      BY <1>1, <2>1, Zenon DEF QueryInv, ClosedWhileConnecting
    <2> QED
      BY <2>2, <2>3
  <1>4. Busy' = Busy \cup {t}
    BY <1>1 DEF Busy
  <1>5. AloneIsOnly'
    <2> SUFFICES ASSUME NEW u \in Busy', alone'[u]
                 PROVE  Busy' = {u}
      BY DEF AloneIsOnly
    <2>1. u \in Threads
      BY DEF Busy
    <2> QED
      BY <1>2, <1>4, <2>1
  <1>6. AloneRows'
    <2> SUFFICES ASSUME NEW u \in Threads, alone'[u],
                        pc'[u] \in {"sent", "release", "fetch"}
                 PROVE  FALSE
      BY DEF AloneRows
    <2>1. u # t /\ pc[u] # "idle"
      BY <1>1
    <2> QED
      BY <1>2, <2>1 DEF Busy
  <1>7. AloneAnswered'
    <2> SUFFICES ASSUME NEW u \in Threads, alone'[u], pc'[u] = "idle"
                 PROVE  Fine(u)'
      BY DEF AloneAnswered, Fine
    <2>1. u # t /\ alone[u]
      BY <1>1, <1>2
    <2> QED
      BY <1>1, <2>1 DEF QueryInv, AloneAnswered, Fine
  <1> QED
    BY <1>3, <1>5, <1>6, <1>7 DEF QueryInv

\* Nobody is in query at the start.
LEMMA InitQuery == Init => QueryInv
  <1> SUFFICES ASSUME Init PROVE QueryInv
    OBVIOUS
  <1>1. AtStatement = {} /\ Connecting = {} /\ Busy = {}
    BY DEF Init, AtStatement, Connecting, Busy
  <1>2. open = TRUE /\ cursor = TRUE
    BY Zenon DEF Init
  <1>3. AloneRows /\ AloneAnswered
    BY DEF Init, AloneRows, AloneAnswered
  <1>4. ClosedWhileConnecting
    BY <1>1, <1>2, Zenon DEF ClosedWhileConnecting
  <1> QED
    BY <1>1, <1>3, <1>4 DEF QueryInv, Holding, AloneIsOnly

\* In every reachable state: who holds the lock, who replaces the connection, and
\* what a query that nothing overlaps finds.
LEMMA QueryInvariant == Spec => []QueryInv
  <1>1. TypeOK /\ QueryInv /\ [Next]_vars => QueryInv'
    <2> SUFFICES ASSUME TypeOK, QueryInv, [Next]_vars PROVE QueryInv'
      OBVIOUS
    <2>1. ASSUME NEW t \in Threads, Begin(t) PROVE QueryInv'
      BY <2>1, BeginKeeps
    <2>2. ASSUME NEW t \in Threads, Step(t) PROVE QueryInv'
      BY <2>2, CheckKeeps, NewConnectionKeeps, NewCursorKeeps, AcquireKeeps,
         ExecuteKeeps, ReadKeeps, ReleaseKeeps, FetchKeeps DEF Step
    <2>3. CASE Wait \/ UNCHANGED vars
      <3>1. UNCHANGED <<pc, lock, open, cursor, rows, on, answer, alone, errors, refused>>
        BY <2>3 DEF Wait, vars
      <3>2. /\ AtStatement' = AtStatement /\ Busy' = Busy
            /\ Connecting' = Connecting /\ AtCursor' = AtCursor
        BY <3>1 DEF AtStatement, Connecting, AtCursor, Busy
      <3>3. Holding' /\ AloneIsOnly' /\ AloneRows' /\ AloneAnswered'
        BY <3>1, <3>2 DEF QueryInv, Holding, AloneIsOnly, AloneRows, AloneAnswered
      <3>4. ClosedWhileConnecting'
        BY <3>1, <3>2, Zenon DEF QueryInv, ClosedWhileConnecting
      <3> QED
        BY <3>3, <3>4 DEF QueryInv
    <2> QED
      BY <2>1, <2>2, <2>3 DEF Next
  <1> QED
    BY <1>1, InitQuery, TypeCorrect, PTL DEF Spec

\* Two statements are never on the connection at the same time
\* (store.py:474-482).
THEOREM OneStatementAtATime == Spec => []OneStatement
  <1>1. QueryInv => OneStatement
    <2> SUFFICES ASSUME QueryInv PROVE OneStatement
      OBVIOUS
    <2> DEFINE S == {t \in Threads : pc[t] \in {"sent", "release"}}
    <2>1. CASE S = {}
      BY <2>1, FS_EmptySet DEF OneStatement
    <2>2. CASE S # {}
      <3>1. PICK t \in Threads : t \in S
        BY <2>2
      <3>2. \A u \in S : u = t
        BY <3>1 DEF QueryInv, Holding, AtStatement
      <3>3. S = {t}
        BY <3>1, <3>2
      <3> QED
        BY <3>3, FS_Singleton DEF OneStatement
    <2> QED
      BY <2>1, <2>2
  <1> QED
    BY <1>1, QueryInvariant, PTL

\* A query that no other query overlaps returns its own rows, never others, and
\* raises only after MySQL refused a statement or a connection
\* (store.py:391-414, 474-482).
THEOREM AloneIsAnswered == Spec => []AloneAnswered
  <1>1. QueryInv => AloneAnswered
    BY DEF QueryInv
  <1> QED
    BY <1>1, QueryInvariant, PTL
=============================================================================
