----------------------------- MODULE StoreQuery -----------------------------
(***************************************************************************)
(* Threads of the dashboard (Flask, one thread per request) that query one  *)
(* Store of src/database/store.py: one MySQL connection, one cursor and one  *)
(* lock for all of them.  Only execute is under the lock; check_timeout,     *)
(* which replaces the connection and then the cursor after six hours without *)
(* a call, and fetchall are not.                                            *)
(***************************************************************************)
EXTENDS Integers, FiniteSets

CONSTANTS
    Threads,      \* the threads that serve requests
    MaxQueries,   \* bound: queries
    MaxErrors     \* bound: statements and connections MySQL refuses

\* A thread is not mistaken for what else the cursor can have (see rows).
ASSUME ThreadsAssumption == IsFiniteSet(Threads) /\ {"fresh", "empty"} \cap Threads = {}
ASSUME BoundsAssumption == MaxQueries \in Nat /\ MaxErrors \in Nat

VARIABLES
    pc,        \* where each thread is in query, "idle" outside of it
    lock,      \* the threads that hold the lock: none or one
    open,      \* self.db is open
    cursor,    \* self.cursor is open, and so is its connection
    rows,      \* what self.cursor has: whose rows, "fresh" before any
               \* execute, "empty" when they were fetched
    on,        \* the cursor of the statement that is sent: self.cursor, one
               \* that was replaced since ("old") or closed since
    idle,      \* last_connect_time is more than six hours ago
    answer,    \* what the last query of each thread returned
    alone,     \* history: no other thread was in query during that query
    leaked,    \* history: an execute raised
    queries,   \* history: queries begun
    errors,    \* history: statements MySQL refused
    refused    \* history: connections MySQL refused

vars == <<pc, lock, open, cursor, rows, on, idle, answer, alone, leaked,
          queries, errors, refused>>

Stages == {"idle", "check", "connect", "cursor", "lock", "execute", "sent",
           "release", "fetch"}
Answers == {"none", "own", "other", "empty", "raised"}

TypeOK ==
    /\ pc \in [Threads -> Stages]
    /\ lock \subseteq Threads /\ Cardinality(lock) <= 1
    /\ open \in BOOLEAN /\ cursor \in BOOLEAN /\ (cursor => open)
    /\ rows \in {"fresh", "empty"} \cup Threads
    /\ on \in {"none", "cursor", "old", "closed"}
    /\ idle \in BOOLEAN /\ leaked \in BOOLEAN
    /\ answer \in [Threads -> Answers]
    /\ alone \in [Threads -> BOOLEAN]
    /\ queries \in 0..MaxQueries /\ errors \in 0..MaxErrors /\ refused \in 0..MaxErrors

Init ==
    /\ pc = [t \in Threads |-> "idle"]
    /\ lock = {} /\ open = TRUE /\ cursor = TRUE /\ rows = "fresh" /\ on = "none"
    /\ idle = FALSE
    /\ answer = [t \in Threads |-> "none"]
    /\ alone = [t \in Threads |-> TRUE]
    /\ leaked = FALSE /\ queries = 0 /\ errors = 0 /\ refused = 0
-----------------------------------------------------------------------------
Goto(t, s) == pc' = [pc EXCEPT ![t] = s]

Return(t, a) ==
    /\ answer' = [answer EXCEPT ![t] = a]
    /\ Goto(t, "idle")

\* MySQL may refuse one more statement or connection.
MayRefuse == errors + refused < MaxErrors

Busy == {t \in Threads : pc[t] # "idle"}

\* A request of a page: query(sql).
Begin(t) ==
    /\ pc[t] = "idle" /\ queries < MaxQueries
    /\ queries' = queries + 1
    /\ Goto(t, "check")
    /\ answer' = [answer EXCEPT ![t] = "none"]
    /\ alone' = [u \in Threads |->
                   IF u = t THEN Busy = {} ELSE alone[u] /\ u \notin Busy]
    /\ UNCHANGED <<lock, open, cursor, rows, on, idle, leaked, errors, refused>>

\* Six hours pass without a query.
Wait ==
    /\ Busy = {} /\ ~idle
    /\ idle' = TRUE
    /\ UNCHANGED <<pc, lock, open, cursor, rows, on, answer, alone, leaked, queries,
                   errors, refused>>

\* check_timeout, and reconnect up to db.close(), which raises on a connection
\* that is closed already.  reconnect does not set last_connect_time.
Check(t) ==
    /\ pc[t] = "check"
    /\ \/ /\ ~idle
          /\ Goto(t, "lock") /\ UNCHANGED <<open, cursor, on, answer>>
       \/ /\ idle /\ open
          /\ open' = FALSE /\ cursor' = FALSE
          /\ on' = IF on = "none" THEN "none" ELSE "closed"
          /\ Goto(t, "connect") /\ UNCHANGED answer
       \/ /\ idle /\ ~open
          /\ Return(t, "raised") /\ UNCHANGED <<open, cursor, on>>
    /\ UNCHANGED <<lock, rows, idle, alone, leaked, queries, errors, refused>>

\* reconnect: self.db is a new connection, or MySQL refuses one and the Store is
\* left with the closed one.
NewConnection(t) ==
    /\ pc[t] = "connect"
    /\ \/ /\ open' = TRUE
          /\ Goto(t, "cursor") /\ UNCHANGED <<answer, refused>>
       \/ /\ MayRefuse /\ refused' = refused + 1
          /\ Return(t, "raised") /\ UNCHANGED open
    /\ UNCHANGED <<lock, cursor, rows, on, idle, alone, leaked, queries, errors>>

\* Mutant: self.cursor stays the closed one.
CursorKept(t) ==
    /\ pc[t] = "cursor"
    /\ Goto(t, "lock")
    /\ UNCHANGED <<lock, open, cursor, rows, on, idle, answer, alone, leaked,
                   queries, errors, refused>>

\* The end of reconnect: self.cursor is a new cursor of self.db, which another
\* thread may have closed again.
NewCursor(t) ==
    /\ pc[t] = "cursor"
    /\ cursor' = open /\ rows' = "fresh"
    /\ on' = IF on = "cursor" THEN "old" ELSE on
    /\ Goto(t, "lock")
    /\ UNCHANGED <<lock, open, idle, answer, alone, leaked, queries, errors, refused>>

\* Mutant: the lock is not waited for.
AcquireAnyway(t) ==
    /\ pc[t] = "lock"
    /\ lock' = lock \cup {t}
    /\ Goto(t, "execute")
    /\ UNCHANGED <<open, cursor, rows, on, idle, answer, alone, leaked, queries,
                   errors, refused>>

Acquire(t) ==
    /\ pc[t] = "lock" /\ lock = {}
    /\ lock' = {t}
    /\ Goto(t, "execute")
    /\ UNCHANGED <<open, cursor, rows, on, idle, answer, alone, leaked, queries,
                   errors, refused>>

\* execute raises: the thread leaves query with the lock held.
Raise(t) ==
    /\ Return(t, "raised")
    /\ leaked' = TRUE

\* cursor.execute sends the statement; it raises when the cursor is closed.
Execute(t) ==
    /\ pc[t] = "execute"
    /\ \/ /\ cursor
          /\ on' = "cursor"
          /\ Goto(t, "sent") /\ UNCHANGED <<answer, leaked>>
       \/ /\ ~cursor
          /\ Raise(t) /\ UNCHANGED on
    /\ UNCHANGED <<lock, open, cursor, rows, idle, alone, queries, errors, refused>>

\* cursor.execute reads the result into the cursor it sent the statement on;
\* MySQL may have refused the statement, and another thread may have closed the
\* connection.
Read(t) ==
    /\ pc[t] = "sent"
    /\ \/ /\ on # "closed"
          /\ rows' = IF on = "cursor" THEN t ELSE rows
          /\ Goto(t, "release") /\ UNCHANGED <<answer, leaked, errors>>
       \/ /\ on # "closed" /\ MayRefuse /\ errors' = errors + 1
          /\ Raise(t) /\ UNCHANGED rows
       \/ /\ on = "closed"
          /\ Raise(t) /\ UNCHANGED <<rows, errors>>
    /\ on' = "none"
    /\ UNCHANGED <<lock, open, cursor, idle, alone, queries, refused>>

\* Mutant: the lock is never released.
ReleaseForgotten(t) ==
    /\ pc[t] = "release"
    /\ Goto(t, "fetch")
    /\ UNCHANGED <<lock, open, cursor, rows, on, idle, answer, alone, leaked,
                   queries, errors, refused>>

Release(t) ==
    /\ pc[t] = "release"
    /\ lock' = {}
    /\ Goto(t, "fetch")
    /\ UNCHANGED <<open, cursor, rows, on, idle, answer, alone, leaked, queries,
                   errors, refused>>

\* cursor.fetchall: the rows self.cursor has not given out yet; it raises when
\* nothing was executed on this cursor.
Fetch(t) ==
    /\ pc[t] = "fetch"
    /\ Return(t, CASE rows = t       -> "own"
                   [] rows = "empty" -> "empty"
                   [] rows = "fresh" -> "raised"
                   [] OTHER          -> "other")
    /\ rows' = IF rows = "fresh" THEN "fresh" ELSE "empty"
    /\ UNCHANGED <<lock, open, cursor, on, idle, alone, leaked, queries, errors, refused>>

Step(t) ==
    \/ Check(t) \/ NewConnection(t) \/ NewCursor(t) \/ Acquire(t) \/ Execute(t)
    \/ Read(t) \/ Release(t) \/ Fetch(t)

Next ==
    \/ \E t \in Threads : Begin(t) \/ Step(t)
    \/ Wait

Spec == Init /\ [][Next]_vars

\* Threads run.
FairSpec == Spec /\ \A t \in Threads : WF_vars(Step(t))
-----------------------------------------------------------------------------
\* Two statements are never on the connection at the same time, although the
\* connection is replaced outside the lock (store.py:474-482).
OneStatement == Cardinality({t \in Threads : pc[t] \in {"sent", "release"}}) <= 1

\* A query that no other query overlaps returns its own rows, also after six idle
\* hours, when it reconnects first; it never returns other rows.  It raises only
\* after MySQL refused a statement or a connection, at once or in any query
\* before: a Store whose reconnect was refused stays closed, and every later
\* query raises in db.close() (store.py:391-414, 474-482).
AloneAnswered ==
    \A t \in Threads :
        (pc[t] = "idle" /\ alone[t]) =>
            \/ answer[t] \in {"none", "own"}
            \/ answer[t] = "raised" /\ errors + refused > 0

\* Every query returns, unless some execute raised before: then the lock stays
\* taken and every later query waits for it for good (store.py:479-481).
Returns == \A t \in Threads : [](pc[t] # "idle" => <>(pc[t] = "idle" \/ leaked))
=============================================================================
