---------------------------- MODULE StoreCreate -----------------------------
(***************************************************************************)
(* How a database comes into being: Store.__init__ of src/database/store.py, *)
(* run by every process that first meets an env.  It asks MySQL whether the *)
(* database is there, and if not creates it and then its tables, one         *)
(* statement after the other, with no transaction and no lock; then it       *)
(* starts over and connects.  16 consumers and the dashboard do so at once.  *)
(*                                                                         *)
(* A statement that fails raises out of the constructor; MultiDB keeps no    *)
(* Store then, and the next alarm or query calls the constructor again (for  *)
(* a consumer in its default mode, after its restart).  A Store that was made *)
(* is kept as long as its process lives, whatever its statements meet.      *)
(***************************************************************************)
EXTENDS Integers, FiniteSets

CONSTANTS
    Procs,       \* the processes that use the database
    Keepers,     \* those of them that catch the exception of a failed statement:
                 \* the dashboard, and consumers in the mode of consume_alarm
    NTables,     \* the number of CREATE TABLE statements (21 in the code)
    Lookalike,   \* TRUE: another database's name matches this name as a LIKE
                 \* pattern, in which _ stands for any character
    MaxKills,    \* bound: processes killed
    MaxDrops     \* bound: DROP DATABASE by the spider

ASSUME ProcsAssumption == IsFiniteSet(Procs) /\ Keepers \subseteq Procs
ASSUME NTablesAssumption == NTables \in Nat \ {0}
ASSUME LookalikeAssumption == Lookalike \in BOOLEAN
ASSUME CreationBounds == MaxKills \in Nat /\ MaxDrops \in Nat

VARIABLES
    exists,   \* the database exists
    tables,   \* which of its tables exist
    stage,    \* where each process is
    at,       \* at[p]: the table p creates next
    kills,    \* history: processes killed
    broken,   \* history: a process was killed before it had created all tables
    drops     \* history: how often the database was dropped

creationVars == <<exists, tables, stage, at, kills, broken, drops>>

Tables == 1..NTables

CreationTypeOK ==
    /\ exists \in BOOLEAN
    /\ tables \subseteq Tables /\ (~exists => tables = {})
    /\ stage \in [Procs -> {"none", "show", "create", "tables", "connect", "ready"}]
    /\ at \in [Procs -> 1..(NTables + 1)]
    /\ kills \in Nat /\ broken \in BOOLEAN /\ drops \in Nat

CreationInit ==
    /\ exists = FALSE /\ tables = {}
    /\ stage = [p \in Procs |-> "none"]
    /\ at = [p \in Procs |-> 1]
    /\ kills = 0 /\ broken = FALSE /\ drops = 0
-----------------------------------------------------------------------------
GotoStage(p, s) == stage' = [stage EXCEPT ![p] = s]
Keeps == UNCHANGED <<exists, tables, at, kills, broken, drops>>

\* An alarm or a query for the database; a connection to the database "empty".
Start(p) == stage[p] = "none" /\ GotoStage(p, "show") /\ Keeps

\* show databases like "..."
Show(p) ==
    /\ stage[p] = "show"
    /\ GotoStage(p, IF exists \/ Lookalike THEN "connect" ELSE "create")
    /\ Keeps

\* Mutant: the constructor is not left by the exception of CREATE DATABASE.
CreateWaits(p) ==
    /\ stage[p] = "create" /\ ~exists
    /\ exists' = TRUE /\ at' = [at EXCEPT ![p] = 1] /\ GotoStage(p, "tables")
    /\ UNCHANGED <<tables, kills, broken, drops>>

\* CREATE DATABASE and USE: fails when another process was faster.
Create(p) ==
    /\ stage[p] = "create"
    /\ IF exists
       THEN GotoStage(p, "none") /\ UNCHANGED <<exists, at>>
       ELSE exists' = TRUE /\ at' = [at EXCEPT ![p] = 1] /\ GotoStage(p, "tables")
    /\ UNCHANGED <<tables, kills, broken, drops>>

\* One CREATE TABLE: fails when the database was dropped, or when the table is
\* there, made by the creator of another incarnation of the database.
CreateTable(p) ==
    /\ stage[p] = "tables" /\ at[p] <= NTables
    /\ IF exists /\ at[p] \notin tables
       THEN /\ tables' = tables \cup {at[p]}
            /\ at' = [at EXCEPT ![p] = @ + 1]
            /\ UNCHANGED stage
       ELSE GotoStage(p, "none") /\ UNCHANGED <<tables, at>>
    /\ UNCHANGED <<exists, kills, broken, drops>>

\* Mutant: the constructor starts over before the last table.
AgainEarly(p) == stage[p] = "tables" /\ at[p] >= NTables /\ GotoStage(p, "show") /\ Keeps

\* After the last table the constructor calls itself.
Again(p) == stage[p] = "tables" /\ at[p] > NTables /\ GotoStage(p, "show") /\ Keeps

\* Connecting to the database itself.
Connect(p) ==
    /\ stage[p] = "connect"
    /\ GotoStage(p, IF exists THEN "ready" ELSE "none")
    /\ Keeps

\* A statement on some table; without it, or without the database, the consumer
\* dies, and starts again from nothing.  A keeper stays with its Store.
Use(p) ==
    /\ p \notin Keepers
    /\ stage[p] = "ready" /\ tables # Tables
    /\ GotoStage(p, "none") /\ Keeps

\* The spider kills the process and starts a new one.
Kill(p) ==
    /\ kills < MaxKills
    /\ stage[p] # "none"
    /\ kills' = kills + 1
    /\ broken' = (broken \/ stage[p] = "tables")
    /\ GotoStage(p, "none")
    /\ UNCHANGED <<exists, tables, at, drops>>

\* Mutant: the tables survive their database.
DropKeepsTables ==
    /\ exists /\ drops < MaxDrops
    /\ exists' = FALSE
    /\ drops' = drops + 1
    /\ UNCHANGED <<tables, stage, at, kills, broken>>

\* do_clean of the spider.
Drop ==
    /\ exists /\ drops < MaxDrops
    /\ exists' = FALSE /\ tables' = {}
    /\ drops' = drops + 1
    /\ UNCHANGED <<stage, at, kills, broken>>

CreationStep(p) ==
    \/ Start(p) \/ Show(p) \/ Create(p) \/ CreateTable(p)
    \/ Again(p) \/ Connect(p) \/ Use(p)

CreationNext ==
    \/ \E p \in Procs : CreationStep(p) \/ Kill(p)
    \/ Drop

CreationSpec == CreationInit /\ [][CreationNext]_creationVars

\* Alarms and queries keep coming to every process, and it executes them.
FairCreationSpec == CreationSpec /\ \A p \in Procs : WF_creationVars(CreationStep(p))
-----------------------------------------------------------------------------
Creators == {p \in Procs : stage[p] = "tables"}

\* Nobody coordinates the creators, yet while none of them was killed a missing
\* table always has a creator on its way to it: also when the database is dropped
\* under one creator and made again by another, whose tables collide with its own
\* (store.py:36-375).
NoTableForgotten ==
    (exists /\ ~broken) =>
        \A t \in Tables \ tables : \E p \in Creators :
            at[p] <= t /\ at[p]..t \cap tables = {}

\* So a database that is created ends up with all its tables, unless a creator
\* was killed half-way: then the missing ones are never created
\* (store.py:36-40, 375).
Completed == []((exists /\ tables # Tables) => <>(tables = Tables \/ ~exists \/ broken))

\* The processes that lost the race to create a database recover: all of them
\* end up with a connection to it (store.py:36-40, 377-389).  A keeper keeps the one
\* it has, though the database be dropped.
AllConnected == <>[](broken \/ \A p \in Procs : stage[p] = "ready")

\* The comments of the constructor: "whether the database exists", then "create
\* the database" (store.py:35, 37): a database that does not exist is created.
MissingIsCreated == []((\E p \in Procs : stage[p] = "show") /\ ~exists => <>exists)
=============================================================================
