---------------------------- MODULE RowDelivery -----------------------------
(***************************************************************************)
(* What a consumer process promises about the alarms of its list: it takes *)
(* them in the order in which they were posted, it holds those it took in  *)
(* memory, one sequence per database, and it stores a prefix of what it     *)
(* holds at a time.  When it dies, what it holds is lost.                   *)
(*                                                                         *)
(* Nothing is stored twice, and no row overtakes another row of its        *)
(* database.  An alarm is the index at which it was posted.                *)
(***************************************************************************)
EXTENDS Integers, Sequences

CONSTANTS
    Alarms,      \* [db, tag, ip, kind]
    Dbs,         \* the databases, one per env and day
    MaxAlarms    \* bound: how many alarms are posted

VARIABLES
    sent,     \* the alarms posted so far
    next,     \* how many of them were taken
    held,     \* held[d]: the rows for d in memory, oldest first
    table     \* table[d]: the rows of the table of d, in insertion order

vars == <<sent, next, held, table>>

\* A consumer skips alarms of another type.
Handled(a) == a.kind # "alien"
NothingHeld == [d \in Dbs |-> <<>>]

Init ==
    /\ sent = <<>>
    /\ next = 0
    /\ held = NothingHeld
    /\ table = [d \in Dbs |-> <<>>]

Post(a) ==
    /\ Len(sent) < MaxAlarms
    /\ sent' = Append(sent, a)
    /\ UNCHANGED <<next, held, table>>

Take ==
    /\ next < Len(sent)
    /\ next' = next + 1
    /\ LET a == sent[next + 1]
       IN  held' = IF Handled(a) THEN [held EXCEPT ![a.db] = Append(@, next + 1)]
                                 ELSE held
    /\ UNCHANGED <<sent, table>>

\* The oldest n rows held for d go to its table.
Save(d, n) ==
    /\ table' = [table EXCEPT ![d] = @ \o SubSeq(held[d], 1, n)]
    /\ held' = [held EXCEPT ![d] = SubSeq(@, n + 1, Len(@))]
    /\ UNCHANGED <<sent, next>>

\* The process dies; the last insert it sent may have reached MySQL.
Crash ==
    /\ held' = NothingHeld
    /\ \/ UNCHANGED table
       \/ \E d \in Dbs : \E n \in 1..Len(held[d]) :
             table' = [table EXCEPT ![d] = @ \o SubSeq(held[d], 1, n)]
    /\ UNCHANGED <<sent, next>>

Next ==
    \/ \E a \in Alarms : Post(a)
    \/ Take
    \/ \E d \in Dbs : \E n \in 1..Len(held[d]) : Save(d, n)
    \/ Crash

Spec == Init /\ [][Next]_vars
-----------------------------------------------------------------------------
\* Per database, what is stored and then what is held are posting indices in
\* strictly increasing order: nothing twice, nothing out of order.
InOrder ==
    \A d \in Dbs :
        LET rows == table[d] \o held[d]
        IN  /\ \A i \in DOMAIN rows : rows[i] \in 1..next
            /\ \A i, j \in DOMAIN rows : i < j => rows[i] < rows[j]
=============================================================================
