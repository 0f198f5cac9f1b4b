--------------------------- MODULE DirectConsumer ---------------------------
(***************************************************************************)
(* A consumer process without a row cache (src/consumer): every alarm of a  *)
(* batch becomes one INSERT (kadinfo: INSERT ... ON DUPLICATE KEY UPDATE),   *)
(* then, for some types, an INSERT IGNORE of its tag or ip.                 *)
(*                                                                         *)
(* Calls raise, the process is killed and databases are dropped and made     *)
(* again as in MetricsConsumer.                                             *)
(***************************************************************************)
EXTENDS Integers, Sequences, FiniteSets, HeldRows

CONSTANTS
    Alarms,         \* the alarms that can be posted: [db, tag, ip, kind]
    Dbs,            \* databases
    Modes,          \* which consumers there are, and how they are started
    Step,           \* consume_step_
    MaxAlarms,      \* bound: how many alarms are posted
    MaxFailures     \* bound: exceptions, kills and databases made again, but for
                    \* the exceptions alarms cause

(***************************************************************************)
(* What the handler does after the row is in its table: which field it      *)
(* lists, if any, and whether it remembers what it listed.                  *)
(***************************************************************************)
MetricsFlowConsumer     == [lists |-> "tag",  remembers |-> FALSE]
MetricsAlarmConsumer    == [lists |-> "tag",  remembers |-> TRUE]
VnodeStatusConsumer     == [lists |-> "ip",   remembers |-> FALSE]
P2PTestSendConsumer     == [lists |-> "ip",   remembers |-> FALSE]
P2PTestRecvConsumer     == [lists |-> "ip",   remembers |-> FALSE]
P2pKadinfoConsumer      == [lists |-> "none", remembers |-> FALSE]
XsyncIntervalConsumer   == [lists |-> "none", remembers |-> FALSE]
TxpoolStateConsumer     == [lists |-> "none", remembers |-> FALSE]
TxpoolReceiptConsumer   == [lists |-> "none", remembers |-> FALSE]
TxpoolCacheConsumer     == [lists |-> "none", remembers |-> FALSE]
RelayerGasConsumer      == [lists |-> "none", remembers |-> FALSE]

Kinds == {"good",      \* a row MySQL accepts
          "untagged",  \* without category or tag: building full_tag raises
          "refused",   \* a value MySQL refuses
          "alien"}     \* of another alarm_type: a warning, nothing else

ASSUME AlarmsAssumption == \A a \in Alarms : a.db \in Dbs /\ a.kind \in Kinds
ASSUME StepAssumption == Step \in Nat \ {0}
ASSUME ModesAssumption ==
    Modes \subseteq [consumer : [lists : {"none", "tag", "ip"}, remembers : BOOLEAN],
                    catches : BOOLEAN]
ASSUME BoundsAssumption == MaxAlarms \in Nat /\ MaxFailures \in Nat

VARIABLES
    mode,      \* what this process is, for good
    sent,      \* the alarms pushed to the list, oldest first
    next,      \* how many were popped; the list is what follows in sent
    pc,        \* where the process is, "dead" when there is none
    batch,     \* indices in sent of the alarms popped and not yet inserted
    row,       \* index in sent of the row inserted last, 0 when none
    listed,    \* tag_cache[db] of metrics_alarm
    table,     \* MySQL: the inserts into the table of each database, in order,
               \* those that were dropped since included
    listTable, \* MySQL: tags_table or ips_table of each database
    failures,  \* history: exceptions and kills so far
    remakes,   \* history: databases made again so far
    dropped,   \* history: how many rows of table[d] were dropped with d
    stale      \* history: the tags this process remembered to have listed in a
               \* database when that was last made again

memory == <<pc, batch, row, listed>>
mysql == <<table, listTable>>
made == <<remakes, dropped, stale>>
vars == <<mode, sent, next, memory, mysql, failures, made>>

Consumer == mode.consumer
CatchesErrors == mode.catches   \* consume_alarm, not consume_alarm_with_notry

Index == 1..Len(sent)
Db(i) == sent[i].db
Field(i) == IF Consumer.lists = "tag" THEN sent[i].tag ELSE sent[i].ip
Fields == {a.tag : a \in Alarms} \cup {a.ip : a \in Alarms}
Nothing == [d \in Dbs |-> {}]

TypeOK ==
    /\ mode \in Modes
    /\ sent \in Seq(Alarms) /\ Len(sent) <= MaxAlarms
    /\ next \in 0..Len(sent)
    /\ pc \in {"fetch", "row", "list", "dead"}
    /\ batch \in Seq(Index) /\ Len(batch) <= Step
    /\ row \in 0..Len(sent) /\ (pc = "list" => row \in Index)
    /\ table \in [Dbs -> Seq(Index)]
    /\ listed \in [Dbs -> SUBSET Fields] /\ listTable \in [Dbs -> SUBSET Fields]
    /\ failures \in Nat /\ remakes \in Nat
    /\ dropped \in [Dbs -> Nat] /\ \A d \in Dbs : dropped[d] <= Len(table[d])
    /\ stale \in [Dbs -> SUBSET Fields]

Init ==
    /\ mode \in Modes
    /\ sent = <<>> /\ next = 0
    /\ pc = "fetch" /\ batch = <<>> /\ row = 0 /\ listed = Nothing
    /\ table = [d \in Dbs |-> <<>>] /\ listTable = Nothing
    /\ failures = 0 /\ remakes = 0
    /\ dropped = [d \in Dbs |-> 0] /\ stale = Nothing
-----------------------------------------------------------------------------
\* put_queue in a proxy worker.
Post(a) ==
    /\ Len(sent) < MaxAlarms
    /\ sent' = Append(sent, a)
    /\ UNCHANGED <<next, memory, mysql, failures, made>>

\* Redis or MySQL is out of reach, or closes the connection.
MayFail == failures + remakes < MaxFailures

Die == pc' = "dead" /\ batch' = <<>> /\ row' = 0 /\ listed' = Nothing

Raise(newListed) ==
    /\ failures' = failures + 1
    /\ IF CatchesErrors
       THEN pc' = "fetch" /\ batch' = <<>> /\ row' = 0 /\ listed' = newListed
       ELSE Die

\* Mutant: one alarm more than a batch holds.
FetchTooMany ==
    /\ pc = "fetch" /\ next < Len(sent)
    /\ next' = next + 1
    /\ batch' = Append(batch, next + 1)
    /\ pc' = IF Len(batch) = Step THEN "row" ELSE "fetch"
    /\ UNCHANGED <<sent, row, listed, mysql, failures>>

\* get_queue_exp: one BRPOP; it returns after exactly Step of them.
Fetch ==
    /\ pc = "fetch" /\ next < Len(sent)
    /\ next' = next + 1
    /\ batch' = Append(batch, next + 1)
    /\ pc' = IF Len(batch) + 1 = Step THEN "row" ELSE "fetch"
    /\ UNCHANGED <<sent, row, listed, mysql, failures>>

\* A BRPOP raises: what was popped for the batch is lost.
FetchRaises ==
    /\ pc = "fetch" /\ MayFail
    /\ Raise(listed)
    /\ UNCHANGED <<sent, next, mysql>>

Continue(r) == IF r # <<>> THEN "row" ELSE "fetch"

Skip ==
    /\ pc = "row" /\ sent[Head(batch)].kind = "alien"
    /\ batch' = Tail(batch)
    /\ pc' = Continue(Tail(batch))
    /\ UNCHANGED <<sent, next, row, listed, mysql, failures>>

\* Mutant: an insert that raises is tried again.
InsertRetried ==
    /\ pc = "row" /\ sent[Head(batch)].kind # "alien"
    /\ LET i == Head(batch)
           inserted == [table EXCEPT ![Db(i)] = Append(@, i)]
       IN  \/ /\ sent[i].kind # "refused"
              /\ table' = inserted
              /\ batch' = Tail(batch)
              /\ IF Consumer.lists = "none"
                 THEN pc' = Continue(Tail(batch)) /\ row' = 0
                 ELSE pc' = "list" /\ row' = i
              /\ UNCHANGED <<listed, failures>>
           \/ /\ MayFail /\ failures' = failures + 1
              /\ table' \in {table, inserted}
              /\ UNCHANGED <<pc, batch, row, listed>>
    /\ UNCHANGED <<sent, next, listTable>>

\* insert_into_db or insert_update_into_db of the row.
Insert ==
    /\ pc = "row" /\ sent[Head(batch)].kind # "alien"
    /\ LET i == Head(batch)
           inserted == [table EXCEPT ![Db(i)] = Append(@, i)]
       IN  \/ /\ sent[i].kind # "refused"
              /\ table' = inserted
              /\ batch' = Tail(batch)
              /\ IF Consumer.lists = "none"
                 THEN pc' = Continue(Tail(batch)) /\ row' = 0
                 ELSE pc' = "list" /\ row' = i
              /\ UNCHANGED <<listed, failures>>
           \/ /\ sent[i].kind = "refused"
              /\ Raise(listed)
              /\ UNCHANGED table
           \/ /\ sent[i].kind # "refused" /\ MayFail
              /\ Raise(listed)
              /\ table' \in {table, inserted}
    /\ UNCHANGED <<sent, next, listTable>>

\* Mutant: what was listed in one database is taken as listed in all of them.
ListOnce ==
    /\ pc = "list"
    /\ pc' = Continue(batch) /\ row' = 0
    /\ IF \E e \in Dbs : Field(row) \in listTable[e]
       THEN UNCHANGED listTable
       ELSE listTable' = [listTable EXCEPT ![Db(row)] = @ \cup {Field(row)}]
    /\ UNCHANGED <<sent, next, batch, listed, table, failures>>

\* insert_ingore_into_db of the tag or ip of the row; metrics_alarm builds
\* full_tag, remembers it, and inserts it only the first time.
List ==
    /\ pc = "list"
    /\ LET d == Db(row)
           known == IF Consumer.remembers
                    THEN [listed EXCEPT ![d] = @ \cup {Field(row)}] ELSE listed
           inserted == [listTable EXCEPT ![d] = @ \cup {Field(row)}]
           done == pc' = Continue(batch) /\ row' = 0 /\ UNCHANGED <<batch, failures>>
       IN  \/ /\ Consumer.remembers /\ sent[row].kind = "untagged"
              /\ Raise(listed)
              /\ UNCHANGED listTable
           \/ /\ Consumer.remembers /\ sent[row].kind # "untagged"
              /\ Field(row) \in listed[d]
              /\ done
              /\ UNCHANGED <<listed, listTable>>
           \/ /\ Consumer.remembers => /\ sent[row].kind # "untagged"
                                       /\ Field(row) \notin listed[d]
              /\ \/ done /\ listed' = known /\ listTable' = inserted
                 \/ MayFail /\ Raise(known) /\ listTable' \in {listTable, inserted}
    /\ UNCHANGED <<sent, next, table>>

\* check_true_or_restart of the spider: kill -9 of every consumer, then start.
Kill ==
    /\ pc # "dead" /\ MayFail
    /\ failures' = failures + 1
    /\ Die
    /\ UNCHANGED <<sent, next, mysql, made>>

Restart ==
    /\ pc = "dead"
    /\ pc' = "fetch"
    /\ UNCHANGED <<sent, next, batch, row, listed, mysql, failures, made>>

\* d is dropped, and made again by another process, with empty tables.  What this
\* process stores in between raises.
Remake(d) ==
    /\ MayFail /\ table[d] # <<>>
    /\ remakes' = remakes + 1
    /\ dropped' = [dropped EXCEPT ![d] = Len(table[d])]
    /\ stale' = [stale EXCEPT ![d] = listed[d]]
    /\ listTable' = [listTable EXCEPT ![d] = {}]
    /\ UNCHANGED <<sent, next, memory, table, failures>>

Process ==
    /\ Fetch \/ FetchRaises \/ Skip \/ Insert \/ List
    /\ UNCHANGED made

Next ==
    /\ \/ \E a \in Alarms : Post(a)
       \/ Process
       \/ Kill
       \/ Restart
       \/ \E d \in Dbs : Remake(d)
    /\ UNCHANGED mode

Spec == Init /\ [][Next]_vars
-----------------------------------------------------------------------------
\* The rows of d in memory, oldest first.
Held(d) == RowsOf(sent, batch, d)

\* Per database, rows are stored in order and at most once, whatever call raises
\* and whenever the process is killed, in both modes: an insert is never tried
\* again (metrics_flow_consumer.py:48-128).
Delivery == INSTANCE RowDelivery WITH held <- [d \in Dbs |-> Held(d)]
DeliverySpec == Delivery!Spec

\* The row is stored before its tag or ip is listed, so a failure in between
\* leaves a row the dashboard cannot find by tag or ip: one for each failure,
\* and the one being handled; except where a failure is caught by a consumer that
\* has remembered the tag as listed, and except for the tags metrics_alarm
\* remembered when their database was dropped and made again: those it never lists
\* there, however many rows follow (metrics_flow_consumer.py:119-126,
\* vnode_status_consumer.py:123-127, metrics_alarm_consumer.py:119-127).
Rows(d) == {table[d][k] : k \in (dropped[d] + 1)..Len(table[d])}
Unlisted == {i \in UNION {Rows(d) : d \in Dbs} :
                 Field(i) \notin listTable[Db(i)] \cup stale[Db(i)]}
BoundedUnlisted ==
    (Consumer.lists # "none" /\ ~(Consumer.remembers /\ CatchesErrors)) =>
        Cardinality(Unlisted) <= failures + (IF pc = "list" THEN 1 ELSE 0)
=============================================================================
