-------------------------- MODULE MetricsConsumer ---------------------------
(***************************************************************************)
(* A caching consumer process: metrics_timer, metrics_counter,             *)
(* metrics_array_counter or p2ptest_sendrecord (src/consumer).  It pops     *)
(* consume_step_ alarms from its list, one blocking BRPOP each, then handles *)
(* them one by one: append the row to the cache of its database, put its tag *)
(* and its ip in tags_table and ips_table unless they were put before, and   *)
(* flush the cache with one multi-row INSERT when it is over cache_num.      *)
(*                                                                         *)
(* A call of MySQL may raise, with or without having had its effect.  With  *)
(* the default alarm_env ('test', consume_alarm_with_notry) the exception    *)
(* ends the process; otherwise (consume_alarm) it only ends the batch.  The  *)
(* process is one of 17 that the spider kills and restarts together.        *)
(*                                                                         *)
(* Databases are dropped, by the spider or by hand, and made again by any     *)
(* process that stores a row in them, while this one goes on.                *)
(***************************************************************************)
EXTENDS Integers, Sequences, FiniteSets, HeldRows

CONSTANTS
    Alarms,         \* the alarms that can be posted: [db, tag, ip, kind]
    Dbs, Relay,     \* databases; those whose name starts with "relay"
    Modes,          \* which consumers there are, and how they are started
    Step,           \* consume_step_
    CacheNum,       \* cache_num
    MaxAlarms,      \* bound: how many alarms are posted
    MaxFailures     \* bound: exceptions, kills and databases made again, but for
                    \* the exceptions alarms cause

(***************************************************************************)
(* What tells the consumers apart: whether rows have a tag, whether every   *)
(* batch ends with a flush of all caches, and whether rows of a "relay"     *)
(* database are flushed at once.                                           *)
(***************************************************************************)
MetricsTimerConsumer        == [tags |-> TRUE,  sweeps |-> FALSE, relay |-> FALSE]
MetricsCounterConsumer      == [tags |-> TRUE,  sweeps |-> FALSE, relay |-> TRUE]
MetricsArrayCounterConsumer == [tags |-> TRUE,  sweeps |-> TRUE,  relay |-> FALSE]
P2PTestSendRecordConsumer   == [tags |-> FALSE, sweeps |-> FALSE, relay |-> FALSE]

Kinds == {"good",      \* a row MySQL accepts
          "untagged",  \* without category or tag: building full_tag raises
          "refused",   \* a value MySQL refuses, with every row of its INSERT
          "alien"}     \* of another alarm_type: a warning, nothing else

ASSUME AlarmsAssumption == \A a \in Alarms : a.db \in Dbs /\ a.kind \in Kinds
ASSUME DbsAssumption == IsFiniteSet(Dbs) /\ Relay \subseteq Dbs
ASSUME StepAssumption == Step \in Nat \ {0} /\ CacheNum \in Nat
Consumers == {MetricsTimerConsumer, MetricsCounterConsumer,
              MetricsArrayCounterConsumer, P2PTestSendRecordConsumer}
ASSUME ModesAssumption == Modes \subseteq [consumer : Consumers, catches : BOOLEAN]
ASSUME BoundsAssumption == MaxAlarms \in Nat /\ MaxFailures \in Nat

VARIABLES
    mode,       \* what this process is, for good
    sent,       \* the alarms pushed to the list, oldest first
    next,       \* how many were popped; the list is what follows in sent
    pc,         \* where the process is, "dead" when there is none
    batch,      \* alarm_payload_list: indices in sent of the popped alarms
    row,        \* index in sent of the alarm being handled, 0 when none
    cache,      \* *_insert_cache[db]: indices in sent
    tagCache,   \* tag_cache[db]
    ipCache,    \* ip_cache[db]
    table,      \* MySQL: the rows INSERTed in the metrics table of each database,
                \* those that were dropped since included
    tagsTable,  \* MySQL: tags_table of each database
    ipsTable,   \* MySQL: ips_table of each database
    failures,   \* history: exceptions and kills so far
    remakes,    \* history: databases made again so far
    dropped,    \* history: how many rows of table[d] were dropped with d
    stale       \* history: <<d, x>> when d was made again under a process that
                \* remembered to have listed the tag or ip x there

memory == <<pc, batch, row, cache, tagCache, ipCache>>
mysql == <<table, tagsTable, ipsTable>>
made == <<remakes, dropped, stale>>
vars == <<mode, sent, next, memory, mysql, failures, made>>

Stages == {"fetch", "row", "tag", "ip", "store", "sweep", "dead"}
Tags == {a.tag : a \in Alarms}
Ips == {a.ip : a \in Alarms}
Consumer == mode.consumer
CatchesErrors == mode.catches   \* consume_alarm, not consume_alarm_with_notry

Index == 1..Len(sent)
Db(i) == sent[i].db
Seqs == [d \in Dbs |-> <<>>]
Sets == [d \in Dbs |-> {}]

TypeOK ==
    /\ mode \in Modes
    /\ sent \in Seq(Alarms) /\ Len(sent) <= MaxAlarms
    /\ next \in 0..Len(sent)
    /\ pc \in Stages
    /\ batch \in Seq(Index) /\ Len(batch) <= Step
    /\ row \in 0..Len(sent)
    /\ pc \in {"tag", "ip", "store"} => row \in Index
    /\ cache \in [Dbs -> Seq(Index)]
    /\ table \in [Dbs -> Seq(Index)]
    /\ tagCache \in [Dbs -> SUBSET Tags] /\ tagsTable \in [Dbs -> SUBSET Tags]
    /\ ipCache \in [Dbs -> SUBSET Ips] /\ ipsTable \in [Dbs -> SUBSET Ips]
    /\ failures \in Nat /\ remakes \in Nat
    /\ dropped \in [Dbs -> Nat] /\ \A d \in Dbs : dropped[d] <= Len(table[d])
    /\ stale \subseteq Dbs \X (Tags \cup Ips)

Init ==
    /\ mode \in Modes
    /\ sent = <<>> /\ next = 0
    /\ pc = "fetch" /\ batch = <<>> /\ row = 0
    /\ cache = Seqs /\ tagCache = Sets /\ ipCache = Sets
    /\ table = Seqs /\ tagsTable = Sets /\ ipsTable = Sets
    /\ failures = 0 /\ remakes = 0
    /\ dropped = [d \in Dbs |-> 0] /\ stale = {}
-----------------------------------------------------------------------------
\* put_queue in a proxy worker.
Post(a) ==
    /\ Len(sent) < MaxAlarms
    /\ sent' = Append(sent, a)
    /\ UNCHANGED <<mode, next, memory, mysql, failures, made>>

\* Redis or MySQL is out of reach, or closes the connection.
MayFail == failures + remakes < MaxFailures

\* The process ends; nothing of its memory is left.
Die ==
    /\ pc' = "dead" /\ batch' = <<>> /\ row' = 0
    /\ cache' = Seqs /\ tagCache' = Sets /\ ipCache' = Sets

\* The statement being executed raises, the caches being what they are: the
\* end of the process, or of the batch.
Raise(newCache, newTags, newIps) ==
    /\ failures' = failures + 1
    /\ IF CatchesErrors
       THEN /\ pc' = "fetch" /\ batch' = <<>> /\ row' = 0
            /\ cache' = newCache /\ tagCache' = newTags /\ ipCache' = newIps
       ELSE Die

\* Mutant: one alarm more than a batch holds.
FetchTooMany ==
    /\ pc = "fetch" /\ next < Len(sent)
    /\ next' = next + 1
    /\ batch' = Append(batch, next + 1)
    /\ pc' = IF Len(batch) = Step THEN "row" ELSE "fetch"
    /\ UNCHANGED <<sent, row, cache, tagCache, ipCache, mysql, failures>>

\* get_queue_exp: one BRPOP; it returns after exactly Step of them.
Fetch ==
    /\ pc = "fetch" /\ next < Len(sent)
    /\ next' = next + 1
    /\ batch' = Append(batch, next + 1)
    /\ pc' = IF Len(batch) + 1 = Step THEN "row" ELSE "fetch"
    /\ UNCHANGED <<sent, row, cache, tagCache, ipCache, mysql, failures>>

\* A BRPOP raises: what was popped for the batch is lost.
FetchRaises ==
    /\ pc = "fetch" /\ MayFail
    /\ Raise(cache, tagCache, ipCache)
    /\ UNCHANGED <<mode, sent, next, mysql, made>>

\* Mutant: no flush of the caches after a batch.
ContinueNoSweep(r) == IF r # <<>> THEN "row" ELSE "fetch"

\* Where the loop over the batch goes when r is what is left of it.
Continue(r) == IF r # <<>> THEN "row"
               ELSE IF Consumer.sweeps /\ ~CatchesErrors THEN "sweep" ELSE "fetch"

Skip ==
    /\ pc = "row" /\ sent[Head(batch)].kind = "alien"
    /\ batch' = Tail(batch)
    /\ pc' = Continue(Tail(batch))
    /\ UNCHANGED <<sent, next, row, cache, tagCache, ipCache, mysql, failures>>

\* The row goes to the cache first; then full_tag is built.
CacheRow ==
    /\ pc = "row" /\ sent[Head(batch)].kind # "alien"
    /\ LET i == Head(batch)
           grown == [cache EXCEPT ![Db(i)] = Append(@, i)]
       IN  IF Consumer.tags /\ sent[i].kind = "untagged"
           THEN Raise(grown, tagCache, ipCache)
           ELSE /\ batch' = Tail(batch) /\ row' = i /\ cache' = grown
                /\ pc' = "tag"
                /\ UNCHANGED <<tagCache, ipCache, failures>>
    /\ UNCHANGED <<sent, next, mysql>>

\* Mutant: the cache of tags is not per database.
TagAnyDb ==
    /\ pc = "tag"
    /\ LET d == Db(row)
           t == sent[row].tag
       IN  IF ~Consumer.tags \/ \E e \in Dbs : t \in tagCache[e]
           THEN /\ pc' = "ip"
                /\ UNCHANGED <<batch, row, cache, tagCache, ipCache, mysql, failures>>
           ELSE /\ pc' = "ip"
                /\ tagCache' = [tagCache EXCEPT ![d] = @ \cup {t}]
                /\ tagsTable' = [tagsTable EXCEPT ![d] = @ \cup {t}]
                /\ UNCHANGED <<batch, row, cache, ipCache, table, ipsTable, failures>>
    /\ UNCHANGED <<sent, next>>

\* The tag is remembered before it is inserted.
Tag ==
    /\ pc = "tag"
    /\ LET d == Db(row)
           t == sent[row].tag
           known == [tagCache EXCEPT ![d] = @ \cup {t}]
           inserted == [tagsTable EXCEPT ![d] = @ \cup {t}]
       IN  IF ~Consumer.tags \/ t \in tagCache[d]
           THEN /\ pc' = "ip"
                /\ UNCHANGED <<batch, row, cache, tagCache, ipCache, mysql, failures>>
           ELSE \/ /\ pc' = "ip" /\ tagCache' = known /\ tagsTable' = inserted
                   /\ UNCHANGED <<batch, row, cache, ipCache, table, ipsTable, failures>>
                \/ /\ MayFail /\ Raise(cache, known, ipCache)
                   /\ tagsTable' \in {tagsTable, inserted}
                   /\ UNCHANGED <<table, ipsTable>>
    /\ UNCHANGED <<sent, next>>

Ip ==
    /\ pc = "ip"
    /\ LET d == Db(row)
           p == sent[row].ip
           known == [ipCache EXCEPT ![d] = @ \cup {p}]
           inserted == [ipsTable EXCEPT ![d] = @ \cup {p}]
       IN  IF p \in ipCache[d]
           THEN /\ pc' = "store"
                /\ UNCHANGED <<batch, row, cache, tagCache, ipCache, mysql, failures>>
           ELSE \/ /\ pc' = "store" /\ ipCache' = known /\ ipsTable' = inserted
                   /\ UNCHANGED <<batch, row, cache, tagCache, table, tagsTable, failures>>
                \/ /\ MayFail /\ Raise(cache, tagCache, known)
                   /\ ipsTable' \in {ipsTable, inserted}
                   /\ UNCHANGED <<table, tagsTable>>
    /\ UNCHANGED <<sent, next>>

\* multi_insert_into_db of the cache of d, which is emptied after the call.
Refused(d) == \E k \in DOMAIN cache[d] : sent[cache[d][k]].kind = "refused"
Inserted(d) == [table EXCEPT ![d] = @ \o cache[d]]

\* Mutant: the cache is not emptied.
MultiInsertKeeps(d) ==
    /\ ~Refused(d)
    /\ table' = Inserted(d)
    /\ UNCHANGED <<cache, tagCache, ipCache, tagsTable, ipsTable, failures>>

MultiInsert(d) ==
    /\ ~Refused(d)
    /\ table' = Inserted(d)
    /\ cache' = [cache EXCEPT ![d] = <<>>]
    /\ UNCHANGED <<tagCache, ipCache, tagsTable, ipsTable, failures>>

\* Mutant: the cache is emptied before the call.
MultiInsertRaisesEmptied(d) ==
    /\ Refused(d) \/ MayFail
    /\ Raise([cache EXCEPT ![d] = <<>>], tagCache, ipCache)
    /\ \/ UNCHANGED table
       \/ ~Refused(d) /\ table' = Inserted(d)
    /\ UNCHANGED <<tagsTable, ipsTable>>

MultiInsertRaises(d) ==
    /\ Refused(d) \/ MayFail
    /\ Raise(cache, tagCache, ipCache)
    /\ \/ UNCHANGED table
       \/ ~Refused(d) /\ table' = Inserted(d)
    /\ UNCHANGED <<tagsTable, ipsTable>>

\* Mutant: the cache may hold one row more.
DueLate(d) == Len(cache[d]) > CacheNum + 1

Due(d) == Len(cache[d]) > CacheNum \/ (Consumer.relay /\ d \in Relay)

Store ==
    /\ pc = "store"
    /\ IF Due(Db(row))
       THEN \/ /\ MultiInsert(Db(row))
               /\ pc' = Continue(batch) /\ row' = 0 /\ UNCHANGED batch
            \/ MultiInsertRaises(Db(row))
       ELSE /\ pc' = Continue(batch) /\ row' = 0
            /\ UNCHANGED <<batch, cache, tagCache, ipCache, mysql, failures>>
    /\ UNCHANGED <<sent, next>>

\* try_store_cache after a batch.  Without Consumer.sweeps the call is in a
\* branch for an empty batch, which get_queue_exp never returns.
Sweep ==
    /\ pc = "sweep"
    /\ \/ \E d \in Dbs :
             /\ cache[d] # <<>>
             /\ \/ MultiInsert(d) /\ UNCHANGED <<pc, batch, row>>
                \/ MultiInsertRaises(d)
       \/ /\ cache = Seqs
          /\ pc' = "fetch"
          /\ UNCHANGED <<batch, row, cache, tagCache, ipCache, mysql, failures>>
    /\ UNCHANGED <<sent, next>>

\* check_true_or_restart of the spider: kill -9 of every consumer, then start.
Kill ==
    /\ pc # "dead"
    /\ MayFail
    /\ failures' = failures + 1
    /\ Die
    /\ UNCHANGED <<mode, sent, next, mysql, made>>

\* Mutant: a process that died is not started again.
RestartNever == pc = "dead" /\ UNCHANGED vars

Restart ==
    /\ pc = "dead"
    /\ pc' = "fetch"
    /\ UNCHANGED <<mode, sent, next, batch, row, cache, tagCache, ipCache>>
    /\ UNCHANGED <<mysql, failures, made>>

Process ==
    /\ Fetch \/ Skip \/ CacheRow \/ Tag \/ Ip \/ Store \/ Sweep
    /\ UNCHANGED <<mode, made>>

\* d is dropped, and made again by another process, with empty tables.  What this
\* process stores in between raises.
Remake(d) ==
    /\ MayFail /\ tagsTable[d] \cup ipsTable[d] # {}
    /\ remakes' = remakes + 1
    /\ dropped' = [dropped EXCEPT ![d] = Len(table[d])]
    /\ stale' = stale \cup ({d} \X (tagCache[d] \cup ipCache[d]))
    /\ tagsTable' = [tagsTable EXCEPT ![d] = {}]
    /\ ipsTable' = [ipsTable EXCEPT ![d] = {}]
    /\ UNCHANGED <<mode, sent, next, memory, table, failures>>

Next ==
    \/ \E a \in Alarms : Post(a)
    \/ Process \/ FetchRaises
    \/ Kill
    \/ Restart
    \/ \E d \in Dbs : Remake(d)

Spec == Init /\ [][Next]_vars

\* The process runs whenever it can, and the spider restarts it.
FairSpec == Spec /\ WF_vars(Process) /\ WF_vars(Restart)
-----------------------------------------------------------------------------
ToSet(s) == {s[i] : i \in DOMAIN s}
InMemory == ToSet(batch) \cup UNION {ToSet(cache[d]) : d \in Dbs}
Stored == UNION {ToSet(table[d]) : d \in Dbs}
Lost == {i \in 1..next : sent[i].kind # "alien" /\ i \notin Stored \cup InMemory}

\* The rows of d in memory, oldest first.
Held(d) == cache[d] \o RowsOf(sent, batch, d)

\* Without consume_alarm's try, the process keeps the promise of RowDelivery:
\* per database, rows are stored in order and at most once, whatever call
\* raises and whenever the process is killed (metrics_counter_consumer.py:55-140).
Delivery == INSTANCE RowDelivery WITH held <- [d \in Dbs |-> Held(d)]
DeliverySpec ==
    /\ CatchesErrors \/ Delivery!Init
    /\ [][CatchesErrors \/ Delivery!Next]_(Delivery!vars)

\* A raise or a kill costs at most what memory holds, and that is bounded: one
\* batch and, per database, a cache that is flushed when it exceeds cache_num;
\* no cache of a relay database, nor any when every batch ends with a flush
\* (metrics_counter_consumer.py:138-140, metrics_array_counter_consumer.py:71-72).
Accumulating == IF Consumer.sweeps /\ ~CatchesErrors THEN {}
                ELSE IF Consumer.relay THEN Dbs \ Relay ELSE Dbs
PerFailure == Step + CacheNum * Cardinality(Accumulating)
BoundedLoss == Cardinality(Lost) <= failures * PerFailure

\* The dashboard finds rows through tags_table and ips_table.  The tag and the ip of
\* every row are there, because they are inserted before the row and remembered as
\* inserted only by the process that inserted them, but for those a process
\* remembered when the database was dropped and made again.  Where consume_alarm
\* catches the exception the process also remembers a tag that was not inserted and
\* keeps a row it had not listed: one tag and one ip for each failure, and no more
\* (metrics_counter_consumer.py:74-93, 123-140).
Rows(d) == {table[d][k] : k \in (dropped[d] + 1)..Len(table[d])}
UnlistedTags(d) == {sent[i].tag : i \in {j \in Rows(d) :
                        Consumer.tags /\ sent[j].kind # "untagged"}} \ tagsTable[d]
UnlistedIps(d) == {sent[i].ip : i \in Rows(d)} \ ipsTable[d]
Unlisted == {u \in Dbs \X (Tags \cup Ips) :
                 u[2] \in UnlistedTags(u[1]) \cup UnlistedIps(u[1])}
RowsListed ==
    Cardinality(Unlisted \ stale) <= IF CatchesErrors THEN 2 * failures ELSE 0

\* A list with a consumer is emptied, whatever is in it, also when alarms make
\* the process die again and again (main_consumer.py:183-194).
Drained == [](next < Len(sent) => <>(next = Len(sent)))

\* A row that reached a cache leaves it for its table, or with the process: an
\* exception that consume_alarm catches costs the rest of its batch and no more
\* (metrics_counter_consumer.py:74-93, 138-140).
CacheKept ==
    [][pc' # "dead" => \A d \in Dbs :
           ToSet(cache[d]) \subseteq ToSet(cache'[d]) \cup ToSet(table'[d])]_vars

\* A caught exception may follow an INSERT that took effect, whose rows then go
\* to the table again with the next flush: a row is there at most once more than
\* there were failures (metrics_counter_consumer.py:138-140).
Repeats(i, s) == Cardinality({k \in DOMAIN s : s[k] = i})
BoundedRepeats ==
    \A d \in Dbs : \A i \in ToSet(table[d]) : Repeats(i, table[d]) <= 1 + failures

\* Every call of get_queue_exp is commented "return dict or None": it returns,
\* with nothing when there is nothing (metrics_counter_consumer.py:59), and the
\* branch for nothing flushes the caches.
FetchReturns == (pc = "fetch") ~> (pc # "fetch")
=============================================================================
