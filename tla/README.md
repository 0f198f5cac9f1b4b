# TLA+ models of top-dw-server

top-dw-server collects monitoring data ("alarms") from the nodes of a blockchain
network, queues it in Redis, stores it in one MySQL database per network and day,
and shows it on a dashboard.  These modules model the parts of it that are
concurrent, that can fail half-way, or that keep state between steps.

## 1. Inventory

Processes and their shared state:

```
 nodes --POST /api/alarm--> proxy (gunicorn, 4 workers) --LPUSH--> Redis lists
                                                          (one per alarm type)
 Redis lists --BRPOP--> consumer processes (1 parent + 16 children, one per type)
 consumer --INSERT--> MySQL (one database per `env`) <--SELECT-- dashboard (threaded Flask)
 spider (loop, 60 s): ps/kill -9/restart of the three above; database bookkeeping,
        daily report, DROP DATABASE when the disk is full; state in database_info.json
 spider_alive (loop, 60 s): ps/kill -9/restart of spider
```

| component | state it keeps | operations |
|---|---|---|
| `common/my_queue.py` RedisQueue | Redis lists, set of known keys | `put_queue` (LLEN, then LPUSH), `get_queue` (blocking BRPOP), `get_queue_exp` (exactly `step` items), key of an alarm |
| `proxy/proxy.py` | one request per worker; config file, written by each worker as it starts | `alarm_report` (items of a request in order), `config_update` (reads the file), `get_public_ip` |
| `consumer/main_consumer.py` | none after start | maps keys to types, one process per key |
| cached consumers (`metrics_timer`, `metrics_counter`, `metrics_array_counter`, `p2ptest_sendrecord`) | per-database row cache, tag cache, ip cache | fetch, handle, flush when the cache is larger than `cache_num` |
| direct consumers (the other types) | none (`metrics_alarm`: a tag cache) | fetch, insert |
| `consumer/p2p_broadcast_consumer.py` | cache of messages by hash, raw row cache, time of last dump | merge send/recv, raw flush, dump after 120 s |
| `consumer/p2p_gossip_consumer.py` (not started by `main_consumer`, imports a module that is not there) | send/recv caches | merge, dump |
| `database/store.py` Store | MySQL connection, one cursor, lock, time of last use | create database and tables, reconnect after 6 h idle, inserts, `query` |
| `database/dispatch.py` MultiDB | map of database name to Store | lazy creation, delegation |
| `spider/spider.py` process_checker | restart counter, disk usage | count processes, kill and restart, restart the dashboard |
| `spider/spider.py` database_checker | dict of known databases (+ file), `disk_need_clen` flag, `db_setting` table | discover/forget databases, daily report, clean one database, dump |
| `spider/spider.py` consensus report | none | sums of counter increments over resets, success rate |
| `spider/spider_alive.py` | none | counts the spider's processes, kills and restarts it |
| `dashboard/dash.py` | none but the shared Stores | read-only queries, `update_db_reserve` |
| `common/slogging.py` | log file | truncates the log above 100 MB |

How they interact: the proxy and the consumers share the Redis lists; consumers,
dashboard and spider share MySQL (databases, their tables, `db_setting`); within a
dashboard process threads share one `Store` per database; the spider and
`spider_alive` act on everybody else with `kill -9` and a start script.

### What is hard about it

- **Interleaving.** Four proxy workers push to the same lists with two Redis
  commands each; 16 consumers and the dashboard create the same database at midnight
  without a lock; dashboard threads share a cursor; the spider acts on what it
  selected some statements ago.
- **Supervision by counting.** `ps | grep -c` is compared with a number, and `kill -9`
  takes the lines of a second `ps`: what is starting, forking or ending meanwhile is
  counted or not, killed or not; the programs that count are killed and restarted too.
- **Failure in the middle.** Any statement on Redis or MySQL can raise, with or
  without having had its effect, in a handler that has already changed memory.
  Depending on `alarm_env` the exception ends the process (`consume_alarm_with_notry`,
  the default) or the batch (`consume_alarm`). The spider kills processes anywhere,
  and dies itself, between two statements or while it writes its file.
- **Order.** Packets of one broadcast come from many nodes in any order; a row is
  stored before its tag or ip is listed; reports are sent before that is recorded.
- **Limits and time.** A list at its maximum, caches flushed only by later rows,
  a connection that is reopened after six hours, dumps every 10 s of what is two
  minutes old.

### What makes each component correct

| component | properties |
|---|---|
| alarm queue and proxy | the limit is nearly kept whatever the race (`QueueBound`); order within a request (`RequestOrder`); a failed request was handled up to a prefix (`PrefixHandled`); every request is answered although lists are full (`Answered`); lists are emptied (`Drained`) |
| caching consumers | in order and at most once per database (`DeliverySpec`); a failure costs a bounded number of rows (`BoundedLoss`); stored rows are listed (`RowsListed`); a caught exception keeps the cache (`CacheKept`) and repeats rows boundedly (`BoundedRepeats`); lists are emptied (`Drained`) |
| direct consumers | in order and at most once (`DeliverySpec`); a failure leaves at most one row unlisted (`BoundedUnlisted`) |
| broadcast consumer | a send gives one row (`DumpsBounded`), no reception of a living process is forgotten (`ReceptionsKept`), sends leave the cache (`SentDumped`) |
| creation of databases | every missing table has a creator (`NoTableForgotten`), the database is completed (`Completed`), everyone connects (`AllConnected`) |
| queries of the dashboard | one statement at a time (`OneStatement`), a query alone gets its rows (`AloneAnswered`), queries return (`Returns`) |
| process checkers | every restart has a cause (`RestartsEarned`), the supervision comes to rest with one consumer for each key (`Settles`), the dashboard is restarted in time (`DashFresh`) |
| consensus report | sums count each event once (`SumsRight`), the right nodes are named (`ReportRight`) |
| database manager | reports once (`ReportedOnce`), one drop per full disk (`DropsEarned`), reserved databases kept (`ReserveRespected`), every database listed (`ExistingListed`) |

## 2. Plan

Modules, most important first; all are written.

1. `AlarmQueue`, `AlarmQueueProofs`: proxy workers and Redis lists.
2. `RowDelivery` (abstract), `RowDeliveryProofs`; `MetricsConsumer` and
   `DirectConsumer`, which implement it, with `MetricsConsumerProofs` and
   `DirectConsumerProofs`; `HeldRows`, the rows a batch becomes.
3. `BroadcastConsumer`, `BroadcastConsumerProofs`.
4. `StoreCreate` and `StoreQuery`; `StoreProofs` has the theorems about both.
5. `DatabaseManager`.
6. `Supervisor`: spider and spider_alive counting processes with `ps`, killing and
   starting all of a kind, with the start of the consumers and the match of keys to
   types (`main_consumer.py:62-96`). `SpiderProofs` has the theorems about it and about
   `DatabaseManager`, the two parts of the spider.
7. `ConsensusRate`, `ConsensusRateProofs`: the sums over counter increments and the
   success rate (`spider.py:195-272`).

The composition of the database life cycle with a running consumer is the action
`Remake` of `MetricsConsumer` and `DirectConsumer`: of the other modules, only the moment at which a database
is empty again matters to a consumer. The kills of `Supervisor` appear in the consumer
modules as `Kill` and `Restart`, in `StoreCreate` as `Kill`; the creation of databases
appears in `DatabaseManager` as `Create`, `Extend` and `KillMaker`, for the tables the
spider looks at.

Theorems: every invariant and every action property that the runs check is proved
(section 6). What only TLC checks is liveness.

Two modules a proof module extends at once must not share a name, hence the longer names
in `StoreCreate` (`stage`, `creationVars`, `CreationSpec`, ...) and in `Supervisor` (`doing`,
`supervisionVars`, `SupervisionSpec`, ...).

## 3. Modules

`MC<module>` gives the constants of a module their values for TLC; the configuration of
the same name as the run gives the bounds. Operators whose comment begins with
"Mutant:" are what a plausible mistake would have made of the operator that follows;
no specification uses them. Each was put in place of its operator, and the run that
checks the property then fails; this is recorded in `PROJECT.json`.

### AlarmQueue

One action per Redis command of a worker. `queue[k]` is a list, oldest alarm first
(LPUSH is `Append`, BRPOP is `Head`). `Receive` is the top of `alarm_report`
(`proxy.py:83-91`); for each alarm, `Admit` or `Drop` is the LLEN and its test
(`my_queue.py:176-179`), `Push` the LPUSH (180-182); `Respond` the answer. An alarm is
its place: number of the request, index in it. `BadAlarm` is an alarm on which the
handler raises: without `packet`, or of type p2p_gossip, whose key is `None`
(`my_queue.py:116-138`). `RedisError` and `Kill` end a request at any point; the pushed
alarm may have arrived. Not modelled: the contents of alarms, and the registration of
new keys, a Redis set that nothing reads after the start.

### RowDelivery, MetricsConsumer, DirectConsumer

`RowDelivery` is the promise of a consumer: it takes alarms in order, holds them per
database, stores what it holds from the front, and forgets all it holds when it crashes.
`MetricsConsumer` and `DirectConsumer` implement it, with `held` the rows of the cache
followed by those of the batch. `HeldRows` has the operator for the latter, `RowsOf`: which
alarms of a batch become rows of a database, in order.

`MetricsConsumer` has the four consumers with a cache. They are one program, repeated
with small differences; these are the record `Consumer`: whether rows have tags, whether
a batch ends with a flush of every cache (`metrics_array_counter`, in one of its two
loops, `metrics_array_counter_consumer.py:57-94`), whether rows of a relay database are
flushed at once (`metrics_counter_consumer.py:138`). `mode` also says which of the two
loops runs. Stages of `pc` follow the handler: `Fetch` (one BRPOP of `get_queue_exp`),
`CacheRow`, `Tag`, `Ip`, `Store`, and back. `FetchRaises` is a BRPOP that
raises. `Raise` is an exception: without `try` the process ends with all its memory, else
what is left of the batch is given up.
An alarm is good, of another type, without tag (the handler raises after the row went
to the cache), or refused by MySQL. `try_store_cache` for an empty batch is not an
action: `get_queue_exp` never returns an empty batch (finding `FetchReturns`).

`Remake` is another process, or a person, who drops a database that is then made again,
under a consumer that remembers what it listed in the old one. `table` goes on as the
sequence of rows inserted, and `dropped` says how many of them went with the database.

`DirectConsumer` has the eleven consumers without a cache: `Insert`, then `List` of a
tag or ip for those that have one. Its `Remake` matters to `metrics_alarm`, which remembers
the tags it listed (`metrics_alarm_consumer.py:123-128`): in a database made again it does
not list them, in either loop. The `INSERT ... ON DUPLICATE KEY UPDATE` of kadinfo is
an insert as well: `table` is the sequence of statements MySQL executed, not the set of
rows left.

### BroadcastConsumer

`msgs` is `msg_cache`; an entry has the age of its send and the nodes that received it.
`Handle` joins a packet and counts its raw row, `Flush` writes the raw rows, `Dump`
writes one row and `Forget` drops what was written after the last. A packet may lack a
field that the sums of its message need, or be a send without a timestamp ("untimed"), whose
age cannot be computed; `Dump` then raises, every time. Clocks are
two flags, `due` (10 s since the last look) and the age "young" or "old" (two minutes);
they may change at any time.

### StoreCreate and StoreQuery

`StoreCreate` is `Store.__init__` run by several processes, one statement a step. The
constructor calls itself after the last table (`store.py:375`), hence `Again`. `Use`
stands for any later statement: it fails when the database or a table is gone, and the
process begins anew. The `Keepers` catch that exception and stay with the Store they have:
the dashboard, and consumers in the loop with `try`. `broken` records that a process was killed between two CREATE
TABLE statements.

`StoreQuery` is `query` run by the threads of the dashboard: `check_timeout`, the lock,
`execute` in two steps (send, read), release, `fetchall`. `rows` is whose result the
cursor has. `idle` may become true only while nobody queries: six hours have passed.
`reconnect` does not set `last_connect_time`, so `idle` remains, and is three steps: it
closes the connection (`Check`), opens a new one (`NewConnection`), makes a cursor of it
(`NewCursor`). MySQL may refuse the new connection. The Store is then left with the closed
one, and every later query of that database raises in `db.close()`, alone or not.

### DatabaseManager

A round of the spider, one statement on MySQL or the file a step; the others act
between any two. A database is there for the spider from its table `metrics_counter` on,
whose time of creation is `birth`. Its creator then makes `ips_table` and `kadinfo_root`,
one `Extend` each (the tables in between are of no concern to the spider), unless it is
killed (`KillMaker`). `Report`/`Mark` are `check_yesterday_db`, which a round runs only at
1:00 UTC: whether it does is a choice. A report on a database that was dropped meanwhile
makes it again (`Remake`, `RemakeTable`). `Sizes`, `IpCounts`, `DetailedInfo` and
`OnlineSizes` are the queries of `database_detailed_info`, which raises when a database came
or went between them, or lacks one of the two tables (`SelfCrash`). `Truncate` and `Write`
are the `open(..., 'w')` and the `write` of the dump: a spider that dies in between leaves
an empty file, with which it cannot start.

### Supervisor

`alive[c]` are the processes of component `c` that `ps` shows, each a start (`gen`) and a
role: the shell of the start, the program, its children by number, or a stranger, a
command whose line happens to contain the pattern (an editor, or the cron job of
`README.md:117` on gunicorn's logs). `due[c]` is what a living process is about to
start. `check_true_or_restart` is `CountProcesses` (the first `ps`), `Snapshot` (the
second, whose lines are `doomed`), `Kill` (what `xargs` runs, which outlives the spider
that began it), `Start` (a shell with `&`), `Launched` (`sleep(1)`); `Wake` is the end
of `sleep(60)`. The same actions are those of `spider_alive`, for the spider itself.
`RestartDash` is the counter of `restart_dash`.

What is taken of the two sleeps: after the second the started program runs, but has not
necessarily forked; after the minute it has forked all its children, and what was
about to end has ended. A shell of a start counts only for the spider, whose start
command alone has no "nohup" in its line; this is why `spider_process_count` is 2, and
why a spider started by `spider/start.sh`, as in `SupervisionInit`, counts 1 and is restarted once.
`main_consumer.py` ends after its last child (`join`), gunicorn replaces its workers and
its workers end without it; consumers do not end without their parent.

The names of types are sequences of words. `KeysAssumption`, which TLC evaluates with all
16 names of the code, says that no name is in the key of another, and that all together
make the 17 processes that the spider expects. The code searches a key for the characters
of a name, the model for its words; with the names the code has both find the same.

### ConsensusRate

`acc[c][n]` is what `res_map` has of counter `c` and node `n`. `Row` is one pass of the
first loop of `sum_consensus_result_into_map`, `Finish` its second loop, which raises
when a node of the map lacks the counter; `Report` is the rest of
`do_check_consensus_succ_rate2`. Samples are chosen with what really happened: `events`
counts the events of the node between its samples, `restarts` those restarts the report
has to guess; in `RowAfterRestart` the node had gone on to count when it restarted
(up to `MaxUnseen` events), which no sample shows.

## 4. Runs

| run | checks | about the bounds |
|---|---|---|
| `AlarmQueue` | `QueueBound`, `RequestOrder`, `PrefixHandled`, `Answered`, `Drained` | 2 workers, limit 2, 3 requests: two workers may both see a free place; two requests fill a list nobody reads and the third meets it full; a worker serves a second request. 395 thousand states. |
| `MetricsConsumer` | `BoundedLoss`, `RowsListed`, `BoundedRepeats`, `DeliverySpec`, `CacheKept`, `Drained` | 3 consumers, `metrics_counter` in both loops, the others in the default one; batches of 2, cache of 1, 4 alarms of 5 kinds in 2 databases (one relay), 2 failures or databases made again: two batches, a flush between them or in the middle, a failure after a failure or after a `Remake`. 1.0 million states. |
| `DirectConsumer` | `BoundedUnlisted`, `DeliverySpec` | One consumer of each kind (lists tags; remembers tags; lists nothing), both loops; 4 alarms, 2 failures or databases made again. 729 thousand states. |
| `BroadcastConsumer` | `DumpsBounded`, `ReceptionsKept`, `SentDumped` | 2 messages with 2 receivers and a third one whose packets never stop; 3 other packets, one of them a send without timestamp. Enough for a send, a reception, and a reception after the dump. 775 thousand states. |
| `StoreCreate` | `NoTableForgotten`, `Completed`, `AllConnected` | 3 processes, 3 tables, 2 drops, 1 kill: two incarnations with a creator each, and a bystander; one of the three keeps its Store. 112 thousand states. |
| `StoreQuery` | `OneStatement`, `AloneAnswered`, `Returns` | 3 threads, 5 queries, 2 refusals of a statement or a connection: one thread behind the lock while another reads and the third reconnects; queries after a reconnect that failed. 41 thousand states. |
| `DatabaseManager` | `ReportedOnce`, `DropsEarned`, `ReserveRespected`, `ExistingListed` | 2 databases, one of yesterday, 2 creations, one of which may be killed half-way, a removal, a click, a crash. 1.8 million states. |
| `ConsensusRate` | `SumsRight`, `ReportRight` | 2 nodes, values 0 to 4, 3 samples of each counter: one node with a restart between two samples, and an event before it that no sample shows, a node that lacks a counter; 80 % is 4 of 5, and with so small numbers the rounding of the share decides nothing. The nodes are interchangeable (symmetry; no liveness is checked). 3.6 million states. |
| `Supervisor` | `RestartsEarned`, `DashFresh`, `Settles` | 2 types, one gunicorn worker, the dashboard restarted every other round, one death or stranger at any moment, in the initial start-up, in the restart of the spider or later. 759 thousand states. |
| `FetchReturns`, `StoreCreateLike`, `DatabaseManagerDisk` | the property each is about is violated | smallest instances with the behaviour |

Every run but the violations also checks the type invariant of its module (`TypeOK`,
`CreationTypeOK`, `SupervisionTypeOK`). Histories
(`failures`, `sent` of `DatabaseManager`, `alone`, ...) are read by properties, and where a bound is named
after one, by that bound; otherwise by no guard.

`CHECK_DEADLOCK FALSE` is used where the system does stop in the model: with all
requests posted, all workers idle and all lists empty nothing is left to do
(`AlarmQueue`, the consumers, `StoreQuery`), nor when every process of `StoreCreate` has its
Store and kills and drops are used up. In `BroadcastConsumer` the bound
`MaxRaises` on exceptions that are caught and repeated stops it; what the process would
do next is raise again. A report (`ConsensusRate`) ends.
`DatabaseManager` and `Supervisor` are checked for deadlock.

### Fairness

- A worker, consumer or thread that is scheduled takes its next step (`WF` of its own
  steps): they are operating system processes, threads behind one lock each. No
  fairness is asked of the choice between competitors; weak fairness suffices since
  nobody can disable a step of another for ever but through the lock, and `Returns`
  says when that happens.
- BRPOP wakes up when its list has an alarm.
- The spider restarts what died (`WF` of `Restart`, part of `Process` or `Round`):
  its loop looks every 60 s, and `spider_alive` looks after the spider.
- In `DatabaseManager`, a process that creates a database goes on (`WF` of `Extend`) unless
  it is killed.
- In `BroadcastConsumer`, time passes, and nodes keep reporting: `SentDumped` needs
  traffic, because only packets make the consumer look.
- In `Supervisor`, the two programs and, for what each looks after, the processes of the
  machine take steps: commands end, kills take effect, programs fork and end.
- No fairness for failures, kills of consumers, deaths, strangers, clicks, the disk, or people.

## 5. What the runs found

- `FetchReturns`: `metrics_counter_consumer.py:59` says that `get_queue_exp` returns
  "dict or None", and has a branch for nothing, which flushes the caches. The call
  blocks until it has `consume_step_` alarms; rows of a quiet list stay in memory
  until new ones come.
- `StoreCreateLike`: the question whether a database exists is `show databases like`,
  where `_` (as in `test_perf_20210816`, `test/test_redis_performance.py:51`) matches
  any character. When another database's name matches, a new one is never created, and
  connecting to it fails for ever.
- `DatabaseManagerDisk`: `disk_need_clen` is reset only by a deletion. When a full disk
  meets only reserved databases it stays set, and a database is deleted in a later
  round that found room on the disk, with the message that space is short.

Six more facts, which the properties state as the code has them:

- `ReportRight`: a node with samples of `tableblock_leader_finish_succ` and none of
  `..._fail` makes the report end with `KeyError: 'failsum'` (`spider.py:217`), before the
  lines that would name it as missing (239-241). The exception ends the spider before it
  notes the report as done; until 2:00 UTC each restarted spider ends in the same way, in
  every round, before it updates `db_setting` or cleans a disk.
- `Settles`: a consumer that dies while a child of a killed parent is left over makes the
  right number of processes, and nothing looks again at which they are: a key stays
  without a consumer and another has two. Both `ps` and `kill` see only what is there at
  the moment: a child forked between the second `ps` and the kill of its parent is left.
- `ExistingListed`: a creator that is killed between `metrics_counter` and `ips_table` or
  `kadinfo_root` (`store.py:106, 129, 184`) leaves a database whose tables nobody makes any
  more. While it is there, every round of the spider ends with an exception in
  `database_detailed_info` (`spider.py:615, 624`): no database, of whichever network, gets
  its row in `db_setting`, none is cleaned, and nothing is written to the file. So does
  `spider.py:560`, when the spider dies between truncating and writing its file.
- `AloneAnswered`: a reconnect that MySQL refuses leaves the Store closed, and all later
  queries of that database raise, until the dashboard is restarted.
- `BoundedUnlisted`, `RowsListed`: a consumer that remembers what it listed does not list it
  again in a database that was dropped and made again while it lives.
- `restart_dash` counts up to 180 before it restarts: every 181st round, each more than
  60 s long, for "every three hours" (`spider.py:37`).

## 6. Proofs

TLAPS checks what follows for every value of the constants that satisfies the
assumptions of the modules. Those assumptions are finiteness and ranges (`Step` at
least 1, a bound is a natural number); `ThreadsAssumption` of `StoreQuery` also says
that no thread is one of the two values the cursor has besides threads, `KeysAssumption`
of `Supervisor` what the names of the code satisfy, and `SupervisionBounds` that the count
of restarts does not reach the end of its range before the faults are used up
(`MaxRestarts > MaxFaults + 1`, a count kept for the properties only). The theorems
are about the specifications without fairness.

Every theorem `Spec => []P` has the same layout: an invariant that implies `P`, a lemma
that it holds initially, a lemma that each action keeps it, and a last step in temporal
logic. What follows says why `P` alone is not inductive, and what is added.

**AlarmQueue.**

- `TypeCorrect`: inductive as it stands, because `TypeOK` says (`WorkerOK`) that a busy
  worker serves a posted request and, between LLEN and LPUSH, is at an alarm with a key.
- `QueueBounded` (`QueueBound`): nothing in the bound keeps all workers from pushing in a
  row. `Reserved` counts the workers that passed the test and have not pushed yet:
  length plus their number is at most the limit plus the number of workers less one.
  `Admit` adds one to the count when the length is below the limit, `Push` moves one
  from the count to the length.
- `InRequestOrder` (`RequestOrder`) and `HandledPrefix` (`PrefixHandled`): `OrderInv`. The
  order holds because one worker serves a request (`OneServer`) and has handled exactly
  the alarms before the one it is at (`Progress`), so that what it pushes is later than
  all that its request has in a list; when the worker is gone, what it handled stays
  the first so many alarms (`Prefix`). No alarm comes of a request that was not posted
  (`FromPosted`).

**RowDelivery and the consumers.**

- `RowDeliveryProofs!StoredInOrder`: in `RowDelivery`, per database, what is stored and
  then what is held is strictly increasing in the order of posting. `RowsOrdered`
  adds the types.
- The lemmas on `RowsOf` (`HeldRows`) are there as well: the empty batch, an alarm popped
  last, an alarm handled first, an alarm posted. `RowsOf` is a recursive function over
  the places of a batch. The library's induction theorems cannot be used with the
  provers at hand; instead, if a fact failed for some length there would be a least
  one (`LeastElement`, from the well-foundedness of the natural numbers with the
  property written as a set), and the recursion refutes it.
- `DirectConsumerProofs!Implements` and `MetricsConsumerProofs!Implements` (`DeliverySpec`):
  the consumers implement `RowDelivery`, for `MetricsConsumer` in the loop without
  `try`. Each action is a step of `RowDelivery` or leaves what it sees. The refinement
  mapping holds the cache before what the batch will give, so caching a row moves it
  from one to the other and changes nothing, and an INSERT stores what is held first.
  Needed are `TypeOK` and that the batch is not empty, or not full, where the process
  takes from it or adds to it (`BatchFits`). `RowsInOrder` is the corollary of each, with
  `StoredInOrder` through the same mapping.
- `DirectConsumerProofs!UnlistedAreBounded` (`BoundedUnlisted`): `Unpaid` counts the
  unlisted rows but for the one being handled, which no failure paid for yet; where the
  consumer remembers fields, what it remembers is listed or was remembered when the database
  was made again (`Remembered`), else a row would be left unlisted without a failure.
- `MetricsConsumerProofs!CachesAreKept` (`CacheKept`): from the types alone, one action
  after the other.
- `MetricsConsumerProofs!RepeatsAreBounded` (`BoundedRepeats`): `Order`. A batch is the next
  alarms in sequence (`InSequence`), so a row is cached once, and its cache is increasing
  (`Ordered`). A row still cached may have been inserted once for each failure, and one
  that left the cache once more.
- `MetricsConsumerProofs!RowsAreListed` (`RowsListed`): stored rows are not enough, since a
  row is cached before its tag and ip are listed. `Owed` counts those tags and ips that
  are not listed and are either those of stored rows, or remembered, and those of
  cached rows that are not remembered, the row being handled excepted while its turn
  has not come. It grows by two at most with a caught exception, and otherwise only by what `stale`
  has. `Own`: rows are in the cache of their database.
- `MetricsConsumerProofs!LossIsBounded` (`BoundedLoss`): a bound on what is lost so far
  says nothing of what the next failure costs, and after a caught exception a cache may
  hold more than `CacheNum` rows. So `Paid` counts, with what is lost, the rows that a
  cache has beyond what it may hold (`Past`), the row being handled excepted: these were
  paid for by the failure that left them there. What the next failure can then cost
  anew is one batch and `CacheNum` rows for each database that accumulates (`Stake`). Where
  every batch ends with a flush, batch and caches together are one batch (`Swept`).

**BroadcastConsumer.** `Inv` has the types and where the process may be: it waits with a
batch that has room, handles one that is not empty, and has nothing when it is dead.

- `TypeCorrect` from `Inv`.
- `DumpsAreBounded` (`DumpsBounded`): rows are written one by one and forgotten only after
  the last, so the number of rows written says nothing of those still in the cache. A
  message in the cache whose send came and which this dump has not written yet owes a row
  (`Owed`). `Accounts`: rows written and owed are at most the sends handled, plus, when
  exceptions are caught, the failures, each of which may make rows owed again: one per
  message. What a dump is about to write, or wrote, has a send.
- `ReceptionsAreKept` (`ReceptionsKept`): `Kept`. A message that this dump has written has a
  row with every node its entry has, so that it may be forgotten; nothing joins an entry
  during a dump.

**StoreCreate and StoreQuery.** `StoreProofs`.

- `CreationTypeCorrect` and `NoneForgotten` (`NoTableForgotten`), for any number of
  processes, tables and drops. Each missing table has a creator with no existing table
  between the one it creates next and that one; what a creation may disturb is covered
  by the creator's own next place.
- `TypeCorrect`, `OneStatementAtATime` (`OneStatement`) and `AloneIsAnswered`
  (`AloneAnswered`): `QueryInv`. Who is at a statement has the lock (`Holding`). As long
  as no connection was refused it is closed only while one thread opens a new one
  (`ClosedWhileConnecting`); a query that is alone so far is the only one (`AloneIsOnly`),
  and the cursor has its rows from the execute until it fetches them (`AloneRows`).

**DatabaseManager.** `SpiderProofs`, second part.

- `TypeCorrect`, in which the stages of a round tell what the spider has in its lists.
- `DropsAreEarned` (`DropsEarned`): `Earned`, the flag is set only on credit, and the stages
  that lead to a drop are reached only with the flag.
- `ReserveIsRespected` (`ReserveRespected`): `SeenSteady`, what the round has read of
  `db_setting` still holds of a database nobody clicked on in this round.
- `ReportsGoOutOnce` (`ReportedOnce`): `SentInv`. A report that was sent stands in the way
  of a second one (`Noted`): the dict says so, or the spider is about to write it there,
  or is about to drop the database. Databases whose report was sent are in every list the
  dict is compared with, so they are not forgotten, and while the spider is dead its file
  says so; if it does not, the report counts as lost.

**Supervisor.** `SpiderProofs`, first part. `Supervised` is what all three theorems rest on:
`Tables`, `Control` and `OneSpider`.

- `SupervisionTypeCorrect` (`SupervisionTypeOK`): the tables of processes are `Tidy`. The
  processes due are the missing offspring of living ones, a program that is due has nothing
  of its start there but its shell, and the lines of a kill are of living processes. That at most one
  program of the spider runs does not follow from the tables: two programs, spider_alive
  and the pipeline of its kill, have to agree. `OneSpider`: spider_alive starts a spider only
  when its kill has found every one that its snapshot had, and nobody else starts one.
  That each type has one consumer, so that the children of `main_consumer.py` are as many
  as there are types, is a lemma drawn from `KeysAssumption` (`OneForEach`).
- `RestartsAreEarned` (`RestartsEarned`): that restarts so far had causes says nothing of
  the restarts to come. `SpiderPaid` counts with the restarts of the spider those it is
  owed (`SpiderDebt`): none while one shell and one program are there or starting, one when
  spider_alive is at a kill or something is wrong, two when something runs that the
  snapshot of the kill has not. Only a death, a stranger, and the way
  `spider/start.sh` starts the spider make it owe. `ConsumerPaid` does the same for the
  consumers, of which every child of one start has to be there or due (`Whole`); here a new
  spider brings two: it may inherit the snapshot of the one that was killed, and it may find
  consumers that have not forked yet.
- `DashIsFresh` (`DashFresh`): `Aged`, the age of the dashboard is within one interval for
  each spider that was restarted and what the present one has counted (`OwnRounds`).
  `SpiderPaid` is needed again: the count of restarts does not stop at `MaxRestarts`.

**ConsensusRate.**

- `TypeCorrect` and `SumsAreRight` (`SumsRight`), for any nodes, values and number of
  samples: with two more facts, a counter without samples has an empty stretch
  (`Untouched`), and in the first pass no node has samples of "fail" (`FirstPass`), so that
  this pass does not raise and its sums are closed.
- `ReportIsRight` (`ReportRight`): the sums of a node that did not restart are exact
  (`SumsExact`), and a share that is rounded to two decimals is below 80 only if it is,
  and whenever it is below 79.99 (`Rounding`). Between the two the code does not name the
  node: 3999 of 4999, which is less than 80 %, counts as 80.0.

**Only model-checked.** Liveness (`Answered`, `Drained`, `SentDumped`, `Completed`,
`AllConnected`, `Returns`, `ExistingListed`, `Settles`): it needs fairness and ENABLED,
which are beyond the prover. Every invariant and action property of the passing runs
is proved.

## 7. Not modelled

- The gossip consumer: its start is commented out (`main_consumer.py:63-64, 103-109`), and
  it imports `database.p2pbroadcast_sql`, which is not in the repository.
- `config_update` and `get_public_ip` of the proxy answer from a file and from a header.
  The file is truncated and written by every worker that starts (`proxy.py:26-31`), so a
  request in between gets an error; all workers write the same content.
- `check_metrics_alarm` and `do_check_consensus_succ_rate` of the spider are never called.
- The pages of the dashboard: read-only queries and their formatting; only its threads'
  use of a `Store` and `update_db_reserve` change anything.
- Contents of rows and messages, logging, and the scripts that kill and start one kind of
  process by hand, whose effect is `Kill` and `Restart`.

Redis and MySQL are modelled by what single
commands and statements do; their own failures are exceptions of the callers. MySQL is
taken to run with autocommit, as `store.py:377-389` sets it for the connections it
keeps.
