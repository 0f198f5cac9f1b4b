----------------------------- MODULE Supervisor ------------------------------
(***************************************************************************)
(* How the processes of the server are kept alive.  The spider counts with   *)
(* ps, every minute, the processes of the consumers, of the proxy and of the  *)
(* dashboard; when a count is not the expected one it kills all of them and   *)
(* starts them again (check_true_or_restart, src/spider/spider.py).          *)
(* spider_alive does the same with the spider (src/spider/spider_alive.py).   *)
(* A start is a shell, which runs the program, which forks its children: the  *)
(* consumers one for each queue key of each type (src/consumer/              *)
(* main_consumer.py), gunicorn its workers.                                 *)
(*                                                                         *)
(* ps sees command lines.  So a shell counts unless its line has "nohup",    *)
(* children count like their parent, and somebody's editor on main_consumer.py *)
(* or the truncation of gunicorn's logs by cron (README.md:117) counts too.    *)
(***************************************************************************)
EXTENDS Integers, Sequences, FiniteSets

CONSTANTS
    Types,          \* the types of qkey_map that are run
    Workers,        \* how many workers gunicorn has (-w)
    restart_dashboard_interval,
    MaxFaults,      \* bound: processes that die by themselves, and strangers
    MaxRestarts     \* bound: restarts of one component are counted up to this, which
                    \* is more than the spider ever has (RestartsEarned)

VARIABLES
    alive,      \* the processes that ps shows
    due,        \* processes that a living one is about to start
    doomed,     \* processes on the line of a kill -9 that is being run
    doing,      \* of the spider and of spider_alive
    at,         \* which of the calls of a round the spider is in
    counter,    \* inner_restart_dashboard_interval
    deaths, strangers,   \* history: processes that died; strangers that came
    restarts,   \* history: restarts of the consumers and of the spider
    age         \* history: rounds since the dashboard was started

actors == <<doing, at, counter>>
history == <<deaths, strangers, restarts, age>>
supervisionVars == <<alive, due, doomed, actors, history>>

\* qkey_map; names are sequences of words.
qkey_map == {
    <<"metrics", "timer">>, <<"metrics", "flow">>, <<"metrics", "counter">>,
    <<"vnode", "status">>, <<"xsync", "interval">>, <<"kadinfo">>,
    <<"p2pbroadcast">>, <<"txpool", "state">>, <<"txpool", "receipt">>,
    <<"txpool", "cache">>, <<"metrics", "alarm">>, <<"metrics", "array", "counter">>,
    <<"p2ptest", "sendrecord">>, <<"p2ptest", "send", "info">>,
    <<"p2ptest", "recv", "info">>, <<"relayer", "gas">>}

\* RedisQueue.__init__ puts a key for each type in topargus_alarm_allkey_set.
queue_key_base == <<"topargus", "alarm", "list">>
all_queue_keys(T) == {queue_key_base \o t : t \in T}

\* The name of a type in the name of a key: qkey.find(type) != -1.  The code looks for
\* characters and this for words, which makes no difference to the 16 names it has.
Contains(key, type) ==
    \E i \in 0..(Len(key) - Len(type)) : SubSeq(key, i + 1, i + Len(type)) = type

\* The pairs for which run makes a consumer, when T are the types.
Assigned(T) == {p \in T \X all_queue_keys(T) : Contains(p[2], p[1])}
consumer_list == Assigned(Types)

Components == {"consumer", "proxy", "dash", "spider"}
Counted == {"consumer", "spider"}    \* the components whose restarts the history has

\* The role of a process in its component: one of these, or the number of a child.
Main == 0
Shell == -1
Stranger == -2
Children == [consumer |-> 1..Cardinality(consumer_list), proxy |-> 1..Workers,
             dash |-> {}, spider |-> {}]

\* 17 processes of consumers, one for each of 16 types and their parent; 5 of
\* gunicorn.
consumer_process_count == Cardinality(Types) + 1
Expected == [consumer |-> consumer_process_count, proxy |-> Workers + 1,
             dash |-> 1, spider |-> 2]

\* No name of a type is in the key of another: each key gets one consumer, and with
\* all types there are the 17 processes the spider expects.
ASSUME KeysAssumption ==
    /\ Types \subseteq qkey_map /\ Types # {}
    /\ \A k \in all_queue_keys(qkey_map) : Cardinality({t \in qkey_map : Contains(k, t)}) = 1
    /\ Cardinality(Assigned(qkey_map)) + 1 = 17
ASSUME SupervisionBounds ==
    /\ {Workers, restart_dashboard_interval, MaxFaults, MaxRestarts} \subseteq Nat
    /\ MaxRestarts > MaxFaults + 1

\* A process of a component: which start of it, and its role in it.  Starts are told
\* apart as long as processes of both are there.
Proc(g, r) == [gen |-> g, role |-> r]
TheStranger == Proc(0, Stranger)
Offspring(c, p) ==
    CASE p.role = Shell -> {Proc(p.gen, Main)}
      [] p.role = Main  -> {Proc(p.gen, r) : r \in Children[c]}
      [] OTHER          -> {}
IsChild(p) == p.role > 0
HasParent(c, p) == Proc(p.gen, Main) \in alive[c]
SpiderMains(S) == {p \in S["spider"] : p.role = Main}

Actors == {"spider", "spider_alive"}
\* The components an actor looks after.
Tended(a) == IF a = "spider_alive" THEN {"spider"} ELSE Components \ {"spider"}
\* run of the spider: three checks, then restart_dash.
Calls == <<"consumer", "proxy", "dash", "dash">>
RestartDashCall == 4
Target(a) == IF a = "spider_alive" THEN "spider" ELSE Calls[at]

SupervisionTypeOK ==
    /\ \A S \in {alive, due, doomed} : DOMAIN S = Components
    /\ \A c \in Components :
        /\ doomed[c] \subseteq alive[c]
        /\ \A p \in alive[c] :
            p.gen \in Nat /\ p.role \in {Shell, Main, Stranger} \cup Children[c]
        /\ due[c] \subseteq (UNION {Offspring(c, p) : p \in alive[c]}) \ alive[c]
    /\ doing \in [Actors -> {"count", "kill", "start", "launch", "sleep", "down"}]
    /\ Cardinality(SpiderMains(alive)) = IF doing["spider"] = "down" THEN 0 ELSE 1
    /\ at \in 1..RestartDashCall
    /\ counter \in 0..restart_dashboard_interval
    /\ deaths \in Nat /\ strangers \in Nat /\ age \in Nat
    /\ restarts \in [Counted -> 0..MaxRestarts]

\* spider/start.sh has started the spider, and somebody spider_alive.
SupervisionInit ==
    /\ alive = [c \in Components |-> IF c = "spider" THEN {Proc(1, Main)} ELSE {}]
    /\ due = [c \in Components |-> {}] /\ doomed = due
    /\ doing = [a \in Actors |-> "count"] /\ at = 1 /\ counter = 0
    /\ deaths = 0 /\ strangers = 0 /\ age = 0
    /\ restarts = [c \in Counted |-> 0]
-----------------------------------------------------------------------------
(* Processes come and go. *)

\* Mutant: what the dead had still to start is started all the same.
GoneLate(c, S) ==
    /\ alive' = [alive EXCEPT ![c] = @ \ S]
    /\ doomed' = [doomed EXCEPT ![c] = @ \ S]
    /\ UNCHANGED due
    /\ IF SpiderMains(alive) # {} /\ SpiderMains(alive') = {}
       THEN doing' = [doing EXCEPT !["spider"] = "down"] /\ at' = 1 /\ counter' = 0
       ELSE UNCHANGED actors

\* S ends.  What it had still to start is not started, kill does not find it, and
\* the spider's memory goes.
Gone(c, S) ==
    /\ alive' = [alive EXCEPT ![c] = @ \ S]
    /\ doomed' = [doomed EXCEPT ![c] = @ \ S]
    /\ due' = [due EXCEPT ![c] = @ \cap UNION {Offspring(c, p) : p \in alive[c] \ S}]
    /\ IF SpiderMains(alive) # {} /\ SpiderMains(alive') = {}
       THEN doing' = [doing EXCEPT !["spider"] = "down"] /\ at' = 1 /\ counter' = 0
       ELSE UNCHANGED actors

\* A shell runs its program, a program forks its children in order.  A spider
\* that runs begins with its first check.
Launch(c) ==
    \E p \in due[c] :
        /\ \A q \in due[c] : q.gen = p.gen => p.role <= q.role
        /\ alive' = [alive EXCEPT ![c] = @ \cup {p}]
        /\ due' = [due EXCEPT ![c] = (@ \ {p}) \cup Offspring(c, p)]
        /\ doing' = IF c = "spider" THEN [doing EXCEPT !["spider"] = "count"] ELSE doing
        /\ UNCHANGED <<doomed, at, counter, history>>

\* A shell ends with its program, main_consumer.py with its last child
\* (join), a gunicorn worker without its parent.
AtEnd(c, p) ==
    \/ /\ p.role = Shell \/ (p.role = Main /\ c = "consumer")
       /\ Offspring(c, p) \cap (alive[c] \cup due[c]) = {}
    \/ c = "proxy" /\ IsChild(p) /\ ~HasParent(c, p)

Exit(c) ==
    \E p \in alive[c] :
        /\ AtEnd(c, p)
        /\ Gone(c, {p})
        /\ UNCHANGED history

\* An exception, or the kernel is out of memory.  gunicorn replaces its workers.
Die(c) ==
    \E p \in alive[c] :
        /\ p.role \notin {Shell, Stranger}
        /\ deaths + strangers < MaxFaults /\ deaths' = deaths + 1
        /\ IF c = "proxy" /\ IsChild(p) /\ HasParent(c, p)
           THEN /\ alive' = [alive EXCEPT ![c] = @ \ {p}]
                /\ doomed' = [doomed EXCEPT ![c] = @ \ {p}]
                /\ due' = [due EXCEPT ![c] = @ \cup {p}]
                /\ UNCHANGED actors
           ELSE Gone(c, {p})
        /\ UNCHANGED <<strangers, restarts, age>>

\* A command whose line has the name of a component, and no "nohup", is run.
Come(c) ==
    /\ TheStranger \notin alive[c]
    /\ deaths + strangers < MaxFaults /\ strangers' = strangers + 1
    /\ alive' = [alive EXCEPT ![c] = @ \cup {TheStranger}]
    /\ UNCHANGED <<due, doomed, actors, deaths, restarts, age>>

Leave(c) ==
    /\ TheStranger \in alive[c]
    /\ Gone(c, {TheStranger})
    /\ UNCHANGED history

\* xargs kill -9.  It goes on when the spider that began it is dead.
Kill(c) ==
    /\ doomed[c] # {}
    /\ Gone(c, doomed[c])
    /\ UNCHANGED history
-----------------------------------------------------------------------------
(* check_true_or_restart. *)

\* ps | grep | grep -v grep | grep -v nohup -c.  Only spider_alive starts its
\* component without nohup.
Count(c) == Cardinality({p \in alive[c] : p.role = Shell => c = "spider"})

\* Mutant: only missing processes matter.
TooFew(c) == Count(c) < Expected[c]

Wrong(c) == Count(c) # Expected[c]

\* The call a did is over; the last one of a round is followed by the disk, the
\* databases, and time.sleep(check_interval).
Return(a) ==
    IF a = "spider_alive" \/ at = RestartDashCall
    THEN doing' = [doing EXCEPT ![a] = "sleep"] /\ UNCHANGED at
    ELSE doing' = [doing EXCEPT ![a] = "count"] /\ at' = at + 1

CountProcesses(a) ==
    /\ doing[a] = "count" /\ (a = "spider_alive" \/ at # RestartDashCall)
    /\ IF Wrong(Target(a))
       THEN doing' = [doing EXCEPT ![a] = "kill"] /\ UNCHANGED at
       ELSE Return(a)
    /\ UNCHANGED <<alive, due, doomed, counter, history>>

\* Mutant: the counter stands still.
RestartDashNever ==
    /\ doing["spider"] = "count" /\ at = RestartDashCall
    /\ IF counter = restart_dashboard_interval
       THEN counter' = 0 /\ doing' = [doing EXCEPT !["spider"] = "kill"] /\ UNCHANGED <<at, age>>
       ELSE UNCHANGED counter /\ age' = age + 1 /\ Return("spider")
    /\ UNCHANGED <<alive, due, doomed, deaths, strangers, restarts>>

\* restart_dash: every so many rounds the dashboard is restarted, whatever its count.
RestartDash ==
    /\ doing["spider"] = "count" /\ at = RestartDashCall
    /\ IF counter = restart_dashboard_interval
       THEN counter' = 0 /\ doing' = [doing EXCEPT !["spider"] = "kill"] /\ UNCHANGED <<at, age>>
       ELSE counter' = counter + 1 /\ age' = age + 1 /\ Return("spider")
    /\ UNCHANGED <<alive, due, doomed, deaths, strangers, restarts>>

\* After the alarm to DingDing, a second ps, whose lines xargs gives to kill.
Snapshot(a) ==
    /\ doing[a] = "kill"
    /\ doomed' = [doomed EXCEPT ![Target(a)] = @ \cup alive[Target(a)]]
    /\ doing' = [doing EXCEPT ![a] = "start"]
    /\ UNCHANGED <<alive, due, at, counter, history>>

NewGen(c) ==
    LET used == {p.gen : p \in alive[c]} \cup {0}
    IN  CHOOSE g \in 1..Cardinality(used) : g \notin used /\ 1..(g - 1) \subseteq used

\* The kill is done; the start command ends in "&", so the shell stays behind.
Start(a) ==
    /\ doing[a] = "start" /\ doomed[Target(a)] = {}
    /\ LET c == Target(a)
           shell == Proc(NewGen(c), Shell)
       IN  /\ alive' = [alive EXCEPT ![c] = @ \cup {shell}]
           /\ due' = [due EXCEPT ![c] = @ \cup Offspring(c, shell)]
           /\ restarts' = [d \in Counted |->
                  restarts[d] + IF c = d /\ restarts[d] < MaxRestarts THEN 1 ELSE 0]
           /\ age' = IF c = "dash" THEN 0 ELSE age
    /\ doing' = [doing EXCEPT ![a] = "launch"]
    /\ UNCHANGED <<doomed, at, counter, deaths, strangers>>

\* time.sleep(1): the program runs by then, but need not have forked.
Launched(a) ==
    /\ doing[a] = "launch"
    /\ \A p \in due[Target(a)] : p.role # Main
    /\ Return(a)
    /\ UNCHANGED <<alive, due, doomed, counter, history>>

\* Mutant: the next round begins at once.
WakeAtOnce(a) ==
    /\ doing[a] = "sleep"
    /\ doing' = [doing EXCEPT ![a] = "count"]
    /\ at' = IF a = "spider" THEN 1 ELSE at
    /\ UNCHANGED <<alive, due, doomed, counter, history>>

\* time.sleep(60): what was started before has forked all its children by then,
\* and what was about to end has ended.
Wake(a) ==
    /\ doing[a] = "sleep"
    /\ \A c \in Tended(a) : due[c] = {} /\ \A p \in alive[c] : ~AtEnd(c, p)
    /\ doing' = [doing EXCEPT ![a] = "count"]
    /\ at' = IF a = "spider" THEN 1 ELSE at
    /\ UNCHANGED <<alive, due, doomed, counter, history>>

Act(a) == CountProcesses(a) \/ Snapshot(a) \/ Start(a) \/ Launched(a) \/ Wake(a)

Spider == Act("spider") \/ RestartDash

\* What happens by itself to the processes of the components in C.
Processes(C) == \E c \in C : Launch(c) \/ Exit(c) \/ Leave(c) \/ Kill(c)

SupervisionNext ==
    \/ Spider
    \/ Act("spider_alive")
    \/ \E a \in Actors : Processes(Tended(a))
    \/ \E c \in Components : Die(c) \/ Come(c)

SupervisionSpec == SupervisionInit /\ [][SupervisionNext]_supervisionVars

\* Both loops go on; commands end, programs start and stop.
FairSupervisionSpec ==
    /\ SupervisionSpec
    /\ WF_supervisionVars(Spider) /\ WF_supervisionVars(Act("spider_alive"))
    /\ \A a \in Actors : WF_supervisionVars(Processes(Tended(a)))
-----------------------------------------------------------------------------
\* The consumers of one key.
Serving(child) == {p \in alive["consumer"] : p.role = child}
Orphans == {p \in alive["consumer"] : IsChild(p) /\ ~HasParent("consumer", p)}

\* When processes have stopped dying and strangers are gone, the supervision comes
\* to rest: nothing but the dashboard is killed any more, and every key has exactly
\* one consumer.  That may fail only when a consumer died while a child of a killed
\* parent was left over: their number is then right, and nobody looks again
\* (spider.py:129-144, spider_alive.py:110-132, main_consumer.py:183-194).
Settles ==
    <>[](/\ \A c \in {"consumer", "proxy", "spider"} : Count(c) = Expected[c]
         /\ \/ \A child \in Children["consumer"] : Cardinality(Serving(child)) = 1
            \/ deaths > 0 /\ Orphans # {})

\* Nothing is restarted without a cause, however the two loops, the snapshots for
\* kill and the starting processes interleave.  The spider is restarted once because
\* spider/start.sh starts it with one process less than spider_alive expects, then
\* once for each death or stranger.  The consumers are started once, and again for
\* each death or stranger, and at most twice for each restart of the spider: the
\* snapshot of a dying spider may hold consumers, and the next one find them starting
\* (spider.py:129-144, 652-657, spider_alive.py:110-132).
RestartsEarned ==
    /\ restarts["spider"] <= 1 + deaths + strangers
    /\ restarts["consumer"] <= 1 + deaths + strangers + 2 * restarts["spider"]

\* The dashboard is restarted, and its memory given back, at least every
\* restart_dashboard_interval + 1 rounds, though the spider may be killed in any
\* round and forgets its counter: each spider, the first one included, adds at most
\* restart_dashboard_interval rounds (spider.py:37, 126, 146-164).
DashFresh == age <= restart_dashboard_interval * (1 + restarts["spider"])
=============================================================================
