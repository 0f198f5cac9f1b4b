------------------------- MODULE BroadcastConsumer --------------------------
(***************************************************************************)
(* The consumer of p2p broadcasts (src/consumer/p2p_broadcast_consumer.py).  *)
(* The node that sends a message and every node that receives it report it   *)
(* in packets of their own, which arrive in any order.  The consumer joins    *)
(* them by msg_hash in memory; when it handles a packet more than 10 s after  *)
(* it last looked, it writes one row for every message sent more than two     *)
(* minutes ago and then forgets those messages.                             *)
(*                                                                         *)
(* Clocks are kept only as far as the code compares them: due for the 10 s,   *)
(* and "young" or "old" for the two minutes.  A send packet may be old when   *)
(* it is handled: it waited in the list, or its node's clock is behind.       *)
(***************************************************************************)
EXTENDS Integers, Sequences, FiniteSets

CONSTANTS
    Hashes,         \* messages
    Nodes,          \* receiving nodes
    Packets,        \* what can be posted: [hash, type, node]
    Traffic,        \* those that are posted again and again
    Step,           \* consume_step_
    CacheNum,       \* cache_num
    Modes,          \* how it is started: {FALSE} consume_alarm_with_notry, {TRUE} consume_alarm
    MaxPosts,       \* bound: packets posted, but for Traffic
    MaxQueue,       \* bound: packets waiting
    MaxFailures,    \* bound: exceptions and kills, but for those packets cause
    MaxRaises       \* bound: exceptions and kills, in all, when exceptions are caught

Types == {"send", "recv",
          "untimed",   \* a send without timestamp: its age cannot be computed
          "partial"}   \* a recv without hop_num, say: its message cannot be summed
IsSend(p) == p.type \in {"send", "untimed"}

ASSUME PacketsAssumption ==
    /\ Packets \subseteq [hash : Hashes, type : Types, node : Nodes]
    /\ Traffic \subseteq Packets
ASSUME StepAssumption == Step \in Nat \ {0} /\ CacheNum \in Nat /\ Modes \subseteq BOOLEAN
ASSUME BoundsAssumption == {MaxPosts, MaxQueue, MaxFailures, MaxRaises} \subseteq Nat

VARIABLES
    catchesErrors,   \* consume_alarm, not consume_alarm_with_notry; for good
    queue,     \* packets waiting, oldest first
    pc,        \* where the process is, "dead" when there is none
    batch,     \* the packets popped and not handled yet
    msgs,      \* msg_cache
    raw,       \* how many rows raw_msg_info_cache has, at most CacheNum + 1 counted
    due,       \* last_dump_checktime is more than 10 s ago
    todo,      \* the messages try_dump_cache_to_db has yet to write
    removed,   \* remove_msg_hash
    dumps,     \* MySQL: the nodes counted in each row of p2p_dump_msg_info
    posts, failures,   \* history: packets posted; exceptions and kills
    sends,     \* history: send packets handled
    heard      \* history: nodes whose recv this process handled

memory == <<pc, batch, msgs, raw, todo, removed>>
history == <<posts, failures, sends, heard>>
vars == <<catchesErrors, queue, memory, due, dumps, history>>

\* An entry of msg_cache: the age of send_timestamp ("zero" until there is a send,
\* "untimed" when that has None), recv_info, and the nodes of it with a field missing.
Message == [sent : {"zero", "untimed", "young", "old"}, recv : SUBSET Nodes, partial : SUBSET Nodes]
Template == [sent |-> "zero", recv |-> {}, partial |-> {}]
Cached == DOMAIN msgs
NoMessages == [h \in {} |-> Template]

TypeOK ==
    /\ catchesErrors \in Modes
    /\ queue \in Seq(Packets) /\ Len(queue) <= MaxQueue
    /\ pc \in {"fetch", "handle", "flush", "dump", "dead"}
    /\ batch \in Seq(Packets) /\ Len(batch) <= Step
    /\ Cached \subseteq Hashes /\ msgs \in [Cached -> Message]
    /\ raw \in 0..(CacheNum + 1) /\ (raw > CacheNum => pc = "flush" \/ catchesErrors)
    /\ due \in BOOLEAN
    /\ todo \cup removed \subseteq Cached /\ todo \cap removed = {}
    /\ (todo \cup removed # {} => pc = "dump")
    /\ dumps \in [Hashes -> Seq(SUBSET Nodes)]
    /\ posts \in Nat /\ failures \in Nat
    /\ sends \in [Hashes -> Nat] /\ heard \in [Hashes -> SUBSET Nodes]

Init ==
    /\ catchesErrors \in Modes
    /\ queue = <<>>
    /\ pc = "fetch" /\ batch = <<>> /\ msgs = NoMessages /\ raw = 0
    /\ due = FALSE /\ todo = {} /\ removed = {}
    /\ dumps = [h \in Hashes |-> <<>>]
    /\ posts = 0 /\ failures = 0
    /\ sends = [h \in Hashes |-> 0] /\ heard = [h \in Hashes |-> {}]
-----------------------------------------------------------------------------
\* put_queue in a proxy worker.
Post(p) ==
    /\ Len(queue) < MaxQueue
    /\ queue' = Append(queue, p)
    /\ IF p \in Traffic THEN UNCHANGED posts
                        ELSE posts < MaxPosts /\ posts' = posts + 1
    /\ UNCHANGED <<catchesErrors, memory, due, dumps, failures, sends, heard>>

\* More than 10 s pass since last_dump_checktime.
PassTenSeconds ==
    /\ ~due
    /\ due' = TRUE
    /\ UNCHANGED <<catchesErrors, queue, memory, dumps, history>>

\* More than two minutes pass since the send timestamp of h.
PassTwoMinutes(h) ==
    /\ h \in Cached /\ msgs[h].sent = "young"
    /\ msgs' = [msgs EXCEPT ![h].sent = "old"]
    /\ UNCHANGED <<catchesErrors, queue, pc, batch, raw, todo, removed, due, dumps, history>>

Die ==
    /\ pc' = "dead" /\ batch' = <<>> /\ msgs' = NoMessages /\ raw' = 0
    /\ todo' = {} /\ removed' = {}
    /\ heard' = [h \in Hashes |-> {}]

\* An exception: it ends the process or, caught, the batch.
Raise ==
    IF catchesErrors
    THEN /\ pc' = "fetch" /\ batch' = <<>> /\ todo' = {} /\ removed' = {}
         /\ UNCHANGED <<msgs, raw, heard>>
    ELSE Die

\* Redis or MySQL is out of reach, or closes the connection.
MayFail == failures < MaxFailures

\* Mutant: one packet more than a batch holds.
FetchTooMany ==
    /\ pc = "fetch" /\ queue # <<>>
    /\ queue' = Tail(queue)
    /\ batch' = Append(batch, Head(queue))
    /\ pc' = IF Len(batch') > Step THEN "handle" ELSE "fetch"
    /\ UNCHANGED <<msgs, raw, todo, removed, due, dumps, history>>

\* get_queue_exp: one BRPOP; it returns after exactly Step of them.
Fetch ==
    /\ pc = "fetch" /\ queue # <<>>
    /\ queue' = Tail(queue)
    /\ batch' = Append(batch, Head(queue))
    /\ pc' = IF Len(batch') = Step THEN "handle" ELSE "fetch"
    /\ UNCHANGED <<msgs, raw, todo, removed, due, dumps, history>>

\* A BRPOP raises: what was popped for the batch is lost.
FetchRaises ==
    /\ pc = "fetch" /\ MayFail
    /\ failures' = failures + 1
    /\ Raise
    /\ UNCHANGED <<catchesErrors, queue, due, dumps, posts, sends>>

\* Mutant: now_time in seconds, compared with timestamps in milliseconds.
DumpableNever(m) == FALSE

\* The messages a dump writes, and those it stumbles over: None has no age.
Dumpable(m) == m.sent \in {"old", "untimed"}
Unwritable(m) == m.sent = "untimed" \/ m.partial # {}

Continue(rest) == IF rest # <<>> THEN "handle" ELSE "fetch"

\* After the raw row of a packet: is it time to dump?
Check(cached, rest) ==
    IF due
    THEN pc' = "dump" /\ todo' = {h \in DOMAIN cached : Dumpable(cached[h])}
    ELSE pc' = Continue(rest) /\ UNCHANGED todo

\* The entry m after packet p.
Joined(m, p) ==
    IF IsSend(p)
    THEN {[m EXCEPT !.sent = a] : a \in IF p.type = "send" THEN {"young", "old"} ELSE {"untimed"}}
    ELSE {[m EXCEPT !.recv = @ \cup {p.node},
                    !.partial = IF p.type = "partial" THEN @ \cup {p.node} ELSE @ \ {p.node}]}

\* p2pbroadcast_handle up to the length test of raw_msg_info_cache.
Handle ==
    /\ pc = "handle"
    /\ LET p == Head(batch)
           m == IF p.hash \in Cached THEN msgs[p.hash] ELSE Template
       IN  /\ \E n \in Joined(m, p) :
                 msgs' = [h \in Cached \cup {p.hash} |-> IF h = p.hash THEN n ELSE msgs[h]]
           /\ sends' = [sends EXCEPT ![p.hash] = IF IsSend(p) THEN @ + 1 ELSE @]
           /\ heard' = [heard EXCEPT ![p.hash] = IF IsSend(p) THEN @ ELSE @ \cup {p.node}]
    /\ batch' = Tail(batch)
    /\ IF raw >= CacheNum
       THEN raw' = CacheNum + 1 /\ pc' = "flush" /\ UNCHANGED todo
       ELSE raw' = raw + 1 /\ Check(msgs', batch')
    /\ UNCHANGED <<queue, removed, due, dumps, posts, failures>>

\* multi_insert_into_db of the raw rows.
Flush ==
    /\ pc = "flush"
    /\ \/ /\ raw' = 0
          /\ Check(msgs, batch)
          /\ UNCHANGED <<batch, msgs, removed, failures, heard>>
       \/ MayFail /\ failures' = failures + 1 /\ Raise
    /\ UNCHANGED <<queue, due, dumps, posts, sends>>

Written(h) == [dumps EXCEPT ![h] = Append(@, msgs[h].recv)]

\* try_dump_cache_to_db: the row of one message.  Without the timestamp, or one of
\* the fields it sums, the row cannot be made.
Dump ==
    /\ pc = "dump"
    /\ \E h \in todo :
          \/ /\ ~Unwritable(msgs[h])
             /\ dumps' = Written(h)
             /\ todo' = todo \ {h} /\ removed' = removed \cup {h}
             /\ UNCHANGED <<pc, batch, msgs, raw, failures, heard>>
          \/ /\ Unwritable(msgs[h])
             /\ catchesErrors => failures < MaxRaises
             /\ failures' = failures + 1
             /\ Raise
             /\ UNCHANGED dumps
          \/ /\ ~Unwritable(msgs[h]) /\ MayFail
             /\ failures' = failures + 1
             /\ dumps' \in {dumps, Written(h)}
             /\ Raise
    /\ UNCHANGED <<queue, due, posts, sends>>

\* Mutant: the messages stay in msg_cache.
ForgetNone ==
    /\ pc = "dump" /\ todo = {}
    /\ removed' = {} /\ due' = FALSE
    /\ pc' = Continue(batch)
    /\ UNCHANGED <<queue, batch, msgs, raw, todo, dumps, history>>

\* Mutant: so that msg_cache cannot grow, messages without a send go as well.
ForgetUnsent ==
    /\ pc = "dump" /\ todo = {}
    /\ msgs' = [h \in {g \in Cached \ removed : msgs[g].sent # "zero"} |-> msgs[h]]
    /\ removed' = {} /\ due' = FALSE
    /\ pc' = Continue(batch)
    /\ UNCHANGED <<queue, batch, raw, todo, dumps, history>>

\* After the last row, what was written leaves msg_cache.
Forget ==
    /\ pc = "dump" /\ todo = {}
    /\ msgs' = [h \in Cached \ removed |-> msgs[h]]
    /\ removed' = {} /\ due' = FALSE
    /\ pc' = Continue(batch)
    /\ UNCHANGED <<queue, batch, raw, todo, dumps, history>>

\* check_true_or_restart of the spider: kill -9 of every consumer, then start.
Kill ==
    /\ pc # "dead" /\ MayFail
    /\ failures' = failures + 1
    /\ Die
    /\ UNCHANGED <<catchesErrors, queue, due, dumps, posts, sends>>

\* __init__ sets last_dump_checktime.
Restart ==
    /\ pc = "dead"
    /\ pc' = "fetch" /\ due' = FALSE
    /\ UNCHANGED <<queue, batch, msgs, raw, todo, removed, dumps, history>>

Process ==
    /\ Fetch \/ Handle \/ Flush \/ Dump \/ Forget \/ Restart
    /\ UNCHANGED catchesErrors

Next ==
    \/ \E p \in Packets : Post(p)
    \/ Process \/ FetchRaises
    \/ Kill
    \/ PassTenSeconds
    \/ \E h \in Hashes : PassTwoMinutes(h)

Spec == Init /\ [][Next]_vars

\* The process runs, time passes, and nodes keep reporting messages.
FairSpec ==
    /\ Spec
    /\ WF_vars(Process) /\ WF_vars(PassTenSeconds)
    /\ \A h \in Hashes : WF_vars(PassTwoMinutes(h))
    /\ WF_vars(\E p \in Traffic : Post(p))
-----------------------------------------------------------------------------
\* A send is written once.  A process that dies while it writes takes its messages
\* with it, so none is written again; a caught exception leaves those already
\* written in msg_cache, so each exception may repeat a row
\* (p2p_broadcast_consumer.py:209-241).
DumpsBounded ==
    \A h \in Hashes : Len(dumps[h]) <= sends[h] + (IF catchesErrors THEN failures ELSE 0)

\* While the process lives, a reception it handled is either in msg_cache or
\* counted in a row, in whatever order send and recv arrive and whatever raises
\* in between (p2p_broadcast_consumer.py:165-211, 215-241).
ReceptionsKept ==
    \A h \in Hashes : \A n \in heard[h] :
        \/ h \in Cached /\ n \in msgs[h].recv
        \/ \E i \in DOMAIN dumps[h] : n \in dumps[h][i]

\* As long as nodes report anything, a message whose send was handled leaves
\* msg_cache: written, or gone with its process; unless exceptions are caught and
\* some message has no timestamp or cannot be summed, which then ends every dump
\* (p2p_broadcast_consumer.py:209-241).
SentDumped ==
    \A h \in Hashes :
        [](h \in Cached /\ msgs[h].sent # "zero" =>
               <>(h \notin Cached \/ (catchesErrors /\ \E g \in Cached : Unwritable(msgs[g]))))
=============================================================================
