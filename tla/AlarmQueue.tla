----------------------------- MODULE AlarmQueue -----------------------------
(***************************************************************************)
(* The alarm queue of top-dw-server: the gunicorn workers of               *)
(* src/proxy/proxy.py that handle POST /api/alarm, the Redis lists of      *)
(* src/common/my_queue.py they fill, and the blocking pops that empty them. *)
(*                                                                         *)
(* A request carries a sequence of alarms.  put_queue asks Redis for the   *)
(* length of the list (LLEN) and, in a second command, pushes the alarm    *)
(* (LPUSH); the commands of several workers interleave.                    *)
(***************************************************************************)
EXTENDS Integers, Sequences, FiniteSets

CONSTANTS
    Workers,      \* the worker processes of gunicorn (-w 4)
    Keys,         \* the queue keys alarms can ask for, one per alarm_type
    Consumed,     \* the keys a consumer process reads (main_consumer.py)
    Bad,          \* an alarm put_queue, or the line before it, raises on
    Limit,        \* the length at which put_queue drops alarms (1000000)
    Batches,      \* the sequences of alarms a client may post
    MaxRequests   \* bound: how many requests clients post

ASSUME WorkersAssumption == IsFiniteSet(Workers) /\ Workers # {}
ASSUME KeysAssumption == Consumed \subseteq Keys /\ Bad \notin Keys
ASSUME LimitAssumption == Limit \in Nat \ {0}
ASSUME BatchesAssumption == Batches \subseteq Seq(Keys \cup {Bad})
ASSUME MaxRequestsAssumption == MaxRequests \in Nat

VARIABLES
    queue,    \* queue[k]: the Redis list; its head is what BRPOP takes next
    pc,       \* pc[w]: "idle", "item" (next alarm), "push" (LLEN answered)
    request,  \* request[w]: number of the request w serves, 0 when none
    pos,      \* pos[w]: index in the request of the alarm being put
    sent,     \* the requests posted so far; a request's number is its index
    reply,    \* reply[r]: what the client of request r got
    taken,    \* history: taken[k], what the consumer of k has popped
    dropped   \* history: alarms refused because their list was full

vars == <<queue, pc, request, pos, sent, reply, taken, dropped>>

Replies == {"none", "OK", "rejected", "error", "lost"}

\* An alarm inside the system: which request it came in, and where in it.
Item == [req : Nat \ {0}, at : Nat \ {0}]

\* A busy worker serves a posted request, at an index of it.
WorkerOK(w) ==
    /\ pc[w] = "idle" => pos[w] = 1
    /\ pc[w] # "idle" => /\ request[w] \in 1..Len(sent)
                         /\ pos[w] <= Len(sent[request[w]]) + 1
    /\ pc[w] = "push" => /\ pos[w] <= Len(sent[request[w]])
                         /\ sent[request[w]][pos[w]] \in Keys

TypeOK ==
    /\ queue \in [Keys -> Seq(Item)]
    /\ pc \in [Workers -> {"idle", "item", "push"}]
    /\ request \in [Workers -> Nat]
    /\ pos \in [Workers -> Nat \ {0}]
    /\ sent \in Seq(Batches) /\ Len(sent) <= MaxRequests
    /\ reply \in [1..MaxRequests -> Replies]
    /\ taken \in [Keys -> Seq(Item)]
    /\ dropped \subseteq Item
    /\ \A w \in Workers : WorkerOK(w)

Init ==
    /\ queue = [k \in Keys |-> <<>>]
    /\ pc = [w \in Workers |-> "idle"]
    /\ request = [w \in Workers |-> 0]
    /\ pos = [w \in Workers |-> 1]
    /\ sent = <<>>
    /\ reply = [r \in 1..MaxRequests |-> "none"]
    /\ taken = [k \in Keys |-> <<>>]
    /\ dropped = {}
-----------------------------------------------------------------------------
Batch(w) == sent[request[w]]
More(w) == pos[w] <= Len(Batch(w))
Alarm(w) == Batch(w)[pos[w]]
Current(w) == [req |-> request[w], at |-> pos[w]]

\* Mutant: the index of the loop is not reset for the next request.
FinishKeepsPos(w, a) ==
    /\ reply' = [reply EXCEPT ![request[w]] = a]
    /\ pc' = [pc EXCEPT ![w] = "idle"]
    /\ request' = [request EXCEPT ![w] = 0]
    /\ UNCHANGED pos

\* The handler of w ends and its client gets answer a.
Finish(w, a) ==
    /\ reply' = [reply EXCEPT ![request[w]] = a]
    /\ pc' = [pc EXCEPT ![w] = "idle"]
    /\ request' = [request EXCEPT ![w] = 0]
    /\ pos' = [pos EXCEPT ![w] = 1]

\* alarm_report: a request without data is rejected, the others are looped over.
Receive(w, b) ==
    /\ pc[w] = "idle"
    /\ Len(sent) < MaxRequests
    /\ sent' = Append(sent, b)
    /\ IF b = <<>>
       THEN /\ reply' = [reply EXCEPT ![Len(sent) + 1] = "rejected"]
            /\ UNCHANGED <<pc, request>>
       ELSE /\ pc' = [pc EXCEPT ![w] = "item"]
            /\ request' = [request EXCEPT ![w] = Len(sent) + 1]
            /\ UNCHANGED reply
    /\ UNCHANGED <<queue, pos, taken, dropped>>

\* Mutant: the exception is caught per alarm and the loop goes on.
BadAlarmSkips(w) ==
    /\ pc[w] = "item" /\ More(w) /\ Alarm(w) = Bad
    /\ pos' = [pos EXCEPT ![w] = @ + 1]
    /\ UNCHANGED <<queue, pc, request, sent, reply, taken, dropped>>

\* An alarm without packet, or of type p2p_gossip: the exception ends the
\* request, the alarms before it stay queued.
BadAlarm(w) ==
    /\ pc[w] = "item" /\ More(w) /\ Alarm(w) = Bad
    /\ Finish(w, "error")
    /\ UNCHANGED <<queue, sent, taken, dropped>>

\* Mutant: the limit is tested with > for >=.
AdmitOffByOne(w) ==
    /\ pc[w] = "item" /\ More(w) /\ Alarm(w) # Bad
    /\ Len(queue[Alarm(w)]) <= Limit
    /\ pc' = [pc EXCEPT ![w] = "push"]
    /\ UNCHANGED <<queue, request, pos, sent, reply, taken, dropped>>

\* put_queue: LLEN says there is room.
Admit(w) ==
    /\ pc[w] = "item" /\ More(w) /\ Alarm(w) # Bad
    /\ Len(queue[Alarm(w)]) < Limit
    /\ pc' = [pc EXCEPT ![w] = "push"]
    /\ UNCHANGED <<queue, request, pos, sent, reply, taken, dropped>>

\* Mutant: a full list is waited for.
DropWaits(w) ==
    /\ pc[w] = "item" /\ More(w) /\ Alarm(w) # Bad
    /\ Len(queue[Alarm(w)]) >= Limit
    /\ UNCHANGED vars

\* put_queue: LLEN says the list is full; a warning, and on to the next alarm.
Drop(w) ==
    /\ pc[w] = "item" /\ More(w) /\ Alarm(w) # Bad
    /\ Len(queue[Alarm(w)]) >= Limit
    /\ dropped' = dropped \cup {Current(w)}
    /\ pos' = [pos EXCEPT ![w] = @ + 1]
    /\ UNCHANGED <<queue, pc, request, sent, reply, taken>>

\* put_queue: LPUSH.
Push(w) ==
    /\ pc[w] = "push"
    /\ queue' = [queue EXCEPT ![Alarm(w)] = Append(@, Current(w))]
    /\ pc' = [pc EXCEPT ![w] = "item"]
    /\ pos' = [pos EXCEPT ![w] = @ + 1]
    /\ UNCHANGED <<request, sent, reply, taken, dropped>>

\* alarm_report returns status 0.
Respond(w) ==
    /\ pc[w] = "item" /\ ~More(w)
    /\ Finish(w, "OK")
    /\ UNCHANGED <<queue, sent, taken, dropped>>

\* A Redis command raises: nothing happened, or LPUSH happened and its
\* answer was lost.
RedisError(w) ==
    /\ pc[w] \in {"item", "push"} /\ More(w) /\ Alarm(w) # Bad
    /\ \/ UNCHANGED queue
       \/ /\ pc[w] = "push"
          /\ queue' = [queue EXCEPT ![Alarm(w)] = Append(@, Current(w))]
    /\ Finish(w, "error")
    /\ UNCHANGED <<sent, taken, dropped>>

\* The spider (kill -9) or gunicorn (timeout) kills w; a new worker replaces it.
Kill(w) ==
    /\ pc[w] # "idle"
    /\ Finish(w, "lost")
    /\ UNCHANGED <<queue, sent, taken, dropped>>

\* Mutant: LPOP for BRPOP, the newest alarm is taken first.
PopNewest(k) ==
    /\ k \in Consumed /\ queue[k] # <<>>
    /\ taken' = [taken EXCEPT ![k] = Append(@, queue[k][Len(queue[k])])]
    /\ queue' = [queue EXCEPT ![k] = SubSeq(@, 1, Len(@) - 1)]
    /\ UNCHANGED <<pc, request, pos, sent, reply, dropped>>

\* Mutant: the last alarm of a list is left in it.
PopLeavesOne(k) ==
    /\ k \in Consumed /\ Len(queue[k]) > 1
    /\ taken' = [taken EXCEPT ![k] = Append(@, Head(queue[k]))]
    /\ queue' = [queue EXCEPT ![k] = Tail(@)]
    /\ UNCHANGED <<pc, request, pos, sent, reply, dropped>>

\* get_queue: BRPOP on the list of one consumer, blocked while it is empty.
Pop(k) ==
    /\ k \in Consumed /\ queue[k] # <<>>
    /\ taken' = [taken EXCEPT ![k] = Append(@, Head(queue[k]))]
    /\ queue' = [queue EXCEPT ![k] = Tail(@)]
    /\ UNCHANGED <<pc, request, pos, sent, reply, dropped>>

Work(w) == BadAlarm(w) \/ Admit(w) \/ Drop(w) \/ Push(w) \/ Respond(w)

Next ==
    \/ \E w \in Workers, b \in Batches : Receive(w, b)
    \/ \E w \in Workers : Work(w) \/ RedisError(w) \/ Kill(w)
    \/ \E k \in Keys : Pop(k)

Spec == Init /\ [][Next]_vars

\* A worker that is scheduled goes on; a consumer blocked in BRPOP wakes up.
Fairness ==
    /\ \A w \in Workers : WF_vars(Work(w))
    /\ \A k \in Consumed : WF_vars(Pop(k))

FairSpec == Spec /\ Fairness
-----------------------------------------------------------------------------
ToSet(s) == {s[i] : i \in DOMAIN s}

\* Everything ever pushed to k, oldest first.
Stream(k) == taken[k] \o queue[k]
Stored == UNION {ToSet(Stream(k)) : k \in Keys}

\* The workers between LLEN and LPUSH on k.
AtPush(k) == {w \in Workers : pc[w] = "push" /\ Alarm(w) = k}

\* The test against the limit and the push are two Redis commands, so a list
\* can outgrow the limit (my_queue.py:177-180), by at most one alarm for each
\* worker but one.
QueueBound == \A k \in Keys : Len(queue[k]) <= Limit + Cardinality(Workers) - 1

\* The alarms of one request that share a list leave it in the order of the
\* request and none leaves it twice, whatever the other workers push between
\* them (my_queue.py:155-166, 180, 185).
RequestOrder ==
    \A k \in Keys : \A i, j \in DOMAIN Stream(k) :
        (i < j /\ Stream(k)[i].req = Stream(k)[j].req)
            => Stream(k)[i].at < Stream(k)[j].at

\* However a request ends, by an answer, an exception, a lost Redis reply or a
\* kill, what became of its alarms is a prefix of it: no alarm is stored behind
\* one that was skipped; and an answer OK means that every alarm was stored or
\* refused by a full list (proxy.py:105-108, my_queue.py:160-164).
PrefixHandled ==
    \A r \in 1..Len(sent) :
        LET handled == {it.at : it \in {x \in Stored \cup dropped : x.req = r}}
        IN  /\ handled = 1..Cardinality(handled)
            /\ reply[r] = "OK" => handled = 1..Len(sent[r])

\* A full list that nobody reads refuses alarms but never holds up the worker:
\* every request is answered, or dies with its worker (my_queue.py:177-179).
Answered == \A r \in 1..MaxRequests : (r <= Len(sent)) ~> (reply[r] # "none")

\* An alarm stored in a list that has a consumer is taken from it
\* (my_queue.py:184-189).
Drained ==
    \A k \in Consumed : [](queue[k] # <<>> => <>(queue[k] = <<>>))
=============================================================================
