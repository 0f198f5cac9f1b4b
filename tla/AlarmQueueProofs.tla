-------------------------- MODULE AlarmQueueProofs --------------------------
(***************************************************************************)
(* Theorems about AlarmQueue, for every set of workers, keys and requests  *)
(* and every limit.                                                        *)
(***************************************************************************)
EXTENDS AlarmQueue, FiniteSetTheorems, SequenceTheorems, TLAPS

USE WorkersAssumption, KeysAssumption, LimitAssumption, BatchesAssumption,
    MaxRequestsAssumption

\* What the handler of a worker reads while it is busy is well defined, and
\* stays the same when a request is appended to sent.
LEMMA BatchType ==
    ASSUME TypeOK, NEW w \in Workers, pc[w] # "idle"
    PROVE  /\ request[w] \in 1..Len(sent)
           /\ Batch(w) \in Seq(Keys \cup {Bad})
           /\ More(w) => Alarm(w) \in Keys \cup {Bad}
           /\ Current(w) \in Item
  <1>1. /\ request[w] \in 1..Len(sent) /\ Len(sent) \in Nat
        /\ pos[w] \in Nat \ {0}
    BY DEF TypeOK, WorkerOK
  <1>2. Batch(w) \in Batches
    BY <1>1 DEF TypeOK, Batch
  <1>3. Batch(w) \in Seq(Keys \cup {Bad})
    BY <1>2
  <1> QED
    BY <1>1, <1>3 DEF More, Alarm, Current, Item

\* LPUSH keeps the lists well-typed.
LEMMA PushType ==
    ASSUME TypeOK, NEW w \in Workers, pc[w] = "push"
    PROVE  /\ Alarm(w) \in Keys
           /\ queue[Alarm(w)] \in Seq(Item)
           /\ [queue EXCEPT ![Alarm(w)] = Append(@, Current(w))] \in [Keys -> Seq(Item)]
  <1>1. Alarm(w) \in Keys
    BY DEF TypeOK, WorkerOK, Alarm, Batch
  <1>2. Current(w) \in Item
    BY BatchType
  <1>3. queue \in [Keys -> Seq(Item)]
    BY DEF TypeOK
  <1>4. Append(queue[Alarm(w)], Current(w)) \in Seq(Item)
    BY <1>1, <1>2, <1>3
  <1> QED
    BY <1>1, <1>3, <1>4

\* A worker a step does not touch stays well-formed when requests are posted.
LEMMA OtherWorkers ==
    ASSUME TypeOK, NEW v \in Workers,
           pc'[v] = pc[v], request'[v] = request[v], pos'[v] = pos[v],
           sent' = sent \/ \E b \in Batches : sent' = Append(sent, b)
    PROVE  WorkerOK(v)'
  <1>1. Len(sent) \in Nat
    BY DEF TypeOK
  <1>2. \A r \in 1..Len(sent) : r \in 1..Len(sent') /\ sent'[r] = sent[r]
    <2>1. CASE sent' = sent
      BY <2>1
    <2>2. ASSUME NEW b \in Batches, sent' = Append(sent, b)
          PROVE  \A r \in 1..Len(sent) : r \in 1..Len(sent') /\ sent'[r] = sent[r]
      BY <1>1, <2>2 DEF TypeOK
    <2> QED
      BY <2>1, <2>2
  <1>3. WorkerOK(v)
    BY DEF TypeOK
  <1> QED
    BY <1>1, <1>2, <1>3 DEF WorkerOK

\* A worker that ends its request leaves a well-typed state.
LEMMA FinishType ==
    ASSUME TypeOK, NEW w \in Workers, NEW a \in Replies,
           Finish(w, a), UNCHANGED <<sent, taken, dropped>>,
           queue' \in [Keys -> Seq(Item)]
    PROVE  TypeOK'
  <1>1. reply' \in [1..MaxRequests -> Replies]
    BY DEF TypeOK, Finish
  <1>2. /\ pc' \in [Workers -> {"idle", "item", "push"}]
        /\ request' \in [Workers -> Nat]
        /\ pos' \in [Workers -> Nat \ {0}]
    BY DEF TypeOK, Finish
  <1>3. \A v \in Workers : v # w => WorkerOK(v)'
    BY OtherWorkers DEF TypeOK, Finish
  <1>4. WorkerOK(w)'
    BY DEF TypeOK, Finish, WorkerOK
  <1> QED
    BY <1>1, <1>2, <1>3, <1>4 DEF TypeOK

\* Every variable keeps its type, and a busy worker serves a request that was
\* posted, at an index of it (my_queue.py:155-182, proxy.py:84-108).
THEOREM TypeCorrect == Spec => []TypeOK
  <1>1. Init => TypeOK
    BY DEF Init, TypeOK, WorkerOK, Replies
  <1>2. TypeOK /\ [Next]_vars => TypeOK'
    <2> SUFFICES ASSUME TypeOK, [Next]_vars PROVE TypeOK'
      OBVIOUS
    <2>1. ASSUME NEW w \in Workers, NEW b \in Batches, Receive(w, b)
          PROVE  TypeOK'
      <3>1. /\ sent' \in Seq(Batches) /\ Len(sent') = Len(sent) + 1
            /\ Len(sent') <= MaxRequests
            /\ sent'[Len(sent) + 1] = b
        BY <2>1 DEF TypeOK, Receive
      <3>2. \A v \in Workers : v # w => WorkerOK(v)'
        BY <2>1, OtherWorkers DEF TypeOK, Receive
      <3>3. /\ reply' \in [1..MaxRequests -> Replies]
            /\ pc' \in [Workers -> {"idle", "item", "push"}]
            /\ request' \in [Workers -> Nat]
        <4>1. CASE b = <<>>
          <5>1. /\ reply' = [reply EXCEPT ![Len(sent) + 1] = "rejected"]
                /\ UNCHANGED <<pc, request>>
            BY <2>1, <4>1 DEF Receive
          <5> QED
            BY <5>1 DEF TypeOK, Replies
        <4>2. CASE b # <<>>
          <5>1. /\ pc' = [pc EXCEPT ![w] = "item"]
                /\ request' = [request EXCEPT ![w] = Len(sent) + 1]
                /\ UNCHANGED reply
            BY <2>1, <4>2 DEF Receive
          <5>2. Len(sent) + 1 \in Nat
            BY DEF TypeOK
          <5> QED
            BY <5>1, <5>2 DEF TypeOK
        <4> QED
          BY <4>1, <4>2
      <3>4. WorkerOK(w)'
        BY <2>1, <3>1 DEF TypeOK, Receive, WorkerOK
      <3> QED
        BY <2>1, <3>1, <3>2, <3>3, <3>4 DEF TypeOK, Receive
    <2>2. ASSUME NEW w \in Workers, BadAlarm(w)
          PROVE  TypeOK'
      BY <2>2, FinishType DEF BadAlarm, TypeOK, Replies
    <2>3. ASSUME NEW w \in Workers, Admit(w)
          PROVE  TypeOK'
      <3>1. \A v \in Workers : v # w => WorkerOK(v)'
        BY <2>3, OtherWorkers DEF TypeOK, Admit
      <3>2. WorkerOK(w)'
        BY <2>3, BatchType DEF TypeOK, Admit, WorkerOK, More, Alarm, Batch
      <3> QED
        BY <2>3, <3>1, <3>2 DEF Admit, TypeOK
    <2>4. ASSUME NEW w \in Workers, Drop(w)
          PROVE  TypeOK'
      <3>0. /\ pc[w] = "item" /\ More(w)
            /\ request[w] \in 1..Len(sent) /\ Current(w) \in Item
            /\ pos[w] \in Nat \ {0}
        BY <2>4, BatchType DEF Drop, TypeOK
      <3>1. \A v \in Workers : v # w => WorkerOK(v)'
        BY <2>4, OtherWorkers DEF TypeOK, Drop
      <3>2. WorkerOK(w)'
        <4>1. /\ pos'[w] = pos[w] + 1 /\ UNCHANGED <<pc, request, sent>>
          BY <2>4 DEF TypeOK, Drop
        <4>2. Len(sent[request[w]]) \in Nat
          BY <3>0, BatchType DEF Batch
        <4> QED
          BY <3>0, <4>1, <4>2 DEF WorkerOK, More, Batch
      <3>3. dropped' \subseteq Item
        BY <2>4, <3>0 DEF TypeOK, Drop
      <3>4. pos' \in [Workers -> Nat \ {0}]
        BY <2>4, <3>0 DEF TypeOK, Drop
      <3> QED
        BY <2>4, <3>1, <3>2, <3>3, <3>4 DEF Drop, TypeOK
    <2>5. ASSUME NEW w \in Workers, Push(w)
          PROVE  TypeOK'
      <3>1. \A v \in Workers : v # w => WorkerOK(v)'
        BY <2>5, OtherWorkers DEF TypeOK, Push
      <3>2. WorkerOK(w)'
        BY <2>5, BatchType DEF TypeOK, Push, WorkerOK, More, Batch
      <3>3. /\ queue' \in [Keys -> Seq(Item)]
            /\ pos' \in [Workers -> Nat \ {0}]
            /\ pc' \in [Workers -> {"idle", "item", "push"}]
        BY <2>5, PushType DEF TypeOK, Push
      <3> QED
        BY <2>5, <3>1, <3>2, <3>3 DEF Push, TypeOK
    <2>6. ASSUME NEW w \in Workers, Respond(w)
          PROVE  TypeOK'
      BY <2>6, FinishType DEF Respond, TypeOK, Replies
    <2>7. ASSUME NEW w \in Workers, RedisError(w)
          PROVE  TypeOK'
      <3>1. queue' \in [Keys -> Seq(Item)]
        BY <2>7, PushType DEF RedisError, TypeOK
      <3> QED
        BY <2>7, <3>1, FinishType DEF RedisError, Replies
    <2>8. ASSUME NEW w \in Workers, Kill(w)
          PROVE  TypeOK'
      BY <2>8, FinishType DEF Kill, TypeOK, Replies
    <2>9. ASSUME NEW k \in Keys, Pop(k)
          PROVE  TypeOK'
      BY <2>9 DEF Pop, TypeOK, WorkerOK
    <2>10. CASE UNCHANGED vars
      BY <2>10 DEF vars, TypeOK, WorkerOK
    <2> QED
      BY <2>1, <2>2, <2>3, <2>4, <2>5, <2>6, <2>7, <2>8, <2>9, <2>10
      DEF Next, Work
  <1> QED
    BY <1>1, <1>2, PTL DEF Spec

-----------------------------------------------------------------------------
\* The workers between LLEN and LPUSH on a list have reserved, together with
\* the alarms in it, at most this much: what makes QueueBound inductive.
Reserved ==
    \A k \in Keys :
        Len(queue[k]) + Cardinality(AtPush(k)) <= Limit + Cardinality(Workers) - 1

\* Sets of workers are finite, so that their cardinalities can be compared.
LEMMA AtPushFinite ==
    ASSUME NEW k \in Keys
    PROVE  /\ IsFiniteSet(AtPush(k))
           /\ Cardinality(AtPush(k)) \in 0..Cardinality(Workers)
           /\ Cardinality(Workers) \in Nat \ {0}
  <1>1. AtPush(k) \in SUBSET Workers
    BY DEF AtPush
  <1>2. IsFiniteSet(AtPush(k)) /\ Cardinality(AtPush(k)) <= Cardinality(Workers)
    BY <1>1, FS_Subset
  <1>3. Cardinality(AtPush(k)) \in Nat /\ Cardinality(Workers) \in Nat
    BY <1>2, FS_CardinalityType
  <1>4. Cardinality(Workers) # 0
    BY FS_EmptySet
  <1> QED
    BY <1>2, <1>3, <1>4

\* A step that pushes nothing and admits nobody keeps the reservation.
LEMMA FewerReserved ==
    ASSUME TypeOK, Reserved, NEW k \in Keys,
           Len(queue'[k]) \in Nat, Len(queue'[k]) <= Len(queue[k]),
           AtPush(k)' \subseteq AtPush(k)
    PROVE  Len(queue'[k]) + Cardinality(AtPush(k)') <= Limit + Cardinality(Workers) - 1
  <1>1. /\ Cardinality(AtPush(k)') \in Nat
        /\ Cardinality(AtPush(k)') <= Cardinality(AtPush(k))
    BY AtPushFinite, FS_Subset, FS_CardinalityType
  <1>2. Cardinality(AtPush(k)) \in Nat /\ Cardinality(Workers) \in Nat
    BY AtPushFinite
  <1>3. Len(queue[k]) \in Nat
    BY DEF TypeOK
  <1> QED
    BY <1>1, <1>2, <1>3 DEF Reserved

\* An LPUSH gives back the place its worker had reserved.
LEMMA PushUsesReservation ==
    ASSUME TypeOK, Reserved, NEW w \in Workers, pc[w] = "push", pc'[w] # "push",
           \A v \in Workers : v # w => pc'[v] = pc[v] /\ Alarm(v)' = Alarm(v),
           queue' = [queue EXCEPT ![Alarm(w)] = Append(@, Current(w))]
    PROVE  Reserved'
  <1> SUFFICES ASSUME NEW k \in Keys
               PROVE  Len(queue'[k]) + Cardinality(AtPush(k)')
                        <= Limit + Cardinality(Workers) - 1
    BY DEF Reserved
  <1>1. AtPush(k)' = AtPush(k) \ {w}
    BY DEF AtPush
  <1>2. CASE Alarm(w) = k
    <2>1. Len(queue'[k]) = Len(queue[k]) + 1 /\ Len(queue[k]) \in Nat
      BY <1>2, PushType DEF TypeOK
    <2>2. w \in AtPush(k)
      BY <1>2 DEF AtPush
    <2>3. Cardinality(AtPush(k)') = Cardinality(AtPush(k)) - 1
      BY <1>1, <2>2, AtPushFinite, FS_RemoveElement
    <2>4. Cardinality(AtPush(k)) \in Nat /\ Cardinality(Workers) \in Nat
      BY AtPushFinite
    <2> QED
      BY <2>1, <2>3, <2>4 DEF Reserved
  <1>3. CASE Alarm(w) # k
    <2>1. queue'[k] = queue[k] /\ Len(queue[k]) \in Nat
      BY <1>3 DEF TypeOK
    <2>2. Len(queue'[k]) \in Nat /\ Len(queue'[k]) <= Len(queue[k])
      <3>1. Len(queue'[k]) = Len(queue[k])
        BY <2>1, Zenon
      <3> QED
        BY <2>1, <3>1
    <2>3. AtPush(k)' \subseteq AtPush(k)
      BY <1>1
    <2> QED
      BY <2>2, <2>3, FewerReserved
  <1> QED
    BY <1>2, <1>3

\* A list outgrows the limit by fewer alarms than there are workers.
THEOREM QueueBounded == Spec => []QueueBound
  <1>1. Init => Reserved
    <2> SUFFICES ASSUME Init, NEW k \in Keys
                 PROVE  Len(queue[k]) + Cardinality(AtPush(k))
                          <= Limit + Cardinality(Workers) - 1
      BY DEF Reserved
    <2>1. Len(queue[k]) = 0
      BY DEF Init
    <2> QED
      BY <2>1, AtPushFinite
  <1>2. TypeOK /\ TypeOK' /\ Reserved /\ [Next]_vars => Reserved'
    <2> SUFFICES ASSUME TypeOK, TypeOK', Reserved, [Next]_vars PROVE Reserved'
      OBVIOUS
    <2>0. \A k \in Keys : Len(queue[k]) \in Nat /\ Len(queue'[k]) \in Nat
      BY DEF TypeOK
    <2>1. ASSUME NEW w \in Workers, NEW b \in Batches, Receive(w, b)
          PROVE  Reserved'
      <3>1. \A k \in Keys : AtPush(k)' \subseteq AtPush(k)
        <4> SUFFICES ASSUME NEW k \in Keys, NEW v \in Workers, v \in AtPush(k)'
                     PROVE  v \in AtPush(k)
          BY DEF AtPush
        <4>1. v # w /\ pc[v] = "push" /\ request'[v] = request[v] /\ pos'[v] = pos[v]
          BY <2>1 DEF AtPush, Receive, TypeOK
        <4>2. request[v] \in 1..Len(sent)
          BY <4>1 DEF TypeOK, WorkerOK
        <4>3. sent'[request[v]] = sent[request[v]]
          BY <2>1, <4>2 DEF Receive, TypeOK
        <4> QED
          BY <4>1, <4>3 DEF AtPush, Alarm, Batch
      <3> QED
        BY <2>0, <2>1, <3>1, FewerReserved DEF Receive, Reserved
    <2>2. ASSUME NEW w \in Workers, NEW a \in Replies, Finish(w, a), UNCHANGED sent
          PROVE  /\ pc'[w] # "push"
                 /\ \A v \in Workers : v # w => pc'[v] = pc[v] /\ Alarm(v)' = Alarm(v)
                 /\ \A k \in Keys : AtPush(k)' \subseteq AtPush(k)
      <3>1. pc'[w] # "push"
        BY <2>2 DEF Finish, TypeOK
      <3>2. \A v \in Workers : v # w => pc'[v] = pc[v] /\ Alarm(v)' = Alarm(v)
        BY <2>2 DEF Finish, TypeOK, Alarm, Batch
      <3> QED
        BY <3>1, <3>2 DEF AtPush
    <2>3. ASSUME NEW w \in Workers, BadAlarm(w) \/ Respond(w) \/ Kill(w)
          PROVE  Reserved'
      <3>1. /\ \E a \in Replies : Finish(w, a)
            /\ UNCHANGED <<queue, sent>>
        BY <2>3 DEF BadAlarm, Respond, Kill, Replies
      <3> QED
        BY <2>0, <2>2, <3>1, FewerReserved DEF Reserved
    <2>4. ASSUME NEW w \in Workers, Admit(w)
          PROVE  Reserved'
      <3> SUFFICES ASSUME NEW k \in Keys
                   PROVE  Len(queue'[k]) + Cardinality(AtPush(k)')
                            <= Limit + Cardinality(Workers) - 1
        BY DEF Reserved
      <3>1. UNCHANGED <<queue, request, pos, sent>>
        BY <2>4 DEF Admit
      <3>2. CASE Alarm(w) = k
        <4>1. Len(queue'[k]) < Limit
          BY <2>4, <3>1, <3>2 DEF Admit
        <4>2. /\ Cardinality(AtPush(k)') \in 0..Cardinality(Workers)
              /\ Cardinality(Workers) \in Nat
          <5>1. AtPush(k)' \in SUBSET Workers
            BY DEF AtPush
          <5> QED
            BY <5>1, FS_Subset, FS_CardinalityType
        <4> QED
          BY <2>0, <4>1, <4>2
      <3>3. CASE Alarm(w) # k
        <4>1. AtPush(k)' \subseteq AtPush(k)
          BY <2>4, <3>1, <3>3 DEF Admit, AtPush, Alarm, Batch, TypeOK
        <4> QED
          BY <2>0, <3>1, <4>1, FewerReserved
      <3> QED
        BY <3>2, <3>3
    <2>5. ASSUME NEW w \in Workers, Drop(w)
          PROVE  Reserved'
      <3>1. \A k \in Keys : AtPush(k)' \subseteq AtPush(k)
        BY <2>5 DEF Drop, AtPush, Alarm, Batch, TypeOK
      <3> QED
        BY <2>0, <2>5, <3>1, FewerReserved DEF Drop, Reserved
    <2>6. ASSUME NEW w \in Workers, Push(w)
          PROVE  Reserved'
      <3>1. pc'[w] # "push"
        BY <2>6 DEF Push, TypeOK
      <3>2. \A v \in Workers : v # w => pc'[v] = pc[v] /\ Alarm(v)' = Alarm(v)
        BY <2>6 DEF Push, TypeOK, Alarm, Batch
      <3> QED
        BY <2>6, <3>1, <3>2, PushUsesReservation DEF Push
    <2>7. ASSUME NEW w \in Workers, RedisError(w)
          PROVE  Reserved'
      <3>1. Finish(w, "error") /\ "error" \in Replies /\ UNCHANGED sent
        BY <2>7 DEF RedisError, Replies
      <3>2. CASE UNCHANGED queue
        BY <2>0, <2>2, <3>1, <3>2, FewerReserved DEF Reserved
      <3>3. CASE /\ pc[w] = "push"
                 /\ queue' = [queue EXCEPT ![Alarm(w)] = Append(@, Current(w))]
        BY <2>2, <3>1, <3>3, PushUsesReservation
      <3> QED
        BY <2>7, <3>2, <3>3 DEF RedisError
    <2>8. ASSUME NEW q \in Keys, Pop(q)
          PROVE  Reserved'
      <3>1. \A k \in Keys : Len(queue'[k]) <= Len(queue[k])
        BY <2>8 DEF Pop, TypeOK
      <3>2. \A k \in Keys : AtPush(k)' = AtPush(k)
        BY <2>8 DEF Pop, AtPush, Alarm, Batch
      <3> QED
        BY <2>0, <3>1, <3>2, FewerReserved DEF Reserved
    <2>9. CASE UNCHANGED vars
      BY <2>9 DEF vars, Reserved, AtPush, Alarm, Batch
    <2> QED
      BY <2>1, <2>3, <2>4, <2>5, <2>6, <2>7, <2>8, <2>9 DEF Next, Work
  <1>3. TypeOK /\ Reserved => QueueBound
    <2> SUFFICES ASSUME TypeOK, Reserved, NEW k \in Keys
                 PROVE  Len(queue[k]) <= Limit + Cardinality(Workers) - 1
      BY DEF QueueBound
    <2>1. Len(queue[k]) \in Nat
      BY DEF TypeOK
    <2> QED
      BY <2>1, AtPushFinite DEF Reserved
  <1> QED
    BY <1>1, <1>2, <1>3, TypeCorrect, PTL DEF Spec

-----------------------------------------------------------------------------
\* What became of alarms: those pushed to a list, and those a full list refused.
Handled == Stored \cup dropped

\* The positions, in request r, of the alarms of S that came in it.
AtsOf(S, r) == {it.at : it \in {x \in S : x.req = r}}

Busy == {w \in Workers : pc[w] # "idle"}

\* No alarm comes from a request nobody posted yet.
FromPosted == \A it \in Handled : it.req \in 1..Len(sent)

\* A request is served by one worker, and is not answered while it is served.
OneServer ==
    /\ \A v, w \in Busy : request[v] = request[w] => v = w
    /\ \A w \in Busy : reply[request[w]] = "none"
    /\ \A r \in 1..MaxRequests : r > Len(sent) => reply[r] = "none"

\* A busy worker has handled exactly the alarms before the one it is at.
Progress == \A w \in Busy : AtsOf(Handled, request[w]) = 1..(pos[w] - 1)

\* What is handled of a request is its first n alarms, all of them when OK.
Prefix(r) ==
    \E n \in 0..Len(sent[r]) :
        /\ AtsOf(Handled, r) = 1..n
        /\ reply[r] = "OK" => n = Len(sent[r])

\* What makes RequestOrder and PrefixHandled inductive.
OrderInv ==
    /\ FromPosted
    /\ OneServer
    /\ Progress
    /\ \A r \in 1..Len(sent) : Prefix(r)
    /\ RequestOrder

\* A sequence appended to another, then one more element.
LEMMA ConcatAppend ==
    ASSUME NEW S, NEW s \in Seq(S), NEW t \in Seq(S), NEW x \in S
    PROVE  s \o Append(t, x) = Append(s \o t, x)
  <1> DEFINE u == s \o Append(t, x)
             v == Append(s \o t, x)
  <1>1. /\ Append(t, x) \in Seq(S) /\ Len(Append(t, x)) = Len(t) + 1
        /\ \A i \in 1..Len(t) : Append(t, x)[i] = t[i]
        /\ Append(t, x)[Len(t) + 1] = x
    BY AppendProperties
  <1>2. /\ s \o t \in Seq(S) /\ Len(s \o t) = Len(s) + Len(t)
        /\ \A i \in 1..Len(s) + Len(t) :
             (s \o t)[i] = IF i <= Len(s) THEN s[i] ELSE t[i - Len(s)]
    BY ConcatProperties
  <1>3. /\ u \in Seq(S) /\ Len(u) = Len(s) + Len(Append(t, x))
        /\ \A i \in 1..Len(s) + Len(Append(t, x)) :
             u[i] = IF i <= Len(s) THEN s[i] ELSE Append(t, x)[i - Len(s)]
    <2> DEFINE w == Append(t, x)
    <2>1. w \in Seq(S)
      BY <1>1
    <2> HIDE DEF w
    <2>2. /\ s \o w \in Seq(S) /\ Len(s \o w) = Len(s) + Len(w)
          /\ \A i \in 1..Len(s) + Len(w) :
               (s \o w)[i] = IF i <= Len(s) THEN s[i] ELSE w[i - Len(s)]
      BY <2>1, ConcatProperties
    <2> QED
      BY <2>2 DEF w
  <1>4. /\ v \in Seq(S) /\ Len(v) = Len(s \o t) + 1
        /\ \A i \in 1..Len(s \o t) : v[i] = (s \o t)[i]
        /\ v[Len(s \o t) + 1] = x
    BY <1>2, AppendProperties
  <1>5. Len(s) \in Nat /\ Len(t) \in Nat
    BY LenProperties
  <1> HIDE DEF u, v
  <1>6. Len(u) = Len(v)
    BY <1>1, <1>2, <1>3, <1>4, <1>5
  <1>7. ASSUME NEW i \in 1..Len(u)
        PROVE  u[i] = v[i]
    <2>0. i \in 1..Len(s) + Len(Append(t, x)) /\ i \in Nat
      BY <1>1, <1>3, <1>5
    <2>1. CASE i <= Len(s)
      <3>1. i \in 1..Len(s) + Len(t) /\ i \in 1..Len(s \o t)
        BY <1>2, <1>5, <2>0, <2>1
      <3>2. u[i] = s[i]
        BY <1>3, <2>0, <2>1
      <3> QED
        BY <1>2, <1>4, <2>1, <3>1, <3>2
    <2>2. CASE i > Len(s) /\ i # Len(u)
      <3>0. Len(u) = Len(s) + Len(t) + 1 /\ i <= Len(u)
        BY <1>1, <1>3, <1>5, <2>0
      <3>1. i - Len(s) \in 1..Len(t) /\ i \in 1..Len(s) + Len(t)
        BY <1>5, <2>0, <2>2, <3>0
      <3>2. u[i] = t[i - Len(s)]
        BY <1>1, <1>3, <1>5, <2>2, <3>1
      <3>3. v[i] = t[i - Len(s)]
        BY <1>2, <1>4, <1>5, <2>2, <3>1
      <3> QED
        BY <3>2, <3>3
    <2>3. CASE i = Len(u)
      <3>1. i - Len(s) = Len(t) + 1 /\ i = Len(s \o t) + 1 /\ i > Len(s)
        BY <1>1, <1>2, <1>3, <1>5, <2>3
      <3>2. u[i] = Append(t, x)[Len(t) + 1]
        BY <1>1, <1>3, <1>5, <3>1
      <3> QED
        BY <1>1, <1>4, <3>1, <3>2
    <2> QED
      BY <1>3, <1>5, <2>1, <2>2, <2>3
  <1>8. u = v
    BY <1>3, <1>4, <1>6, <1>7, SeqEqual
  <1> QED
    BY <1>8 DEF u, v

\* The head of a sequence moved to the end of the one before it.
LEMMA ConcatMove ==
    ASSUME NEW S, NEW s \in Seq(S), NEW t \in Seq(S), t # <<>>
    PROVE  Append(s, Head(t)) \o Tail(t) = s \o t
  <1> DEFINE u == Append(s, Head(t)) \o Tail(t)
             v == s \o t
  <1>1. /\ Head(t) \in S /\ Head(t) = t[1]
        /\ Tail(t) \in Seq(S) /\ Len(Tail(t)) = Len(t) - 1
        /\ \A i \in 1..Len(Tail(t)) : Tail(t)[i] = t[i + 1]
        /\ Len(t) \in Nat \ {0}
    BY HeadTailProperties, EmptySeq
  <1>2. /\ Append(s, Head(t)) \in Seq(S) /\ Len(Append(s, Head(t))) = Len(s) + 1
        /\ \A i \in 1..Len(s) : Append(s, Head(t))[i] = s[i]
        /\ Append(s, Head(t))[Len(s) + 1] = Head(t)
    BY <1>1, AppendProperties
  <1>3. /\ u \in Seq(S) /\ Len(u) = Len(Append(s, Head(t))) + Len(Tail(t))
        /\ \A i \in 1..Len(Append(s, Head(t))) + Len(Tail(t)) :
             u[i] = IF i <= Len(Append(s, Head(t))) THEN Append(s, Head(t))[i]
                    ELSE Tail(t)[i - Len(Append(s, Head(t)))]
    BY <1>1, <1>2, ConcatProperties
  <1>4. /\ v \in Seq(S) /\ Len(v) = Len(s) + Len(t)
        /\ \A i \in 1..Len(s) + Len(t) :
             v[i] = IF i <= Len(s) THEN s[i] ELSE t[i - Len(s)]
    BY ConcatProperties
  <1>5. Len(s) \in Nat
    BY LenProperties
  <1> HIDE DEF u, v
  <1>6. Len(u) = Len(v)
    BY <1>1, <1>2, <1>3, <1>4, <1>5
  <1>7. ASSUME NEW i \in 1..Len(u)
        PROVE  u[i] = v[i]
    <2>1. CASE i <= Len(s)
      <3>1. i \in 1..Len(s) /\ i <= Len(s) + 1 /\ i \in 1..Len(s) + Len(t)
        BY <1>1, <1>2, <1>3, <1>5, <2>1
      <3>2. u[i] = Append(s, Head(t))[i]
        BY <1>2, <1>3, <3>1
      <3> QED
        BY <1>2, <1>4, <2>1, <3>1, <3>2
    <2>2. CASE i = Len(s) + 1
      <3>1. i - Len(s) = 1 /\ i \in 1..Len(s) + Len(t) /\ ~(i <= Len(s))
        BY <1>1, <1>2, <1>3, <1>5, <2>2
      <3>2. u[i] = Head(t)
        BY <1>1, <1>2, <1>3, <1>5, <2>2
      <3>3. v[i] = t[1]
        BY <1>4, <3>1
      <3> QED
        BY <1>1, <3>2, <3>3
    <2>3. CASE i > Len(s) + 1
      <3>1. /\ i - (Len(s) + 1) \in 1..Len(Tail(t)) /\ i \in 1..Len(s) + Len(t)
            /\ i - (Len(s) + 1) + 1 = i - Len(s) /\ ~(i <= Len(s))
        BY <1>1, <1>2, <1>3, <1>5, <2>3
      <3>2. u[i] = Tail(t)[i - (Len(s) + 1)]
        BY <1>1, <1>2, <1>3, <1>5, <2>3, <3>1
      <3>3. v[i] = t[i - Len(s)]
        BY <1>4, <3>1
      <3> QED
        BY <1>1, <3>1, <3>2, <3>3
    <2> QED
      BY <1>3, <1>5, <2>1, <2>2, <2>3
  <1>8. u = v
    BY <1>3, <1>4, <1>6, <1>7, SeqEqual
  <1> QED
    BY <1>8 DEF u, v

\* An alarm added to a set adds its position to those of its request only.
LEMMA AtsAdd ==
    ASSUME NEW S, NEW x, NEW r
    PROVE  /\ x.req = r => AtsOf(S \cup {x}, r) = AtsOf(S, r) \cup {x.at}
           /\ x.req # r => AtsOf(S \cup {x}, r) = AtsOf(S, r)
  BY DEF AtsOf

\* What has been pushed to a list, popped or not, is a sequence of alarms.
LEMMA StreamType ==
    ASSUME TypeOK, NEW k \in Keys
    PROVE  /\ Stream(k) \in Seq(Item)
           /\ Len(Stream(k)) \in Nat
           /\ DOMAIN Stream(k) = 1..Len(Stream(k))
           /\ \A i \in DOMAIN Stream(k) : Stream(k)[i] \in Item
  <1>1. taken[k] \in Seq(Item) /\ queue[k] \in Seq(Item)
    BY DEF TypeOK
  <1>2. Stream(k) \in Seq(Item)
    BY <1>1, ConcatProperties DEF Stream
  <1> QED
    BY <1>2, LenProperties, ElementOfSeq

\* A pop moves an alarm from the list to what was taken from it.
LEMMA PopStream ==
    ASSUME TypeOK, NEW q \in Keys, Pop(q)
    PROVE  \A k \in Keys : Stream(k)' = Stream(k)
  <1> SUFFICES ASSUME NEW k \in Keys
               PROVE  Stream(k)' = Stream(k)
    OBVIOUS
  <1>0. taken[k] \in Seq(Item) /\ queue[k] \in Seq(Item)
    BY DEF TypeOK
  <1>1. CASE k = q
    <2>1. /\ queue[k] # <<>>
          /\ taken'[k] = Append(taken[k], Head(queue[k]))
          /\ queue'[k] = Tail(queue[k])
      BY <1>1 DEF Pop, TypeOK
    <2>2. Append(taken[k], Head(queue[k])) \o Tail(queue[k]) = taken[k] \o queue[k]
      BY <1>0, <2>1, ConcatMove
    <2> QED
      BY <2>1, <2>2 DEF Stream
  <1>2. CASE k # q
    BY <1>2 DEF Pop, TypeOK, Stream
  <1> QED
    BY <1>1, <1>2

\* A push appends the alarm of its worker to one stream.
LEMMA PushStream ==
    ASSUME TypeOK, NEW w \in Workers, pc[w] = "push", taken' = taken,
           queue' = [queue EXCEPT ![Alarm(w)] = Append(@, Current(w))]
    PROVE  \A k \in Keys :
             Stream(k)' = IF k = Alarm(w) THEN Append(Stream(k), Current(w))
                                          ELSE Stream(k)
  <1> SUFFICES ASSUME NEW k \in Keys
               PROVE  Stream(k)' = IF k = Alarm(w) THEN Append(Stream(k), Current(w))
                                                   ELSE Stream(k)
    OBVIOUS
  <1>0. taken[k] \in Seq(Item) /\ queue[k] \in Seq(Item) /\ Current(w) \in Item
    BY BatchType DEF TypeOK
  <1>1. CASE k = Alarm(w)
    <2>1. queue'[k] = Append(queue[k], Current(w))
      BY <1>1, PushType DEF TypeOK
    <2>2. taken[k] \o Append(queue[k], Current(w)) = Append(taken[k] \o queue[k], Current(w))
      <3>1. \A s, t \in Seq(Item) : \A x \in Item :
              s \o Append(t, x) = Append(s \o t, x)
        BY ConcatAppend
      <3> QED
        BY <1>0, <3>1, Zenon
    <2> QED
      BY <1>1, <2>1, <2>2, Zenon DEF Stream
  <1>2. CASE k # Alarm(w)
    <2>1. queue'[k] = queue[k]
      BY <1>2 DEF TypeOK
    <2> QED
      <3>1. Stream(k)' = Stream(k)
        BY <2>1 DEF Stream
      <3> QED
        BY <1>2, <3>1
  <1> QED
    BY <1>1, <1>2

\* A push adds one alarm to those stored.
LEMMA PushStored ==
    ASSUME TypeOK, NEW w \in Workers, pc[w] = "push", taken' = taken,
           queue' = [queue EXCEPT ![Alarm(w)] = Append(@, Current(w))]
    PROVE  Stored' = Stored \cup {Current(w)}
  <1> DEFINE c == Current(w)
  <1>1. Alarm(w) \in Keys /\ c \in Item
    BY PushType, BatchType
  <1>2. ASSUME NEW k \in Keys
        PROVE  ToSet(Stream(k))' = IF k = Alarm(w) THEN ToSet(Stream(k)) \cup {c}
                                                   ELSE ToSet(Stream(k))
    <2>1. CASE k = Alarm(w)
      <3>1. Stream(k)' = Append(Stream(k), c)
        BY <2>1, PushStream
      <3>2. \A s \in Seq(Item) : ToSet(Append(s, c)) = ToSet(s) \cup {c}
        <4> SUFFICES ASSUME NEW s \in Seq(Item)
                     PROVE  ToSet(Append(s, c)) = ToSet(s) \cup {c}
          OBVIOUS
        <4>1. /\ DOMAIN Append(s, c) = 1..(Len(s) + 1) /\ DOMAIN s = 1..Len(s)
              /\ Len(s) \in Nat
              /\ Append(s, c)[Len(s) + 1] = c
              /\ \A i \in 1..Len(s) : Append(s, c)[i] = s[i]
          BY <1>1, AppendProperties, LenProperties
        <4> HIDE DEF c
        <4>2. \A x \in ToSet(Append(s, c)) : x \in ToSet(s) \cup {c}
          BY <4>1 DEF ToSet
        <4>3. \A x \in ToSet(s) : x \in ToSet(Append(s, c))
          BY <4>1 DEF ToSet
        <4>4. c \in ToSet(Append(s, c))
          BY <4>1 DEF ToSet
        <4> QED
          BY <4>2, <4>3, <4>4
      <3>3. Stream(k) \in Seq(Item)
        BY StreamType
      <3>4. ToSet(Stream(k))' = ToSet(Append(Stream(k), c))
        BY <3>1, Zenon DEF ToSet
      <3> QED
        BY <2>1, <3>2, <3>3, <3>4, Zenon
    <2>2. CASE k # Alarm(w)
      BY <2>2, PushStream DEF ToSet
    <2> QED
      BY <2>1, <2>2
  <1> HIDE DEF c
  <1>3. Stored' = UNION {ToSet(Stream(k))' : k \in Keys}
    BY DEF Stored
  <1>4. \A x : x \in Stored' <=> x \in Stored \cup {c}
    BY <1>1, <1>2, <1>3 DEF Stored
  <1> QED
    BY <1>4 DEF c

\* Posting a request leaves those before it as they were.
LEMMA PostedKept ==
    ASSUME TypeOK, NEW b \in Batches, sent' = Append(sent, b)
    PROVE  /\ Len(sent) \in Nat /\ Len(sent') = Len(sent) + 1
           /\ \A r \in 1..Len(sent) : sent'[r] = sent[r]
           /\ sent'[Len(sent) + 1] = b
  BY DEF TypeOK

\* A step after which the same alarms are handled and the same workers serve
\* the same requests, at the same alarm, keeps the invariant.
LEMMA NothingHandled ==
    ASSUME TypeOK, OrderInv, Handled' = Handled, RequestOrder',
           UNCHANGED <<sent, request, pos, reply>>,
           Busy' = Busy
    PROVE  OrderInv'
  <1>1. FromPosted' /\ OneServer' /\ Progress'
    BY DEF OrderInv, FromPosted, OneServer, Progress
  <1>2. \A r \in 1..Len(sent) : Prefix(r)'
    BY DEF OrderInv, Prefix
  <1> QED
    BY <1>1, <1>2 DEF OrderInv

\* When the alarm a worker is at is handled, what is handled of its request is
\* one alarm longer, and nothing else changed.
LEMMA CurrentHandled ==
    ASSUME TypeOK, OrderInv, NEW w \in Busy, More(w),
           Handled' = Handled \cup {Current(w)}, sent' = sent
    PROVE  /\ FromPosted'
           /\ AtsOf(Handled', request[w]) = 1..pos[w]
           /\ pos[w] \in 0..Len(sent[request[w]])
           /\ \A r : r # request[w] => AtsOf(Handled', r) = AtsOf(Handled, r)
  <1>1. /\ w \in Workers /\ pc[w] # "idle" /\ pos[w] \in Nat \ {0}
        /\ request[w] \in 1..Len(sent)
    BY BatchType DEF Busy, TypeOK
  <1>2. Current(w).req = request[w] /\ Current(w).at = pos[w]
    BY DEF Current
  <1>3. FromPosted'
    BY <1>1, <1>2 DEF OrderInv, FromPosted
  <1> DEFINE H == Handled
             c == Current(w)
  <1>4. \A r : /\ c.req = r => AtsOf(H \cup {c}, r) = AtsOf(H, r) \cup {c.at}
               /\ c.req # r => AtsOf(H \cup {c}, r) = AtsOf(H, r)
    BY AtsAdd, Zenon
  <1>5. AtsOf(Handled, request[w]) = 1..(pos[w] - 1)
    BY DEF OrderInv, Progress
  <1>6. \A n \in Nat \ {0} : 1..(n - 1) \cup {n} = 1..n
    OBVIOUS
  <1>7. /\ AtsOf(Handled', request[w]) = AtsOf(Handled, request[w]) \cup {pos[w]}
        /\ \A r : r # request[w] => AtsOf(Handled', r) = AtsOf(Handled, r)
    BY <1>2, <1>4, Zenon
  <1>8. pos[w] \in 0..Len(sent[request[w]])
    <2>1. Len(Batch(w)) \in Nat
      BY <1>1, BatchType
    <2> QED
      BY <1>1, <2>1 DEF More, Batch
  <1> QED
    BY <1>1, <1>3, <1>5, <1>6, <1>7, <1>8, Zenon

\* A push keeps the alarms of one request in order: those of it already in the
\* list come before the one its worker is at.
LEMMA OrderPush ==
    ASSUME TypeOK, OrderInv, NEW w \in Workers, pc[w] = "push", taken' = taken,
           queue' = [queue EXCEPT ![Alarm(w)] = Append(@, Current(w))]
    PROVE  RequestOrder'
  <1> DEFINE c == Current(w)
  <1>1. /\ c \in Item /\ c.req = request[w] /\ c.at = pos[w]
        /\ pos[w] \in Nat \ {0}
    BY BatchType DEF Current, TypeOK
  <1>2. ASSUME NEW k \in Keys, NEW i \in DOMAIN Stream(k), Stream(k)[i].req = request[w]
        PROVE  Stream(k)[i].at \in 1..(pos[w] - 1)
    <2>1. Stream(k)[i] \in Handled
      BY DEF Handled, Stored, ToSet
    <2>2. Stream(k)[i].at \in AtsOf(Handled, request[w])
      BY <1>2, <2>1 DEF AtsOf
    <2> QED
      BY <2>2 DEF OrderInv, Progress, Busy
  <1> HIDE DEF c
  <1> SUFFICES ASSUME NEW k \in Keys,
                      NEW i \in DOMAIN Stream(k)', NEW j \in DOMAIN Stream(k)',
                      i < j, Stream(k)'[i].req = Stream(k)'[j].req
               PROVE  Stream(k)'[i].at < Stream(k)'[j].at
    BY Zenon DEF RequestOrder
  <1> DEFINE s == Stream(k)
             t == Stream(k)'
  <1>3. /\ s \in Seq(Item) /\ Len(s) \in Nat /\ DOMAIN s = 1..Len(s)
        /\ \A m \in 1..Len(s) : s[m] \in Item
    BY StreamType
  <1>4. \A m, n \in DOMAIN s : (m < n /\ s[m].req = s[n].req) => s[m].at < s[n].at
    BY DEF OrderInv, RequestOrder
  <1>5. t = IF k = Alarm(w) THEN Append(s, c) ELSE s
    BY PushStream, Zenon DEF c
  <1>6. CASE k # Alarm(w)
    BY <1>4, <1>5, <1>6
  <1>7. CASE k = Alarm(w)
    <2>1. /\ DOMAIN t = 1..(Len(s) + 1)
          /\ \A m \in 1..Len(s) : t[m] = s[m]
          /\ t[Len(s) + 1] = c
      <3>1. t = Append(s, c)
        BY <1>5, <1>7
      <3>2. /\ DOMAIN Append(s, c) = 1..(Len(s) + 1)
            /\ \A m \in 1..Len(s) : Append(s, c)[m] = s[m]
            /\ Append(s, c)[Len(s) + 1] = c
        BY <1>1, <1>3, AppendProperties, LenProperties
      <3> HIDE DEF t
      <3> QED
        BY <3>1, <3>2
    <2>2. \A m \in 1..Len(s) : s[m].req = request[w] => s[m].at \in 1..(pos[w] - 1)
      BY <1>2, <1>3
    <2>3. i \in 1..(Len(s) + 1) /\ j \in 1..(Len(s) + 1) /\ t[i].req = t[j].req
      BY <2>1
    <2> HIDE DEF s, t
    <2>4. t[i].at < t[j].at
      <3>1. i \in 1..Len(s) /\ t[i] = s[i]
        BY <1>3, <2>1, <2>3
      <3>2. CASE j \in 1..Len(s)
        <4>1. t[j] = s[j]
          BY <2>1, <3>2
        <4> QED
          BY <1>3, <1>4, <2>3, <3>1, <3>2, <4>1
      <3>3. CASE j = Len(s) + 1
        <4>1. t[j] = c
          BY <2>1, <3>3
        <4>2. s[i].at \in 1..(pos[w] - 1)
          BY <1>1, <2>2, <2>3, <3>1, <4>1
        <4> QED
          BY <1>1, <3>1, <4>1, <4>2
      <3> QED
        BY <1>3, <2>3, <3>2, <3>3
    <2> QED
      BY <2>4 DEF t
  <1> QED
    BY <1>6, <1>7

\* The handler of w ends, at the alarm it is at or after having pushed it.
LEMMA FinishOrder ==
    ASSUME TypeOK, OrderInv, NEW w \in Busy, NEW a \in Replies,
           Finish(w, a), sent' = sent, RequestOrder',
           \/ Handled' = Handled /\ (a = "OK" => ~More(w))
           \/ Handled' = Handled \cup {Current(w)} /\ More(w) /\ a # "OK"
    PROVE  OrderInv'
  <1> DEFINE q == request[w]
  <1>1. /\ w \in Workers /\ pc[w] # "idle" /\ pos[w] \in Nat \ {0}
        /\ q \in 1..Len(sent) /\ Len(sent) \in Nat /\ Len(sent) <= MaxRequests
        /\ Len(sent[q]) \in Nat
        /\ pos[w] <= Len(sent[q]) + 1
    BY BatchType DEF Busy, TypeOK, WorkerOK, Batch
  <1>2. /\ Busy' = Busy \ {w}
        /\ \A v \in Busy' : /\ v \in Busy /\ v # w
                            /\ request'[v] = request[v] /\ pos'[v] = pos[v]
                            /\ request[v] # q
    <2>1. Busy' = Busy \ {w}
      BY DEF Finish, Busy, TypeOK
    <2>2. \A v \in Workers : v # w => request'[v] = request[v] /\ pos'[v] = pos[v]
      BY DEF Finish, TypeOK
    <2>3. \A v \in Busy : request[v] = q => v = w
      BY DEF OrderInv, OneServer
    <2> QED
      BY <2>1, <2>2, <2>3 DEF Busy
  <1>3. /\ reply'[q] = a
        /\ \A r \in 1..MaxRequests : r # q => reply'[r] = reply[r]
    BY <1>1 DEF Finish, TypeOK
  <1>4. /\ FromPosted'
        /\ \A r : r # q => AtsOf(Handled', r) = AtsOf(Handled, r)
        /\ \E n \in 0..Len(sent[q]) : AtsOf(Handled', q) = 1..n
                                      /\ (a = "OK" => n = Len(sent[q]))
    <2>1. CASE Handled' = Handled /\ (a = "OK" => ~More(w))
      <3>1. AtsOf(Handled', q) = 1..(pos[w] - 1)
        BY <2>1 DEF OrderInv, Progress
      <3>2. a = "OK" => pos[w] - 1 = Len(sent[q])
        BY <1>1, <2>1 DEF More, Batch
      <3>3. pos[w] - 1 \in 0..Len(sent[q])
        BY <1>1
      <3> QED
        BY <2>1, <3>1, <3>2, <3>3 DEF OrderInv, FromPosted
    <2>2. CASE Handled' = Handled \cup {Current(w)} /\ More(w) /\ a # "OK"
      BY <2>2, CurrentHandled
    <2> QED
      BY <2>1, <2>2
  <1> HIDE DEF q
  <1>5. OneServer'
    <2>1. \A r \in 1..MaxRequests : r > Len(sent') => reply'[r] = "none"
      BY <1>1, <1>3 DEF OrderInv, OneServer
    <2>2. \A v \in Busy' : reply'[request'[v]] = "none"
      <3> SUFFICES ASSUME NEW v \in Busy' PROVE reply'[request'[v]] = "none"
        OBVIOUS
      <3>1. v \in Busy /\ request'[v] = request[v] /\ request[v] # q
        BY <1>2
      <3>2. request[v] \in 1..MaxRequests
        BY <1>1, <3>1, BatchType DEF Busy
      <3> QED
        BY <1>3, <3>1, <3>2 DEF OrderInv, OneServer
    <2>3. \A u, v \in Busy' : request'[u] = request'[v] => u = v
      BY <1>2 DEF OrderInv, OneServer
    <2> QED
      BY <2>1, <2>2, <2>3 DEF OneServer
  <1>6. Progress'
    BY <1>2, <1>4 DEF OrderInv, Progress
  <1>7. \A r \in 1..Len(sent) : Prefix(r)'
    <2> SUFFICES ASSUME NEW r \in 1..Len(sent) PROVE Prefix(r)'
      OBVIOUS
    <2>1. CASE r = q
      BY <1>3, <1>4, <2>1 DEF Prefix
    <2>2. CASE r # q
      <3>1. r \in 1..MaxRequests
        BY <1>1
      <3>2. reply'[r] = reply[r] /\ AtsOf(Handled', r) = AtsOf(Handled, r)
        BY <1>3, <1>4, <2>2, <3>1
      <3> QED
        BY <3>2 DEF OrderInv, Prefix
    <2> QED
      BY <2>1, <2>2
  <1> QED
    BY <1>4, <1>5, <1>6, <1>7 DEF OrderInv

\* The worker goes on to the next alarm of its request.
LEMMA AdvanceOrder ==
    ASSUME TypeOK, OrderInv, NEW w \in Busy, More(w), RequestOrder',
           Handled' = Handled \cup {Current(w)}, Busy' = Busy,
           pos' = [pos EXCEPT ![w] = @ + 1], UNCHANGED <<request, sent, reply>>
    PROVE  OrderInv'
  <1> DEFINE q == request[w]
  <1>1. /\ w \in Workers /\ pos[w] \in Nat \ {0} /\ q \in 1..Len(sent)
        /\ pos'[w] - 1 = pos[w]
        /\ \A v \in Workers : v # w => pos'[v] = pos[v]
    <2>1. w \in Workers /\ q \in 1..Len(sent)
      BY BatchType DEF Busy
    <2>2. pos[w] \in Nat \ {0} /\ pos'[w] = pos[w] + 1
      BY <2>1 DEF TypeOK
    <2>3. \A v \in Workers : v # w => pos'[v] = pos[v]
      BY DEF TypeOK
    <2> QED
      BY <2>1, <2>2, <2>3
  <1>2. /\ FromPosted'
        /\ AtsOf(Handled', q) = 1..pos[w]
        /\ pos[w] \in 0..Len(sent[q])
        /\ \A r : r # q => AtsOf(Handled', r) = AtsOf(Handled, r)
    BY CurrentHandled
  <1>3. OneServer'
    BY DEF OrderInv, OneServer
  <1>4. \A v \in Busy : v # w => request[v] # q
    BY DEF OrderInv, OneServer
  <1>5. reply[q] = "none"
    BY DEF OrderInv, OneServer
  <1> HIDE DEF q
  <1>6. Progress'
    <2> SUFFICES ASSUME NEW v \in Busy
                 PROVE  AtsOf(Handled', request[v]) = 1..(pos'[v] - 1)
      BY DEF Progress
    <2>1. CASE v = w
      BY <1>1, <1>2, <2>1 DEF q
    <2>2. CASE v # w
      BY <1>1, <1>2, <1>4, <2>2 DEF OrderInv, Progress, Busy
    <2> QED
      BY <2>1, <2>2
  <1>7. \A r \in 1..Len(sent) : Prefix(r)'
    <2> SUFFICES ASSUME NEW r \in 1..Len(sent) PROVE Prefix(r)'
      OBVIOUS
    <2>1. CASE r = q
      BY <1>2, <1>5, <2>1 DEF Prefix
    <2>2. CASE r # q
      BY <1>2, <2>2 DEF OrderInv, Prefix
    <2> QED
      BY <2>1, <2>2
  <1> QED
    BY <1>2, <1>3, <1>6, <1>7 DEF OrderInv

\* What is handled and the order in the streams depend on nothing but them.
LEMMA StreamsSame ==
    ASSUME OrderInv, \A k \in Keys : Stream(k)' = Stream(k)
    PROVE  Stored' = Stored /\ RequestOrder'
  <1>1. Stored' = UNION {ToSet(Stream(k))' : k \in Keys}
    BY DEF Stored
  <1>2. \A k \in Keys : ToSet(Stream(k))' = ToSet(Stream(k))
    BY DEF ToSet
  <1>3. Stored' = Stored
    BY <1>1, <1>2 DEF Stored
  <1>4. RequestOrder'
    BY DEF OrderInv, RequestOrder
  <1> QED
    BY <1>3, <1>4

\* A request that is posted starts with nothing handled.
LEMMA ReceiveOrder ==
    ASSUME TypeOK, OrderInv, NEW w \in Workers, NEW b \in Batches, Receive(w, b)
    PROVE  OrderInv'
  <1> DEFINE q == Len(sent) + 1
  <1>1. /\ Len(sent) \in Nat /\ Len(sent') = q
        /\ \A r \in 1..Len(sent) : sent'[r] = sent[r]
        /\ sent'[q] = b
        /\ q \in 1..MaxRequests /\ b \in Seq(Keys \cup {Bad})
    <2>1. sent' = Append(sent, b) /\ Len(sent) < MaxRequests
      BY DEF Receive
    <2>2. /\ Len(sent) \in Nat /\ Len(sent') = q
          /\ \A r \in 1..Len(sent) : sent'[r] = sent[r]
          /\ sent'[q] = b
      BY <2>1, PostedKept
    <2> QED
      BY <2>1, <2>2
  <1>2. Handled' = Handled /\ RequestOrder'
    BY StreamsSame DEF Receive, Handled, Stream
  <1>3. AtsOf(Handled, q) = {}
    BY <1>1 DEF OrderInv, FromPosted, AtsOf
  <1>4. FromPosted'
    BY <1>1, <1>2 DEF OrderInv, FromPosted
  <1>5. /\ w \notin Busy /\ pos'[w] = 1 /\ pos' = pos
        /\ \A v \in Busy : request[v] \in 1..Len(sent) /\ request[v] # q
        /\ \A v \in Workers : v # w => request'[v] = request[v]
        /\ \A r \in 1..MaxRequests : r # q => reply'[r] = reply[r]
        /\ reply'[q] \in {"none", "rejected"}
    <2>1. w \notin Busy /\ pos'[w] = 1 /\ pos' = pos
      BY DEF Receive, Busy, TypeOK, WorkerOK
    <2>2. \A v \in Busy : request[v] \in 1..Len(sent) /\ request[v] # q
      BY <1>1, BatchType DEF Busy
    <2>3. \A v \in Workers : v # w => request'[v] = request[v]
      BY DEF Receive, TypeOK
    <2>4. reply[q] = "none"
      BY <1>1 DEF OrderInv, OneServer
    <2>5. /\ \A r \in 1..MaxRequests : r # q => reply'[r] = reply[r]
          /\ reply'[q] \in {"none", "rejected"}
      BY <1>1, <2>4 DEF Receive, TypeOK
    <2> QED
      BY <2>1, <2>2, <2>3, <2>5
  <1>6. /\ Busy \subseteq Busy' /\ Busy' \subseteq Busy \cup {w}
        /\ w \in Busy' => request'[w] = q /\ reply'[q] = "none"
    <2>1. CASE b = <<>>
      BY <1>5, <2>1 DEF Receive, Busy
    <2>2. CASE b # <<>>
      <3>1. /\ pc' = [pc EXCEPT ![w] = "item"]
            /\ request' = [request EXCEPT ![w] = q]
            /\ reply' = reply
        BY <2>2 DEF Receive
      <3>2. reply[q] = "none"
        BY <1>1 DEF OrderInv, OneServer
      <3> QED
        BY <1>5, <3>1, <3>2 DEF Busy, TypeOK
    <2> QED
      BY <2>1, <2>2
  <1> HIDE DEF q
  <1>7. OneServer'
    <2>1. \A r \in 1..MaxRequests : r > Len(sent') => reply'[r] = "none"
      BY <1>1, <1>5 DEF OrderInv, OneServer, q
    <2>2. \A v \in Busy' : reply'[request'[v]] = "none"
      <3> SUFFICES ASSUME NEW v \in Busy' PROVE reply'[request'[v]] = "none"
        OBVIOUS
      <3>1. CASE v = w
        BY <1>6, <3>1
      <3>2. CASE v # w
        <4>1. v \in Busy /\ request'[v] = request[v] /\ request[v] # q
          BY <1>5, <1>6, <3>2 DEF Busy
        <4>2. request[v] \in 1..MaxRequests
          BY <1>1, <1>5, <4>1 DEF q
        <4> QED
          BY <1>5, <4>1, <4>2 DEF OrderInv, OneServer
      <3> QED
        BY <3>1, <3>2
    <2>3. \A u, v \in Busy' : request'[u] = request'[v] => u = v
      BY <1>5, <1>6 DEF OrderInv, OneServer, Busy
    <2> QED
      BY <2>1, <2>2, <2>3 DEF OneServer
  <1>8. Progress'
    <2> SUFFICES ASSUME NEW v \in Busy'
                 PROVE  AtsOf(Handled, request'[v]) = 1..(pos'[v] - 1)
      BY <1>2 DEF Progress
    <2>1. CASE v = w
      <3>1. 1..(pos'[v] - 1) = {}
        BY <1>5, <2>1
      <3> QED
        BY <1>3, <1>6, <2>1, <3>1
    <2>2. CASE v # w
      BY <1>5, <1>6, <2>2 DEF OrderInv, Progress, Busy
    <2> QED
      BY <2>1, <2>2
  <1>9. \A r \in 1..Len(sent') : Prefix(r)'
    <2> SUFFICES ASSUME NEW r \in 1..q PROVE Prefix(r)'
      BY <1>1
    <2>1. CASE r = q
      <3>1. /\ sent'[r] = b /\ Len(b) \in Nat /\ reply'[r] # "OK"
            /\ AtsOf(Handled', r) = 1..0
        BY <1>1, <1>2, <1>3, <1>5, <2>1
      <3> QED
        BY <3>1 DEF Prefix
    <2>2. CASE r # q
      <3>1. r \in 1..Len(sent) /\ r \in 1..MaxRequests
        BY <1>1, <2>2 DEF q
      <3>2. reply'[r] = reply[r] /\ sent'[r] = sent[r] /\ Handled' = Handled
        BY <1>1, <1>2, <1>5, <2>2, <3>1
      <3> QED
        BY <3>1, <3>2 DEF OrderInv, Prefix
    <2> QED
      BY <2>1, <2>2
  <1> QED
    BY <1>2, <1>4, <1>7, <1>8, <1>9 DEF OrderInv

\* At the start nothing is posted and nothing handled.
LEMMA InitOrder == Init => OrderInv
  <1> SUFFICES ASSUME Init PROVE OrderInv
    OBVIOUS
  <1>1. \A k \in Keys : Stream(k) = <<>>
    <2>1. <<>> \o <<>> = <<>>
      BY EmptySeq, ConcatEmptySeq
    <2> QED
      BY <2>1 DEF Init, Stream
  <1>2. Handled = {}
    BY <1>1 DEF Init, Handled, Stored, ToSet
  <1>3. RequestOrder
    BY <1>1 DEF RequestOrder
  <1>4. Busy = {} /\ Len(sent) = 0
    BY DEF Init, Busy
  <1>5. \A r \in 1..MaxRequests : reply[r] = "none"
    BY DEF Init
  <1> QED
    BY <1>2, <1>3, <1>4, <1>5 DEF OrderInv, FromPosted, OneServer, Progress

\* Every step keeps what was handled of a request a prefix of it, in order.
LEMMA StepOrder == TypeOK /\ OrderInv /\ [Next]_vars => OrderInv'
  <1> SUFFICES ASSUME TypeOK, OrderInv, [Next]_vars PROVE OrderInv'
    OBVIOUS
  <1>0. ASSUME UNCHANGED <<queue, taken>>
        PROVE  Stored' = Stored /\ RequestOrder'
    BY <1>0, StreamsSame DEF Stream
  <1>1. ASSUME NEW w \in Workers, NEW b \in Batches, Receive(w, b)
        PROVE  OrderInv'
    BY <1>1, ReceiveOrder
  <1>2. ASSUME NEW w \in Workers, BadAlarm(w) \/ Respond(w) \/ Kill(w)
        PROVE  OrderInv'
    <2>1. /\ w \in Busy /\ UNCHANGED <<queue, taken, sent, dropped>>
          /\ \E a \in Replies : Finish(w, a) /\ (a = "OK" => ~More(w))
      BY <1>2 DEF BadAlarm, Respond, Kill, Busy, Replies
    <2>2. Handled' = Handled /\ RequestOrder'
      BY <1>0, <2>1 DEF Handled
    <2> QED
      BY <2>1, <2>2, FinishOrder
  <1>3. ASSUME NEW w \in Workers, Admit(w)
        PROVE  OrderInv'
    <2>1. UNCHANGED <<queue, taken, sent, request, pos, reply, dropped>>
      BY <1>3 DEF Admit
    <2>2. Busy' = Busy
      BY <1>3 DEF Admit, Busy, TypeOK
    <2> QED
      BY <1>0, <2>1, <2>2, NothingHandled DEF Handled
  <1>4. ASSUME NEW w \in Workers, Drop(w)
        PROVE  OrderInv'
    <2>1. /\ w \in Busy /\ More(w) /\ Busy' = Busy
          /\ UNCHANGED <<queue, taken, sent, request, reply>>
          /\ pos' = [pos EXCEPT ![w] = @ + 1]
      BY <1>4 DEF Drop, Busy
    <2>2. Handled' = Handled \cup {Current(w)}
      BY <1>0, <1>4, <2>1 DEF Handled, Drop
    <2> QED
      BY <1>0, <2>1, <2>2, AdvanceOrder
  <1>5. ASSUME NEW w \in Workers, Push(w)
        PROVE  OrderInv'
    <2>1. /\ w \in Busy /\ More(w)
          /\ UNCHANGED <<taken, sent, request, reply, dropped>>
          /\ pos' = [pos EXCEPT ![w] = @ + 1]
      BY <1>5 DEF Push, Busy, TypeOK, WorkerOK, More, Batch
    <2>2. Busy' = Busy
      BY <1>5 DEF Push, Busy, TypeOK
    <2>3. Handled' = Handled \cup {Current(w)}
      BY <1>5, <2>1, PushStored DEF Handled, Push
    <2>4. RequestOrder'
      BY <1>5, <2>1, OrderPush DEF Push
    <2> QED
      BY <2>1, <2>2, <2>3, <2>4, AdvanceOrder
  <1>6. ASSUME NEW w \in Workers, RedisError(w)
        PROVE  OrderInv'
    <2>1. /\ w \in Busy /\ More(w) /\ UNCHANGED <<taken, sent, dropped>>
          /\ Finish(w, "error") /\ "error" \in Replies
      BY <1>6 DEF RedisError, Busy, Replies
    <2>2. CASE UNCHANGED queue
      BY <1>0, <2>1, <2>2, FinishOrder DEF Handled
    <2>3. CASE /\ pc[w] = "push"
               /\ queue' = [queue EXCEPT ![Alarm(w)] = Append(@, Current(w))]
      <3>1. Handled' = Handled \cup {Current(w)}
        BY <2>1, <2>3, PushStored DEF Handled
      <3>2. RequestOrder'
        BY <2>1, <2>3, OrderPush
      <3> QED
        BY <2>1, <3>1, <3>2, FinishOrder
    <2> QED
      BY <1>6, <2>2, <2>3 DEF RedisError
  <1>7. ASSUME NEW k \in Keys, Pop(k)
        PROVE  OrderInv'
    <2>1. UNCHANGED <<sent, pc, request, pos, reply, dropped>>
      BY <1>7 DEF Pop
    <2>2. Stored' = Stored /\ RequestOrder'
      BY <1>7, PopStream, StreamsSame
    <2> QED
      BY <2>1, <2>2, NothingHandled DEF Handled, Busy
  <1>8. CASE UNCHANGED vars
    <2>1. UNCHANGED <<queue, taken, sent, pc, request, pos, reply, dropped>>
      BY <1>8 DEF vars
    <2> QED
      BY <1>0, <2>1, NothingHandled DEF Handled, Busy
  <1> QED
    BY <1>1, <1>2, <1>3, <1>4, <1>5, <1>6, <1>7, <1>8 DEF Next, Work

\* In every reachable state the handled alarms of each request are a prefix of
\* it, in order.
LEMMA OrderInvariant == Spec => []OrderInv
  BY InitOrder, StepOrder, TypeCorrect, PTL DEF Spec

\* The alarms of one request that share a list leave it in the order of the
\* request, and none twice (my_queue.py:155-166, 180, 185).
THEOREM InRequestOrder == Spec => []RequestOrder
  <1>1. OrderInv => RequestOrder
    BY DEF OrderInv
  <1> QED
    BY <1>1, OrderInvariant, PTL

\* What became of the alarms of a request is a prefix of it, all of it when the
\* client got OK (proxy.py:105-108, my_queue.py:160-164).
THEOREM HandledPrefix == Spec => []PrefixHandled
  <1>1. TypeOK /\ OrderInv => PrefixHandled
    <2> SUFFICES ASSUME TypeOK, OrderInv, NEW r \in 1..Len(sent)
                 PROVE  LET handled == {it.at : it \in {x \in Stored \cup dropped : x.req = r}}
                        IN  /\ handled = 1..Cardinality(handled)
                            /\ reply[r] = "OK" => handled = 1..Len(sent[r])
      BY DEF PrefixHandled
    <2> DEFINE handled == {it.at : it \in {x \in Stored \cup dropped : x.req = r}}
    <2>1. handled = AtsOf(Handled, r)
      BY DEF AtsOf, Handled
    <2>2. PICK n \in 0..Len(sent[r]) : /\ AtsOf(Handled, r) = 1..n
                                       /\ reply[r] = "OK" => n = Len(sent[r])
      BY DEF OrderInv, Prefix
    <2>3. Len(sent[r]) \in Nat
      <3>1. sent[r] \in Batches
        BY DEF TypeOK
      <3> QED
        BY <3>1
    <2>4. n \in Nat
      BY <2>2, <2>3
    <2>5. Cardinality(1..n) = n
      <3>1. Cardinality(1..n) = IF 1 > n THEN 0 ELSE n - 1 + 1
        BY <2>4, FS_Interval
      <3> QED
        BY <2>4, <3>1
    <2> HIDE DEF handled
    <2>6. handled = 1..Cardinality(handled) /\ (reply[r] = "OK" => handled = 1..Len(sent[r]))
      BY <2>1, <2>2, <2>5
    <2> QED
      BY <2>6 DEF handled
  <1> QED
    BY <1>1, OrderInvariant, TypeCorrect, PTL
=============================================================================
