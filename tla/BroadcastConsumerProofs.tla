----------------------- MODULE BroadcastConsumerProofs -----------------------
(***************************************************************************)
(* Theorems about BroadcastConsumer, for every set of packets, every batch   *)
(* and cache size and any number of exceptions and kills.                   *)
(***************************************************************************)
EXTENDS BroadcastConsumer, SequenceTheorems, TLAPS

USE PacketsAssumption, StepAssumption, BoundsAssumption

\* A process that waits for a packet has room for it, one that handles a batch has
\* a packet to handle, and a dead one has nothing.
Flow ==
    /\ pc = "fetch" => Len(batch) < Step
    /\ pc = "handle" => batch # <<>>
    /\ pc = "dead" => batch = <<>>

\* The types of what the process has in memory.
Memory ==
    /\ pc \in {"fetch", "handle", "flush", "dump", "dead"}
    /\ batch \in Seq(Packets) /\ Len(batch) <= Step
    /\ Cached \subseteq Hashes /\ msgs \in [Cached -> Message]
    /\ raw \in 0..(CacheNum + 1) /\ (raw > CacheNum => pc = "flush" \/ catchesErrors)
    /\ todo \cup removed \subseteq Cached /\ todo \cap removed = {}
    /\ (todo \cup removed # {} => pc = "dump")

\* The types of the rest.
Outside ==
    /\ catchesErrors \in Modes /\ catchesErrors \in BOOLEAN
    /\ queue \in Seq(Packets) /\ Len(queue) <= MaxQueue
    /\ due \in BOOLEAN
    /\ dumps \in [Hashes -> Seq(SUBSET Nodes)]

Counts ==
    /\ posts \in Nat /\ failures \in Nat
    /\ sends \in [Hashes -> Nat] /\ heard \in [Hashes -> SUBSET Nodes]

Inv == Memory /\ Outside /\ Counts /\ Flow

\* Memory that no step touched.
LEMMA MemoryKept ==
    ASSUME Memory, Flow, UNCHANGED <<memory, catchesErrors>>
    PROVE  Memory' /\ Flow'
  BY DEF Memory, Flow, memory, Cached

\* The empty batch.
LEMMA NoBatch == <<>> \in Seq(Packets) /\ Len(<<>>) = 0 /\ 0 < Step
  BY EmptySeq

\* Death leaves an empty memory.
LEMMA DieMemory ==
    ASSUME Die
    PROVE  Memory' /\ Flow'
  BY NoBatch DEF Die, Memory, Flow, Cached, NoMessages

\* An exception that is caught leaves msg_cache as it was.
LEMMA RaiseMemory ==
    ASSUME Memory, Outside, Raise, UNCHANGED catchesErrors
    PROVE  Memory' /\ Flow'
  <1>1. CASE catchesErrors
    BY <1>1, NoBatch DEF Raise, Memory, Flow, Cached
  <1>2. CASE ~catchesErrors
    BY <1>2, DieMemory DEF Raise
  <1> QED
    BY <1>1, <1>2

\* What this process heard is forgotten with it, or kept.
LEMMA RaiseHeard ==
    ASSUME Counts, Raise
    PROVE  heard' \in [Hashes -> SUBSET Nodes]
  BY DEF Counts, Raise, Die

\* The next packet, or the next BRPOP.
LEMMA ContinueFlow ==
    ASSUME NEW rest \in Seq(Packets)
    PROVE  /\ Continue(rest) \in {"fetch", "handle"}
           /\ Continue(rest) = "fetch" => Len(rest) < Step
           /\ Continue(rest) = "handle" => rest # <<>>
  BY NoBatch DEF Continue

\* After the raw row of a packet.
LEMMA CheckMemory ==
    ASSUME Check(msgs', batch'), due \in BOOLEAN, removed' = {}, todo = {},
           batch' \in Seq(Packets), Len(batch') <= Step,
           Cached' \subseteq Hashes, msgs' \in [Cached' -> Message],
           raw' \in 0..CacheNum
    PROVE  Memory' /\ Flow'
  <1>1. CASE due
    BY <1>1 DEF Check, Memory, Flow, Cached
  <1>2. CASE ~due
    <2>1. pc' = Continue(batch') /\ todo' = {}
      BY <1>2 DEF Check
    <2> QED
      BY <2>1, ContinueFlow DEF Memory, Flow
  <1> QED
    BY <1>1, <1>2

\* A message after a packet is a message.
LEMMA JoinedMessage ==
    ASSUME NEW m \in Message, NEW p \in Packets
    PROVE  Joined(m, p) \subseteq Message
  <1>1. CASE IsSend(p)
    BY <1>1 DEF Joined, Message
  <1>2. CASE ~IsSend(p)
    <2> DEFINE n == [m EXCEPT !.recv = @ \cup {p.node},
                     !.partial = IF p.type = "partial" THEN @ \cup {p.node} ELSE @ \ {p.node}]
    <2>1. p.node \in Nodes
      OBVIOUS
    <2>2. n \in Message
      BY <2>1 DEF Message
    <2> QED
      BY <1>2, <2>2 DEF Joined
  <1> QED
    BY <1>1, <1>2

\* A packet taken from the queue joins the batch.
LEMMA FetchInv == Inv /\ Fetch /\ UNCHANGED catchesErrors => Inv'
  <1> SUFFICES ASSUME Inv, Fetch, UNCHANGED catchesErrors PROVE Inv'
    OBVIOUS
  <1>1. Memory /\ Outside /\ Counts /\ Flow
    BY DEF Inv
  <1>2. /\ Head(queue) \in Packets /\ Tail(queue) \in Seq(Packets)
        /\ Len(Tail(queue)) = Len(queue) - 1 /\ Len(queue) \in Nat
    BY <1>1, HeadTailProperties, LenProperties DEF Fetch, Outside
  <1>3. Outside' /\ Counts'
    BY <1>1, <1>2 DEF Fetch, Outside, Counts, history
  <1>4. /\ batch' \in Seq(Packets) /\ Len(batch') = Len(batch) + 1 /\ batch' # <<>>
        /\ Len(batch) \in Nat
    BY <1>1, <1>2, AppendProperties, LenProperties DEF Fetch, Memory
  <1>5. /\ Len(batch) < Step
        /\ pc' = IF Len(batch') = Step THEN "handle" ELSE "fetch"
        /\ UNCHANGED <<msgs, raw, todo, removed>> /\ pc = "fetch"
    BY <1>1 DEF Fetch, Flow
  <1>6. Flow'
    BY <1>4, <1>5 DEF Flow
  <1>7. Memory'
    BY <1>1, <1>4, <1>5 DEF Memory, Cached
  <1> QED
    BY <1>3, <1>6, <1>7 DEF Inv

\* A packet handled joins its message's row, or fails.
LEMMA HandleInv == Inv /\ Handle /\ UNCHANGED catchesErrors => Inv'
  <1> SUFFICES ASSUME Inv, Handle, UNCHANGED catchesErrors PROVE Inv'
    OBVIOUS
  <1> DEFINE p == Head(batch)
             m == IF p.hash \in Cached THEN msgs[p.hash] ELSE Template
  <1>1. Memory /\ Outside /\ Counts /\ Flow
    BY DEF Inv
  <1>2. /\ p \in Packets /\ batch' \in Seq(Packets)
        /\ Len(batch') = Len(batch) - 1 /\ Len(batch) \in Nat
    BY <1>1, HeadTailProperties, LenProperties DEF Handle, Memory, Flow
  <1>3. p.hash \in Hashes /\ p.node \in Nodes
    BY <1>2
  <1>4. m \in Message
    BY <1>1 DEF Memory, Message, Template
  <1>5. PICK n \in Joined(m, p) :
            msgs' = [h \in Cached \cup {p.hash} |-> IF h = p.hash THEN n ELSE msgs[h]]
    BY DEF Handle
  <1>6. n \in Message
    BY <1>2, <1>4, <1>5, JoinedMessage
  <1>7. /\ Cached' = Cached \cup {p.hash} /\ Cached' \subseteq Hashes
        /\ msgs' \in [Cached' -> Message]
    BY <1>1, <1>3, <1>5, <1>6 DEF Cached, Memory
  <1>8. Outside'
    BY <1>1 DEF Handle, Outside
  <1>9. Counts'
    <2>1. sends' \in [Hashes -> Nat]
      <3>1. sends' = [sends EXCEPT ![p.hash] = IF IsSend(p) THEN @ + 1 ELSE @]
        BY DEF Handle
      <3>2. sends[p.hash] \in Nat
        BY <1>1, <1>3 DEF Counts
      <3>3. CASE IsSend(p)
        <4>1. sends' = [sends EXCEPT ![p.hash] = sends[p.hash] + 1]
          BY <3>1, <3>3
        <4>2. sends \in [Hashes -> Nat]
          BY <1>1 DEF Counts
        <4> DEFINE k == sends[p.hash] + 1
        <4>3. k \in Nat /\ sends' = [sends EXCEPT ![p.hash] = k]
          BY <3>2, <4>1
        <4> HIDE DEF p, k
        <4> QED
          BY <4>2, <4>3
      <3>4. CASE ~IsSend(p)
        <4>1. sends' = [sends EXCEPT ![p.hash] = sends[p.hash]]
          BY <3>1, <3>4
        <4> HIDE DEF p
        <4> QED
          BY <1>1, <3>2, <4>1 DEF Counts
      <3> QED
        BY <3>3, <3>4
    <2>2. heard' \in [Hashes -> SUBSET Nodes]
      BY <1>1, <1>3 DEF Handle, Counts
    <2> QED
      BY <1>1, <2>1, <2>2 DEF Handle, Counts
  <1>10. todo = {} /\ removed = {} /\ removed' = {}
    BY <1>1 DEF Memory, Handle
  <1>11. CASE raw >= CacheNum
    <2>1. raw' = CacheNum + 1 /\ pc' = "flush" /\ todo' = {}
      BY <1>10, <1>11 DEF Handle
    <2> QED
      BY <1>2, <1>1, <1>7, <1>8, <1>9, <1>10, <2>1 DEF Memory, Flow, Inv
  <1>12. CASE ~(raw >= CacheNum)
    <2>1. raw' = raw + 1 /\ Check(msgs', batch')
      BY <1>12 DEF Handle
    <2>2. raw' \in 0..CacheNum
      BY <1>1, <1>12, <2>1 DEF Memory
    <2>3. Memory' /\ Flow'
      BY <1>1, <1>2, <1>7, <1>10, <2>1, <2>2, CheckMemory DEF Outside, Memory
    <2> QED
      BY <1>8, <1>9, <2>3 DEF Inv
  <1> QED
    BY <1>11, <1>12

\* The raw rows are written and the messages checked, or the write fails.
LEMMA FlushInv == Inv /\ Flush /\ UNCHANGED catchesErrors => Inv'
  <1> SUFFICES ASSUME Inv, Flush, UNCHANGED catchesErrors PROVE Inv'
    OBVIOUS
  <1>1. Memory /\ Outside /\ Counts /\ Flow
    BY DEF Inv
  <1>2. Outside'
    BY <1>1 DEF Flush, Outside
  <1>3. CASE /\ raw' = 0 /\ Check(msgs, batch)
             /\ UNCHANGED <<batch, msgs, removed, failures, heard>>
    <2>1. Counts'
      BY <1>1, <1>3 DEF Counts, Flush
    <2>2. Cached' = Cached /\ raw' \in 0..CacheNum /\ todo = {} /\ removed' = {}
      BY <1>1, <1>3 DEF Cached, Memory, Flush
    <2>3. Check(msgs', batch')
      BY <1>3 DEF Check
    <2>4. Memory' /\ Flow'
      BY <1>1, <1>3, <2>2, <2>3, CheckMemory DEF Memory, Outside
    <2> QED
      BY <1>2, <2>1, <2>4 DEF Inv
  <1>4. CASE MayFail /\ failures' = failures + 1 /\ Raise
    <2>1. Counts'
      BY <1>1, <1>4, RaiseHeard DEF Counts, Flush
    <2> QED
      BY <1>1, <1>2, <1>4, <2>1, RaiseMemory DEF Inv
  <1> QED
    BY <1>3, <1>4 DEF Flush

\* The row of one message more.
LEMMA WrittenType ==
    ASSUME Memory, Outside, NEW h \in Cached
    PROVE  /\ Written(h) \in [Hashes -> Seq(SUBSET Nodes)]
           /\ Written(h)[h] = Append(dumps[h], msgs[h].recv)
           /\ \A g \in Hashes \ {h} : Written(h)[g] = dumps[g]
           /\ h \in Hashes
  <1>1. h \in Hashes /\ msgs[h].recv \in SUBSET Nodes
    BY DEF Memory, Message
  <1>2. Append(dumps[h], msgs[h].recv) \in Seq(SUBSET Nodes)
    BY <1>1, AppendProperties DEF Outside
  <1> QED
    BY <1>1, <1>2 DEF Written, Outside

\* A row written stays in the cache until the dump is over.
LEMMA DumpInv == Inv /\ Dump /\ UNCHANGED catchesErrors => Inv'
  <1> SUFFICES ASSUME Inv, Dump, UNCHANGED catchesErrors PROVE Inv'
    OBVIOUS
  <1>1. Memory /\ Outside /\ Counts /\ Flow
    BY DEF Inv
  <1>2. pc = "dump" /\ UNCHANGED <<queue, due, posts, sends>>
    BY DEF Dump
  <1>3. ASSUME NEW h \in todo, dumps' = Written(h),
               todo' = todo \ {h}, removed' = removed \cup {h},
               UNCHANGED <<pc, batch, msgs, raw, failures, heard>>
        PROVE  Inv'
    <2>1. Outside'
      BY <1>1, <1>2, <1>3, WrittenType DEF Outside, Memory
    <2>2. Memory' /\ Flow'
      BY <1>1, <1>2, <1>3 DEF Memory, Flow, Cached
    <2> QED
      BY <1>1, <1>2, <1>3, <2>1, <2>2 DEF Counts, Inv
  <1>4. ASSUME NEW h \in todo, failures' = failures + 1, Raise,
               dumps' \in {dumps, Written(h)}
        PROVE  Inv'
    <2>1. Outside'
      BY <1>1, <1>2, <1>4, WrittenType DEF Outside, Memory
    <2>2. Counts'
      BY <1>1, <1>2, <1>4, RaiseHeard DEF Counts
    <2> QED
      BY <1>1, <1>4, <2>1, <2>2, RaiseMemory DEF Inv
  <1> QED
    BY <1>3, <1>4 DEF Dump

\* What was written is removed from the cache.
LEMMA ForgetInv == Inv /\ Forget /\ UNCHANGED catchesErrors => Inv'
  <1> SUFFICES ASSUME Inv, Forget, UNCHANGED catchesErrors PROVE Inv'
    OBVIOUS
  <1>1. Memory /\ Outside /\ Counts /\ Flow
    BY DEF Inv
  <1>2. Outside' /\ Counts'
    BY <1>1 DEF Forget, Outside, Counts, history
  <1>3. Cached' = Cached \ removed /\ msgs' \in [Cached' -> Message]
    BY <1>1 DEF Forget, Memory, Cached
  <1>4. pc' = Continue(batch) /\ UNCHANGED <<batch, raw, todo>> /\ todo = {} /\ removed' = {}
        /\ pc = "dump"
    BY DEF Forget
  <1>5. Memory' /\ Flow'
    BY <1>1, <1>3, <1>4, ContinueFlow DEF Memory, Flow
  <1> QED
    BY <1>2, <1>5 DEF Inv

\* Every step keeps the types, and the shape of the batch.
LEMMA NextInv == Inv /\ [Next]_vars => Inv'
  <1> SUFFICES ASSUME Inv, [Next]_vars PROVE Inv'
    OBVIOUS
  <1>1. Memory /\ Outside /\ Counts /\ Flow
    BY DEF Inv
  <1>2. ASSUME NEW p \in Packets, Post(p) PROVE Inv'
    <2>1. /\ queue' \in Seq(Packets) /\ Len(queue') <= MaxQueue
      BY <1>1, <1>2, AppendProperties, LenProperties DEF Post, Outside
    <2>2. Outside'
      BY <1>1, <1>2, <2>1 DEF Post, Outside
    <2>3. Counts'
      BY <1>1, <1>2 DEF Post, Counts
    <2> QED
      BY <1>1, <1>2, <2>2, <2>3, MemoryKept DEF Post, Inv
  <1>3. CASE Restart /\ UNCHANGED catchesErrors
    <2>1. Outside' /\ Counts'
      BY <1>1, <1>3 DEF Restart, Outside, Counts, history
    <2>2. Memory' /\ Flow'
      BY <1>1, <1>3, NoBatch DEF Restart, Memory, Flow, Cached
    <2> QED
      BY <2>1, <2>2 DEF Inv
  <1>4. CASE Process
    BY <1>3, <1>4, FetchInv, HandleInv, FlushInv, DumpInv, ForgetInv DEF Process
  <1>5. CASE Kill
    <2>1. Outside'
      BY <1>1, <1>5 DEF Kill, Outside
    <2>2. Counts'
      BY <1>1, <1>5 DEF Kill, Die, Counts
    <2> QED
      BY <1>5, <2>1, <2>2, DieMemory DEF Kill, Inv
  <1>9. CASE FetchRaises
    <2>1. Outside'
      BY <1>1, <1>9 DEF FetchRaises, Outside
    <2>2. Counts'
      BY <1>1, <1>9, RaiseHeard DEF FetchRaises, Counts
    <2> QED
      BY <1>1, <1>9, <2>1, <2>2, RaiseMemory DEF FetchRaises, Inv
  <1>6. CASE PassTenSeconds
    <2>1. Outside' /\ Counts'
      BY <1>1, <1>6 DEF PassTenSeconds, Outside, Counts, history
    <2> QED
      BY <1>1, <1>6, <2>1, MemoryKept DEF PassTenSeconds, Inv
  <1>7. ASSUME NEW h \in Hashes, PassTwoMinutes(h) PROVE Inv'
    <2>1. Outside' /\ Counts'
      BY <1>1, <1>7 DEF PassTwoMinutes, Outside, Counts, history
    <2>2. Cached' = Cached /\ msgs' \in [Cached -> Message]
      BY <1>1, <1>7 DEF PassTwoMinutes, Memory, Cached, Message
    <2>3. Memory' /\ Flow'
      BY <1>1, <1>7, <2>2 DEF PassTwoMinutes, Memory, Flow
    <2> QED
      BY <2>1, <2>3 DEF Inv
  <1>8. CASE UNCHANGED vars
    <2>1. Outside' /\ Counts'
      BY <1>1, <1>8 DEF vars, Outside, Counts, history
    <2> QED
      BY <1>1, <1>8, <2>1, MemoryKept DEF vars, Inv
  <1> QED
    BY <1>2, <1>4, <1>5, <1>6, <1>7, <1>8, <1>9 DEF Next

\* It holds when the process starts.
LEMMA InitInv == Init => Inv
  <1> SUFFICES ASSUME Init PROVE Inv
    OBVIOUS
  <1>1. Memory /\ Flow
    BY NoBatch DEF Init, Memory, Flow, Cached, NoMessages
  <1>2. Outside
    <2>1. queue \in Seq(Packets) /\ Len(queue) <= MaxQueue
      BY NoBatch DEF Init
    <2>2. <<>> \in Seq(SUBSET Nodes)
      BY EmptySeq
    <2> QED
      BY <2>1, <2>2 DEF Init, Outside
  <1>3. Counts
    BY DEF Init, Counts
  <1> QED
    BY <1>1, <1>2, <1>3 DEF Inv

\* Every variable keeps its type: a batch has at most Step packets, the raw cache
\* exceeds cache_num only while it is flushed or after a flush that failed, and what
\* is being dumped is in msg_cache (p2p_broadcast_consumer.py:140-253).
THEOREM TypeCorrect == Spec => []TypeOK
  <1>1. Inv => TypeOK
    BY DEF Inv, Memory, Outside, Counts, TypeOK
  <1> QED
    BY <1>1, InitInv, NextInv, PTL DEF Spec
-----------------------------------------------------------------------------
(* How often a message is written.                                         *)

\* A send that was handled, and whose row is to be written yet.
Owed(h) == h \in Cached \ removed /\ msgs[h].sent # "zero"

Debt(h) == IF Owed(h) THEN 1 ELSE 0

\* How many the rows of h, and the one owed, may be.
Allowed(h) == sends[h] + (IF catchesErrors THEN failures ELSE 0)

Accounts ==
    /\ \A h \in todo \cup removed : msgs[h].sent # "zero"
    /\ \A h \in Hashes : Len(dumps[h]) + Debt(h) <= Allowed(h)

\* A message owes one row or none, and no more when nothing becomes owed.
LEMMA Debts ==
    ASSUME NEW h
    PROVE  /\ Debt(h) \in {0, 1} /\ Debt(h)' \in {0, 1}
           /\ (Owed(h)' => Owed(h)) => Debt(h)' = 0 \/ Debt(h) = 1
           /\ Owed(h) => Debt(h) = 1
           /\ ~Owed(h)' => Debt(h)' = 0
           /\ (Owed(h)' <=> Owed(h)) => Debt(h)' = Debt(h)
  <1>1. CASE Owed(h)
    BY <1>1 DEF Debt
  <1>2. CASE ~Owed(h)
    BY <1>2 DEF Debt
  <1> QED
    BY <1>1, <1>2

\* The numbers that are compared.
LEMMA Numbers ==
    ASSUME Inv, NEW h \in Hashes
    PROVE  Len(dumps[h]) \in Nat /\ Allowed(h) \in Nat /\ sends[h] \in Nat /\ failures \in Nat
  <1>1. dumps[h] \in Seq(SUBSET Nodes) /\ sends[h] \in Nat /\ failures \in Nat
    BY DEF Inv, Outside, Counts
  <1> QED
    BY <1>1, LenProperties DEF Allowed

\* Sums of numbers that grow.
LEMMA SumsGrow ==
    \A a, b, f, g \in Nat : b >= a /\ g >= f => a + f \in Nat /\ b + g \in Nat /\ b + g >= a + f
  OBVIOUS

\* A step that writes no row and makes none owed keeps the accounts.
LEMMA AccountsKept ==
    ASSUME Inv, Inv', Accounts, UNCHANGED <<dumps, catchesErrors>>, failures' >= failures,
           \A h \in Hashes : sends'[h] >= sends[h] /\ (Owed(h)' => Owed(h)),
           \A h \in todo' \cup removed' : msgs'[h].sent # "zero"
    PROVE  Accounts'
  <1> SUFFICES ASSUME NEW h \in Hashes
               PROVE  (Len(dumps[h]) + Debt(h) <= Allowed(h))'
    BY DEF Accounts
  <1>1. /\ Len(dumps[h]) \in Nat /\ sends[h] \in Nat /\ failures \in Nat
        /\ Len(dumps'[h]) = Len(dumps[h]) /\ sends'[h] \in Nat /\ failures' \in Nat
    BY Numbers DEF Inv, Counts
  <1>2. Len(dumps[h]) + Debt(h) <= Allowed(h)
    BY DEF Accounts
  <1>3. sends'[h] >= sends[h] /\ Debt(h) \in {0, 1} /\ Debt(h)' \in {0, 1}
        /\ (Debt(h)' = 0 \/ Debt(h) = 1)
    <2>1. sends'[h] >= sends[h] /\ (Owed(h)' => Owed(h))
      OBVIOUS
    <2>2. /\ Debt(h) \in {0, 1} /\ Debt(h)' \in {0, 1}
          /\ (Owed(h)' => Owed(h)) => Debt(h)' = 0 \/ Debt(h) = 1
      BY Debts
    <2> QED
      BY <2>1, <2>2
  <1>4. Allowed(h) \in Nat /\ Allowed(h)' \in Nat /\ Allowed(h)' >= Allowed(h)
    <2> DEFINE f == IF catchesErrors THEN failures ELSE 0
               g == (IF catchesErrors THEN failures ELSE 0)'
    <2>1. f \in Nat /\ g \in Nat /\ g >= f
      BY <1>1
    <2>2. Allowed(h) = sends[h] + f /\ Allowed(h)' = sends'[h] + g
      BY DEF Allowed
    <2>3. /\ sends[h] \in Nat /\ sends'[h] \in Nat /\ sends'[h] >= sends[h]
      BY <1>1, <1>3
    <2> HIDE DEF f, g
    <2> QED
      BY <2>1, <2>2, <2>3, SumsGrow
  <1> DEFINE l == Len(dumps[h])
             m == Len(dumps'[h])
             o == Debt(h)
             p == Debt(h)'
  <1>5. m + p <= Allowed(h)'
    <2>1. l \in Nat /\ m = l /\ o \in {0, 1} /\ p \in {0, 1} /\ (p = 0 \/ o = 1)
          /\ l + o <= Allowed(h)
      BY <1>1, <1>2, <1>3
    <2> HIDE DEF l, m, o, p
    <2> QED
      BY <1>4, <2>1
  <1> QED
    BY <1>5

\* A process that dies leaves nothing to be written.
LEMMA DieAccounts ==
    ASSUME Inv, Inv', Accounts, Die, failures' = failures + 1, UNCHANGED <<dumps, sends, catchesErrors>>
    PROVE  Accounts'
  <1>1. \A h \in Hashes : ~Owed(h)'
    BY DEF Die, Owed, Cached, NoMessages
  <1>2. todo' \cup removed' = {}
    BY DEF Die
  <1>3. failures' >= failures /\ \A h \in Hashes : sends'[h] >= sends[h]
    BY DEF Inv, Counts
  <1> QED
    BY <1>1, <1>2, <1>3, AccountsKept

\* An exception pays for the rows it makes owed again.
LEMMA RaiseAccounts ==
    ASSUME Inv, Inv', Accounts, Raise, failures' = failures + 1, UNCHANGED <<sends, catchesErrors>>,
           \/ dumps' = dumps
           \/ \E h \in todo : dumps' = Written(h)
    PROVE  Accounts'
  <1>1. todo' \cup removed' = {}
    BY DEF Raise, Die
  <1> SUFFICES ASSUME NEW g \in Hashes
               PROVE  (Len(dumps[g]) + Debt(g) <= Allowed(g))'
    BY <1>1 DEF Accounts
  <1>2. /\ Len(dumps[g]) \in Nat /\ sends[g] \in Nat /\ failures \in Nat
        /\ sends'[g] = sends[g]
    BY Numbers
  <1>3. Len(dumps[g]) + Debt(g) <= Allowed(g)
    BY DEF Accounts
  <1>4. \/ Len(dumps'[g]) = Len(dumps[g])
        \/ Len(dumps'[g]) = Len(dumps[g]) + 1 /\ Owed(g)
    <2>1. ASSUME NEW h \in todo, dumps' = Written(h), g = h
          PROVE  Len(dumps'[g]) = Len(dumps[g]) + 1 /\ Owed(g)
      <3>1. dumps'[g] = Append(dumps[g], msgs[g].recv) /\ msgs[g].recv \in SUBSET Nodes
        BY <2>1, WrittenType DEF Inv, Memory, Message
      <3>2. Len(dumps'[g]) = Len(dumps[g]) + 1
        BY <3>1, AppendProperties DEF Inv, Outside
      <3> QED
        BY <2>1, <3>2 DEF Accounts, Owed, Inv, Memory
    <2>2. ASSUME NEW h \in todo, dumps' = Written(h), g # h
          PROVE  Len(dumps'[g]) = Len(dumps[g])
      BY <2>2, WrittenType DEF Inv, Memory
    <2> QED
      BY <2>1, <2>2
  <1>5. catchesErrors' = catchesErrors /\ (~catchesErrors => ~Owed(g)')
    BY DEF Raise, Die, Owed, Cached, NoMessages
  <1>6. /\ Debt(g) \in {0, 1} /\ Debt(g)' \in {0, 1}
        /\ Len(dumps'[g]) = Len(dumps[g]) \/ (Len(dumps'[g]) = Len(dumps[g]) + 1 /\ Debt(g) = 1)
        /\ ~catchesErrors => Debt(g)' = 0
    BY <1>4, <1>5, Debts
  <1> DEFINE l == Len(dumps[g])
             m == Len(dumps'[g])
             o == Debt(g)
             p == Debt(g)'
  <1>7. m + p <= l + o + (IF catchesErrors THEN 1 ELSE 0)
    <2>1. l \in Nat /\ o \in {0, 1} /\ p \in {0, 1} /\ (m = l \/ (m = l + 1 /\ o = 1))
          /\ (~catchesErrors => p = 0)
      BY <1>2, <1>6
    <2> HIDE DEF l, m, o, p
    <2> QED
      BY <2>1
  <1>8. Allowed(g)' = Allowed(g) + (IF catchesErrors THEN 1 ELSE 0)
    BY <1>2, <1>5 DEF Allowed
  <1>9. l + o <= Allowed(g) /\ l \in Nat /\ m \in Nat /\ o \in {0, 1} /\ p \in {0, 1}
        /\ Allowed(g) \in Nat
    BY <1>2, <1>3, <1>6, Numbers
  <1>10. m + p <= Allowed(g)'
    <2> HIDE DEF l, m, o, p
    <2> QED
      BY <1>7, <1>8, <1>9
  <1> QED
    BY <1>10

\* Taking a packet and being restarted write nothing and forget nothing written.
LEMMA FlowAccounts ==
    ASSUME Inv, Inv', Accounts, UNCHANGED catchesErrors, Fetch \/ Restart
    PROVE  Accounts'
  <1>1. UNCHANGED <<dumps, failures, sends, msgs, todo, removed>>
    BY DEF Fetch, Restart, history
  <1>2. \A h \in Hashes : Owed(h)' <=> Owed(h)
    BY <1>1 DEF Owed, Cached
  <1>3. \A h \in Hashes : sends[h] \in Nat
    BY DEF Inv, Counts
  <1>4. \A h \in todo' \cup removed' : msgs'[h].sent # "zero"
    BY <1>1 DEF Accounts
  <1>5. failures \in Nat
    BY DEF Inv, Counts
  <1> QED
    BY <1>1, <1>2, <1>3, <1>4, <1>5, AccountsKept

\* What a dump is about to write has a send.
LEMMA CheckTodo ==
    ASSUME NEW rest, Check(msgs', rest), todo = {}
    PROVE  \A h \in todo' : msgs'[h].sent # "zero"
  BY DEF Check, Dumpable

\* A send makes one row owed, and is counted.
LEMMA HandleAccounts ==
    ASSUME Inv, Inv', Accounts, UNCHANGED catchesErrors, Handle
    PROVE  Accounts'
  <1> DEFINE p == Head(batch)
             m == IF p.hash \in Cached THEN msgs[p.hash] ELSE Template
  <1>1. pc = "handle" /\ todo = {} /\ removed = {} /\ removed' = {}
    BY DEF Handle, Inv, Memory
  <1>2. UNCHANGED <<dumps, failures>>
    BY DEF Handle
  <1>3. \A h \in todo' : msgs'[h].sent # "zero"
    <2>1. todo' = todo \/ Check(msgs', batch')
      BY DEF Handle
    <2> QED
      BY <1>1, <2>1, CheckTodo
  <1>4. PICK n \in Joined(m, p) :
            msgs' = [h \in Cached \cup {p.hash} |-> IF h = p.hash THEN n ELSE msgs[h]]
    BY DEF Handle
  <1>5. sends' = [sends EXCEPT ![p.hash] = IF IsSend(p) THEN @ + 1 ELSE @]
    BY DEF Handle
  <1>6. p \in Packets /\ p.hash \in Hashes
    BY HeadTailProperties DEF Inv, Memory, Flow, Handle
  <1>7. ~IsSend(p) => n.sent = m.sent
    <2>1. m \in Message
      BY <1>6 DEF Inv, Memory, Message, Template
    <2> HIDE DEF p, m
    <2> QED
      BY <1>4, <2>1 DEF Joined, Message
  <1> SUFFICES ASSUME NEW h \in Hashes
               PROVE  (Len(dumps[h]) + Debt(h) <= Allowed(h))'
    BY <1>1, <1>3 DEF Accounts
  <1>8. /\ Len(dumps[h]) \in Nat /\ sends[h] \in Nat /\ failures \in Nat
        /\ Len(dumps[h]) + Debt(h) <= Allowed(h)
    BY Numbers DEF Accounts
  <1>9. CASE h = p.hash /\ IsSend(p)
    <2>1. sends'[h] = sends[h] + 1
      BY <1>5, <1>9 DEF Inv, Counts
    <2>2. Debt(h) \in {0, 1} /\ Debt(h)' \in {0, 1}
      BY Debts
    <2>3. Allowed(h)' = Allowed(h) + 1 /\ Allowed(h) \in Nat
      BY <1>2, <1>8, <2>1 DEF Allowed
    <2> QED
      BY <1>2, <1>8, <2>2, <2>3
  <1>10. CASE ~(h = p.hash /\ IsSend(p))
    <2>1. sends'[h] = sends[h]
      BY <1>5, <1>6, <1>10 DEF Inv, Counts
    <2>2. Owed(h)' => Owed(h)
      <3>1. CASE h # p.hash
        BY <1>1, <1>4, <3>1 DEF Owed, Cached
      <3>2. CASE h = p.hash
        <4>1. msgs'[h] = n
          BY <1>4, <3>2
        <4>2. Owed(h)' => m.sent # "zero"
          BY <1>7, <1>10, <3>2, <4>1 DEF Owed
        <4> QED
          BY <1>1, <3>2, <4>2 DEF Owed, Template
      <3> QED
        BY <3>1, <3>2
    <2>3. Debt(h) \in {0, 1} /\ Debt(h)' \in {0, 1} /\ (Debt(h)' = 0 \/ Debt(h) = 1)
      BY <2>2, Debts
    <2> HIDE DEF p
    <2> QED
      BY <1>2, <1>8, <2>1, <2>3 DEF Allowed
  <1> QED
    BY <1>9, <1>10

\* A check chooses rows to write: no row is owed that was not.
LEMMA FlushAccounts ==
    ASSUME Inv, Inv', Accounts, UNCHANGED catchesErrors, Flush
    PROVE  Accounts'
  <1>1. CASE raw' = 0 /\ Check(msgs, batch) /\ UNCHANGED <<batch, msgs, removed, failures, heard>>
    <2>1. todo = {} /\ removed = {} /\ UNCHANGED <<dumps, sends>> /\ Check(msgs', batch)
      BY <1>1 DEF Flush, Inv, Memory, Check
    <2>2. \A h \in Hashes : Owed(h)' <=> Owed(h)
      BY <1>1, <2>1 DEF Owed, Cached
    <2>3. failures \in Nat /\ \A h \in Hashes : sends[h] \in Nat
      BY DEF Inv, Counts
    <2> QED
      BY <1>1, <2>1, <2>2, <2>3, CheckTodo, AccountsKept
  <1>2. CASE MayFail /\ failures' = failures + 1 /\ Raise
    BY <1>2, RaiseAccounts DEF Flush
  <1> QED
    BY <1>1, <1>2 DEF Flush

\* A row that was owed is written.
LEMMA DumpAccounts ==
    ASSUME Inv, Inv', Accounts, UNCHANGED catchesErrors, Dump
    PROVE  Accounts'
  <1>1. ASSUME NEW h \in todo, failures' = failures + 1, Raise, dumps' \in {dumps, Written(h)}
        PROVE  Accounts'
    BY <1>1, RaiseAccounts DEF Dump
  <1>2. ASSUME NEW h \in todo, dumps' = Written(h),
               todo' = todo \ {h}, removed' = removed \cup {h},
               UNCHANGED <<pc, batch, msgs, raw, failures, heard>>
        PROVE  Accounts'
    <2>1. \A g \in todo' \cup removed' : msgs'[g].sent # "zero"
      BY <1>2 DEF Accounts
    <2> SUFFICES ASSUME NEW g \in Hashes
                 PROVE  (Len(dumps[g]) + Debt(g) <= Allowed(g))'
      BY <2>1 DEF Accounts
    <2>2. /\ Len(dumps[g]) \in Nat /\ sends[g] \in Nat /\ failures \in Nat
          /\ Len(dumps[g]) + Debt(g) <= Allowed(g)
      BY Numbers DEF Accounts
    <2>3. Allowed(g)' = Allowed(g) /\ Allowed(g) \in Nat
      BY <1>2, Numbers DEF Allowed, Dump
    <2>4. CASE g = h
      <3>1. dumps'[g] = Append(dumps[g], msgs[g].recv) /\ msgs[g].recv \in SUBSET Nodes
        BY <1>2, <2>4, WrittenType DEF Inv, Memory, Message
      <3>2. Len(dumps'[g]) = Len(dumps[g]) + 1
        BY <3>1, AppendProperties DEF Inv, Outside
      <3>3. Owed(g) /\ ~Owed(g)'
        BY <1>2, <2>4 DEF Owed, Accounts, Inv, Memory
      <3>4. Debt(g) = 1 /\ Debt(g)' = 0
        BY <3>3, Debts
      <3> QED
        BY <2>2, <2>3, <3>2, <3>4
    <2>5. CASE g # h
      <3>1. dumps'[g] = dumps[g]
        BY <1>2, <2>5, WrittenType DEF Inv, Memory
      <3>2. Owed(g)' <=> Owed(g)
        BY <1>2, <2>5 DEF Owed, Cached
      <3>3. Debt(g)' = Debt(g)
        BY <3>2, Debts
      <3> QED
        BY <2>2, <2>3, <3>1, <3>3
    <2> QED
      BY <2>4, <2>5
  <1> QED
    BY <1>1, <1>2 DEF Dump

\* What was written is no longer owed.
LEMMA ForgetAccounts ==
    ASSUME Inv, Inv', Accounts, UNCHANGED catchesErrors, Forget
    PROVE  Accounts'
  <1>1. /\ UNCHANGED <<dumps, failures, sends>> /\ todo' \cup removed' = {}
        /\ msgs' = [h \in Cached \ removed |-> msgs[h]]
    BY DEF Forget, history
  <1>2. \A h \in Hashes : Owed(h)' => Owed(h)
    BY <1>1 DEF Owed, Cached
  <1>3. failures \in Nat /\ \A h \in Hashes : sends[h] \in Nat
    BY DEF Inv, Counts
  <1> QED
    BY <1>1, <1>2, <1>3, AccountsKept

\* Every step keeps the accounts.
LEMMA NextAccounts ==
    ASSUME Inv, Inv', Accounts, [Next]_vars
    PROVE  Accounts'
  <1>1. CASE Process
    BY <1>1, FlowAccounts, HandleAccounts, FlushAccounts, DumpAccounts, ForgetAccounts
    DEF Process
  <1>2. CASE Kill
    BY <1>2, DieAccounts DEF Kill
  <1>6. CASE FetchRaises
    BY <1>6, RaiseAccounts DEF FetchRaises
  <1>3. ASSUME NEW h \in Hashes, PassTwoMinutes(h) PROVE Accounts'
    <2>1. /\ UNCHANGED <<dumps, failures, sends, todo, removed, catchesErrors>>
          /\ Cached' = Cached
          /\ \A g \in Cached : g # h => msgs'[g] = msgs[g]
          /\ h \in Cached /\ msgs[h].sent # "zero"
          /\ msgs'[h].sent = "old"
      BY <1>3 DEF PassTwoMinutes, history, Cached, Inv, Memory, Message
    <2>2. \A g \in Hashes : Owed(g)' => Owed(g)
      BY <2>1 DEF Owed
    <2>3. \A g \in todo' \cup removed' : msgs'[g].sent # "zero"
      BY <2>1 DEF Accounts, Inv, Memory
    <2>4. failures \in Nat /\ \A g \in Hashes : sends[g] \in Nat
      BY DEF Inv, Counts
    <2> QED
      BY <2>1, <2>2, <2>3, <2>4, AccountsKept
  <1>4. CASE UNCHANGED <<dumps, failures, sends, msgs, todo, removed, catchesErrors>>
    <2>1. \A h \in Hashes : Owed(h)' <=> Owed(h)
      BY <1>4 DEF Owed, Cached
    <2>2. failures \in Nat /\ \A h \in Hashes : sends[h] \in Nat
      BY DEF Inv, Counts
    <2>3. \A h \in todo' \cup removed' : msgs'[h].sent # "zero"
      BY <1>4 DEF Accounts
    <2> QED
      BY <1>4, <2>1, <2>2, <2>3, AccountsKept
  <1>5. CASE (\E p \in Packets : Post(p)) \/ PassTenSeconds \/ UNCHANGED vars
    BY <1>4, <1>5 DEF Post, PassTenSeconds, vars, memory, history
  <1> QED
    BY <1>1, <1>2, <1>3, <1>5, <1>6 DEF Next

\* However packets, dumps, exceptions and kills follow each other, a send is written
\* once, and at most once more for each exception that was caught
\* (p2p_broadcast_consumer.py:209-241).
THEOREM DumpsAreBounded == Spec => []DumpsBounded
  <1>1. Init => Accounts
    <2> SUFFICES ASSUME Init PROVE Accounts
      OBVIOUS
    <2>1. \A h \in Hashes : ~Owed(h) /\ dumps[h] = <<>>
      BY DEF Init, Owed, Cached, NoMessages
    <2>2. \A h \in Hashes : Debt(h) = 0
      BY <2>1 DEF Debt
    <2> QED
      BY <2>1, <2>2, NoBatch DEF Init, Accounts, Allowed
  <1>2. Inv /\ Accounts => DumpsBounded
    <2> SUFFICES ASSUME Inv, Accounts, NEW h \in Hashes
                 PROVE  Len(dumps[h]) <= Allowed(h)
      BY DEF DumpsBounded, Allowed
    <2>1. /\ Len(dumps[h]) \in Nat /\ Allowed(h) \in Nat
          /\ Len(dumps[h]) + Debt(h) <= Allowed(h)
          /\ Debt(h) \in {0, 1}
      BY Numbers, Debts DEF Accounts
    <2> QED
      BY <2>1
  <1> QED
    BY <1>1, <1>2, InitInv, NextInv, NextAccounts, PTL DEF Spec
-----------------------------------------------------------------------------
(* What is heard is kept.                                                  *)

\* The row of node n in some dump of h.
InRow(h, n) == \E i \in DOMAIN dumps[h] : n \in dumps[h][i]

Kept ==
    /\ ReceptionsKept
    /\ \A h \in removed : \A n \in msgs[h].recv : InRow(h, n)

\* Rows stay.
LEMMA RowsStay ==
    ASSUME Inv, NEW h \in Hashes, NEW n,
           dumps' = dumps \/ \E g \in todo : dumps' = Written(g)
    PROVE  InRow(h, n) => InRow(h, n)'
  <1>1. CASE dumps' = dumps
    BY <1>1 DEF InRow
  <1>2. ASSUME NEW g \in todo, dumps' = Written(g) PROVE InRow(h, n) => InRow(h, n)'
    <2>1. CASE g # h
      BY <1>2, <2>1, WrittenType DEF Inv, Memory, InRow
    <2>2. CASE g = h
      <3>1. dumps'[h] = Append(dumps[h], msgs[h].recv) /\ msgs[h].recv \in SUBSET Nodes
        BY <1>2, <2>2, WrittenType DEF Inv, Memory, Message
      <3>2. /\ dumps[h] \in Seq(SUBSET Nodes)
            /\ DOMAIN dumps[h] = 1..Len(dumps[h]) /\ Len(dumps[h]) \in Nat
            /\ DOMAIN dumps'[h] = 1..(Len(dumps[h]) + 1)
            /\ \A i \in 1..Len(dumps[h]) : dumps'[h][i] = dumps[h][i]
        BY <3>1, AppendProperties, LenProperties DEF Inv, Outside
      <3> QED
        BY <3>2 DEF InRow
    <2> QED
      BY <2>1, <2>2
  <1> QED
    BY <1>1, <1>2

\* Nothing was heard by a process that is dead.
LEMMA DieKept == Die => Kept'
  BY DEF Die, Kept, ReceptionsKept

\* An exception forgets everything, or nothing.
LEMMA RaiseKept ==
    ASSUME Inv, Kept, Raise, dumps' = dumps \/ \E g \in todo : dumps' = Written(g)
    PROVE  Kept'
  <1>1. CASE ~catchesErrors
    BY <1>1, DieKept DEF Raise
  <1>2. CASE catchesErrors
    <2>1. removed' = {} /\ UNCHANGED <<msgs, heard>>
      BY <1>2 DEF Raise
    <2>2. ASSUME NEW h \in Hashes, NEW n \in heard[h]
          PROVE  (h \in Cached /\ n \in msgs[h].recv) \/ InRow(h, n)'
      BY RowsStay DEF Kept, ReceptionsKept, InRow
    <2> QED
      BY <2>1, <2>2 DEF Kept, ReceptionsKept, InRow, Cached
  <1> QED
    BY <1>1, <1>2

\* A step that leaves rows and receptions alone.
LEMMA KeptKept ==
    ASSUME Kept, UNCHANGED <<dumps, heard, removed>>, Cached' = Cached,
           \A h \in Cached : msgs'[h].recv = msgs[h].recv, removed \subseteq Cached
    PROVE  Kept'
  BY DEF Kept, ReceptionsKept, InRow

\* What a packet says of a reception is added.
LEMMA HandleKept ==
    ASSUME Inv, Inv', Kept, Handle
    PROVE  Kept'
  <1> DEFINE p == Head(batch)
             m == IF p.hash \in Cached THEN msgs[p.hash] ELSE Template
  <1>1. removed' = {} /\ dumps' = dumps
    BY DEF Handle, Inv, Memory
  <1>2. PICK k \in Joined(m, p) :
            msgs' = [h \in Cached \cup {p.hash} |-> IF h = p.hash THEN k ELSE msgs[h]]
    BY DEF Handle
  <1>3. heard' = [heard EXCEPT ![p.hash] = IF IsSend(p) THEN @ ELSE @ \cup {p.node}]
    BY DEF Handle
  <1>4. p \in Packets /\ p.hash \in Hashes
    BY HeadTailProperties DEF Inv, Memory, Flow, Handle
  <1>5. k.recv = IF IsSend(p) THEN m.recv ELSE m.recv \cup {p.node}
    <2>1. m \in Message
      BY <1>4 DEF Inv, Memory, Message, Template
    <2> HIDE DEF p, m
    <2> QED
      BY <1>2, <2>1 DEF Joined, Message
  <1> SUFFICES ASSUME NEW h \in Hashes, NEW n \in heard'[h]
               PROVE  (h \in Cached' /\ n \in msgs'[h].recv) \/ InRow(h, n)'
    BY <1>1 DEF Kept, ReceptionsKept, InRow
  <1>6. CASE h # p.hash
    <2>1. n \in heard[h]
      BY <1>3, <1>6 DEF Inv, Counts
    <2> QED
      BY <1>1, <1>2, <1>6, <2>1 DEF Kept, ReceptionsKept, InRow, Cached
  <1>7. CASE h = p.hash
    <2>1. n \in heard[h] \/ (~IsSend(p) /\ n = p.node)
      BY <1>3, <1>7 DEF Inv, Counts
    <2>2. h \in Cached' /\ msgs'[h] = k
      BY <1>2, <1>7 DEF Cached
    <2>3. CASE ~IsSend(p) /\ n = p.node
      BY <1>5, <2>2, <2>3
    <2>4. CASE n \in heard[h]
      <3>1. (h \in Cached /\ n \in msgs[h].recv) \/ InRow(h, n)
        BY <2>4 DEF Kept, ReceptionsKept, InRow
      <3>2. h \in Cached => m = msgs[h]
        BY <1>7
      <3> QED
        BY <1>1, <1>5, <2>2, <3>1, <3>2 DEF InRow
    <2> QED
      BY <2>1, <2>3, <2>4
  <1> QED
    BY <1>6, <1>7

\* The row of a message has its receptions.
LEMMA DumpKept ==
    ASSUME Inv, Kept, Dump
    PROVE  Kept'
  <1>1. ASSUME NEW h \in todo, Raise, dumps' \in {dumps, Written(h)}
        PROVE  Kept'
    BY <1>1, RaiseKept
  <1>2. ASSUME NEW h \in todo, dumps' = Written(h), removed' = removed \cup {h},
               UNCHANGED <<msgs, heard>>
        PROVE  Kept'
    <2>1. h \in Hashes /\ h \in Cached /\ removed \subseteq Hashes
      BY DEF Inv, Memory
    <2>2. \A n \in msgs[h].recv : InRow(h, n)'
      <3>1. dumps'[h] = Append(dumps[h], msgs[h].recv) /\ msgs[h].recv \in SUBSET Nodes
        BY <1>2, WrittenType DEF Inv, Memory, Message
      <3>2. /\ DOMAIN dumps'[h] = 1..(Len(dumps[h]) + 1) /\ Len(dumps[h]) \in Nat
            /\ dumps'[h][Len(dumps[h]) + 1] = msgs[h].recv
        BY <2>1, <3>1, AppendProperties, LenProperties DEF Inv, Outside
      <3> QED
        BY <3>2 DEF InRow
    <2>3. \A g \in Hashes : \A n : InRow(g, n) => InRow(g, n)'
      BY <1>2, RowsStay
    <2>4. ReceptionsKept'
      BY <1>2, <2>3 DEF Kept, ReceptionsKept, InRow, Cached
    <2> QED
      BY <1>2, <2>1, <2>2, <2>3, <2>4 DEF Kept
  <1> QED
    BY <1>1, <1>2 DEF Dump

\* Only what is in a row is forgotten.
LEMMA ForgetKept ==
    ASSUME Inv, Kept, Forget
    PROVE  Kept'
  <1>1. /\ UNCHANGED <<dumps, heard>> /\ removed' = {}
        /\ msgs' = [h \in Cached \ removed |-> msgs[h]]
    BY DEF Forget, history
  <1>2. ASSUME NEW h \in Hashes, NEW n \in heard[h]
        PROVE  (h \in Cached \ removed /\ n \in msgs[h].recv) \/ InRow(h, n)
    BY DEF Kept, ReceptionsKept, InRow
  <1> QED
    BY <1>1, <1>2 DEF Kept, ReceptionsKept, InRow, Cached

\* Every step keeps what was heard.
LEMMA NextKept ==
    ASSUME Inv, Inv', Kept, [Next]_vars
    PROVE  Kept'
  <1>0. removed \subseteq Cached
    BY DEF Inv, Memory
  <1>1. CASE Flush
    <2>1. CASE Raise
      BY <1>1, <2>1, RaiseKept DEF Flush
    <2>2. CASE UNCHANGED <<msgs, removed, heard>>
      BY <1>0, <1>1, <2>2, KeptKept DEF Flush, Cached
    <2> QED
      BY <1>1, <2>1, <2>2 DEF Flush
  <1>2. CASE Fetch \/ Restart
    BY <1>0, <1>2, KeptKept DEF Fetch, Restart, history, Cached
  <1>3. CASE Process
    BY <1>1, <1>2, <1>3, HandleKept, DumpKept, ForgetKept DEF Process
  <1>4. CASE Kill
    BY <1>4, DieKept DEF Kill
  <1>7. CASE FetchRaises
    BY <1>7, RaiseKept DEF FetchRaises
  <1>5. ASSUME NEW h \in Hashes, PassTwoMinutes(h) PROVE Kept'
    <2>1. /\ Cached' = Cached /\ UNCHANGED <<dumps, heard, removed>>
          /\ \A g \in Cached : msgs'[g].recv = msgs[g].recv
      BY <1>5 DEF PassTwoMinutes, history, Cached, Inv, Memory, Message
    <2> QED
      BY <1>0, <2>1, KeptKept
  <1>6. CASE (\E p \in Packets : Post(p)) \/ PassTenSeconds \/ UNCHANGED vars
    <2>1. UNCHANGED <<msgs, dumps, heard, removed>>
      BY <1>6 DEF Post, PassTenSeconds, vars, memory, history
    <2> QED
      BY <1>0, <2>1, KeptKept DEF Cached
  <1> QED
    BY <1>3, <1>4, <1>5, <1>6, <1>7 DEF Next

\* In whatever order send and recv arrive, and whatever raises in between: as long as
\* the process lives, what it heard of a message is in msg_cache or in a row of it
\* (p2p_broadcast_consumer.py:165-211, 215-241).
THEOREM ReceptionsAreKept == Spec => []ReceptionsKept
  <1>1. Init => Kept
    BY DEF Init, Kept, ReceptionsKept
  <1>2. Kept => ReceptionsKept
    BY DEF Kept
  <1> QED
    BY <1>1, <1>2, InitInv, NextInv, NextKept, PTL DEF Spec
=============================================================================
