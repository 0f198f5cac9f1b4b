------------------------ MODULE ConsensusRateProofs -------------------------
(***************************************************************************)
(* Proofs about ConsensusRate, for any set of nodes, any number of samples    *)
(* and any values: types, and that the sums are right.                      *)
(*                                                                         *)
(* SumsRight is inductive together with what is known of a counter of which    *)
(* no sample was read, and with the order of the two passes: in the first one  *)
(* no node has samples of "fail", so it cannot raise, and its sums are closed. *)
(***************************************************************************)
EXTENDS ConsensusRate, TLAPS

Grown(a) == a.sum + (a.end - a.begin)

Untouched ==
    \A c \in Counters, n \in Nodes :
        ~acc[c][n].known => acc[c][n].sum = 0 /\ acc[c][n].begin = acc[c][n].end
FirstPass == pc = "succ" => \A n \in Nodes : ~acc["fail"][n].known

IInv == TypeOK /\ SumsRight /\ Untouched /\ FirstPass

\* One sample leaves a record of its type, whose stretch does not shrink.
LEMMA AddType ==
    ASSUME NEW a \in Acc, a.begin <= a.end, NEW v \in Value
    PROVE  /\ Add(a, v) \in Acc
           /\ Add(a, v).known
           /\ Add(a, v).begin <= Add(a, v).end
<1>1. a.sum + (a.end - a.begin) \in Nat
  BY BoundsAssumption DEF Acc, Value
<1> QED BY <1>1 DEF Acc, Value, Add

\* What one sample adds to the total.
LEMMA AddGrown ==
    ASSUME NEW a \in Acc, a.begin <= a.end, NEW v \in Value
    PROVE  Grown(Add(a, v)) =
               IF ~a.known THEN 0 ELSE IF v < a.end THEN Grown(a)
                                                    ELSE Grown(a) + (v - a.end)
BY BoundsAssumption DEF Acc, Value, Add, Grown

\* Closing a stretch moves it into the sum.
LEMMA CloseType ==
    ASSUME NEW a \in Acc, a.begin <= a.end
    PROVE  /\ Close(a) \in Acc
           /\ Close(a).begin = a.begin /\ Close(a).end = a.end
           /\ Close(a).known = a.known
           /\ Close(a).sum = Grown(a)
<1>1. a.sum + (a.end - a.begin) \in Nat
  BY BoundsAssumption DEF Acc, Value
<1> QED BY <1>1 DEF Acc, Value, Close, Grown

\* What a node counted since its last sample.
CountedWell(a, v, counted, again) ==
    \/ ~a.known /\ counted = 0 /\ again = 0
    \/ a.known /\ v >= a.end /\ counted = v - a.end /\ again = 0
    \/ a.known /\ again = 1 /\ \E last \in Value : last >= a.end /\ counted = last - a.end + v

\* The arithmetic of one sample: a total g that is at most the x events, and at most
\* k short of them, stays so, k growing by the greatest value with a restart.
LEMMA SampleArithmetic ==
    ASSUME NEW a \in Acc, NEW g \in Nat, NEW k \in Nat, NEW x \in Nat, NEW v \in Value,
           NEW counted \in Nat, NEW again \in {0, 1}, CountedWell(a, v, counted, again),
           g <= x, x <= g + k, ~a.known => g = 0
    PROVE  LET h == IF ~a.known THEN 0 ELSE IF v < a.end THEN g ELSE g + (v - a.end)
           IN  /\ h <= x + counted
               /\ x + counted <= h + (k + (IF again = 1 THEN MaxValue ELSE 0))
<1> DEFINE y == a.end
<1>1. y \in 0..MaxValue /\ v \in 0..MaxValue /\ MaxValue \in Nat
  BY BoundsAssumption DEF Acc, Value
<1>2. CASE ~a.known /\ counted = 0 /\ again = 0
  BY <1>2
<1>3. CASE a.known /\ v >= y /\ counted = v - y /\ again = 0
  BY <1>1, <1>3
<1>4. CASE /\ a.known /\ again = 1
           /\ \E last \in Value : last >= y /\ counted = last - y + v
  <2>1. PICK last \in 0..MaxValue : last >= y /\ counted = last - y + v
    BY <1>4 DEF Value
  <2>2. CASE v < y
    BY <1>1, <1>4, <2>1, <2>2
  <2>3. CASE v >= y
    BY <1>1, <1>4, <2>1, <2>3
  <2> QED BY <1>1, <2>2, <2>3
<1> QED BY <1>2, <1>3, <1>4 DEF CountedWell

\* At first no sample was read.
LEMMA InitInv == Init => IInv
<1> SUFFICES ASSUME Init PROVE IInv
  OBVIOUS
<1>1. NoAcc \in Acc
  BY BoundsAssumption DEF NoAcc, Acc, Value
<1>2. \A c \in Counters, n \in Nodes :
          /\ acc[c][n] = NoAcc /\ events[c][n] = 0 /\ restarts[c][n] = 0
  BY DEF Init, None
<1>3. TypeOK
  BY <1>1, <1>2, BoundsAssumption DEF Init, TypeOK, None, Counters, NoAcc
<1>4. SumsRight
  <2> SUFFICES ASSUME NEW c \in Counters, NEW n \in Nodes
               PROVE  /\ Total(c, n) <= events[c][n]
                      /\ events[c][n] <= Total(c, n) + restarts[c][n] * MaxValue
    BY DEF SumsRight
  <2>1. Total(c, n) = 0
    BY <1>2 DEF Total, NoAcc
  <2>2. events[c][n] = 0 /\ restarts[c][n] * MaxValue = 0
    BY <1>2, BoundsAssumption
  <2> QED BY <2>1, <2>2
<1>5. Untouched /\ FirstPass
  BY <1>2 DEF Untouched, FirstPass, NoAcc, Counters
<1> QED BY <1>3, <1>4, <1>5 DEF IInv

\* The types of one entry.
LEMMA EntryType ==
    ASSUME TypeOK, NEW c \in Counters, NEW n \in Nodes
    PROVE  /\ acc[c][n] \in Acc /\ acc[c][n].begin <= acc[c][n].end
           /\ events[c][n] \in Nat /\ restarts[c][n] \in Nat
BY DEF TypeOK

\* A sample: the sum of its counter and node grows with what the node counted.
LEMMA SampleInv ==
    ASSUME IInv, pc \in Counters, NEW n \in Nodes, NEW v \in Value,
           NEW e \in Nat, NEW r \in {0, 1}, Sample(n, v, e, r),
           CountedWell(acc[pc][n], v, e, r)
    PROVE  IInv'
<1> DEFINE a == acc[pc][n]
<1>1. pc \in Counters /\ pc' = pc /\ listed' = listed
      /\ missing' = missing /\ unqualified' = unqualified
  BY DEF Sample
<1>2. TypeOK /\ SumsRight /\ Untouched /\ FirstPass
  BY DEF IInv
<1>3. a \in Acc /\ a.begin <= a.end /\ events[pc][n] \in Nat /\ restarts[pc][n] \in Nat
  BY <1>1, <1>2, EntryType
<1>4. Add(a, v) \in Acc /\ Add(a, v).known /\ Add(a, v).begin <= Add(a, v).end
  BY <1>3, AddType
<1>5. acc' = [acc EXCEPT ![pc][n] = Add(a, v)]
  BY DEF Sample
<1>6. /\ events' = [events EXCEPT ![pc][n] = @ + e]
      /\ restarts' = [restarts EXCEPT ![pc][n] = @ + r]
  BY DEF Sample
<1>7. CountedWell(a, v, e, r)
  OBVIOUS
<1>8. e \in Nat /\ r \in Nat
  OBVIOUS
<1>9. acc'[pc][n] = Add(a, v)
      /\ \A c \in Counters, m \in Nodes : <<c, m>> # <<pc, n>> => acc'[c][m] = acc[c][m]
  BY <1>1, <1>2, <1>5 DEF TypeOK
<1>10. /\ events'[pc][n] = events[pc][n] + e
       /\ restarts'[pc][n] = restarts[pc][n] + r
       /\ \A c \in Counters, m \in Nodes : <<c, m>> # <<pc, n>> =>
              events'[c][m] = events[c][m] /\ restarts'[c][m] = restarts[c][m]
  BY <1>1, <1>2, <1>6 DEF TypeOK
<1>11. TypeOK'
  <2>1. acc' \in [Counters -> [Nodes -> Acc]]
    BY <1>1, <1>2, <1>4, <1>5 DEF TypeOK
  <2>2. \A c \in Counters, m \in Nodes : acc'[c][m].begin <= acc'[c][m].end
    BY <1>2, <1>4, <1>9 DEF TypeOK
  <2>3. events' \in [Counters -> [Nodes -> Nat]]
    <3>1. events[pc][n] + e \in Nat
      BY <1>3, <1>8
    <3> QED BY <1>1, <1>2, <1>6, <3>1 DEF TypeOK
  <2>4. restarts' \in [Counters -> [Nodes -> Nat]]
    <3>1. restarts[pc][n] + r \in Nat
      BY <1>3, <1>8
    <3> QED BY <1>1, <1>2, <1>6, <3>1 DEF TypeOK
  <2>5. rows' \in Nat
    BY <1>2 DEF Sample, TypeOK
  <2> QED BY <1>1, <1>2, <2>1, <2>2, <2>3, <2>4, <2>5 DEF TypeOK
<1>12. SumsRight'
  <2> SUFFICES ASSUME NEW c \in Counters, NEW m \in Nodes
               PROVE  /\ Total(c, m)' <= events'[c][m]
                      /\ events'[c][m] <= Total(c, m)' + restarts'[c][m] * MaxValue
    BY DEF SumsRight
  <2>1. Closed(c)' = Closed(c)
    BY <1>1 DEF Closed
  <2>2. CASE <<c, m>> # <<pc, n>>
    <3>1. Total(c, m)' = Total(c, m)
      BY <1>9, <2>1, <2>2 DEF Total
    <3> QED BY <1>2, <1>10, <2>2, <3>1 DEF SumsRight
  <2>3. CASE <<c, m>> = <<pc, n>>
    <3>1. ~Closed(c)
      BY <1>1, <2>3 DEF Closed, Counters
    <3>2. Total(c, m) = Grown(a) /\ Total(c, m)' = Grown(Add(a, v))
      BY <1>9, <2>1, <2>3, <3>1 DEF Total, Grown
    <3>3. Grown(a) <= events[pc][n] /\ events[pc][n] <= Grown(a) + restarts[pc][n] * MaxValue
      BY <1>2, <2>3, <3>2 DEF SumsRight
    <3>4. Grown(Add(a, v)) = IF ~a.known THEN 0 ELSE IF v < a.end THEN Grown(a)
                                                   ELSE Grown(a) + (v - a.end)
      BY <1>3, AddGrown
    <3>5. Grown(a) \in Nat /\ (~a.known => Grown(a) = 0)
      <4>1. Grown(a) \in Nat
        BY <1>3, BoundsAssumption DEF Grown, Acc, Value
      <4>2. ~a.known => a.sum = 0 /\ a.begin = a.end
        BY <1>1, <1>2 DEF Untouched
      <4> QED BY <1>3, <4>1, <4>2, BoundsAssumption DEF Grown, Acc, Value
    <3>6. a.end \in 0..MaxValue /\ v \in 0..MaxValue /\ MaxValue \in Nat
      BY <1>3, BoundsAssumption DEF Acc, Value
    <3>7. (restarts[pc][n] + r) * MaxValue = restarts[pc][n] * MaxValue + r * MaxValue
          /\ restarts[pc][n] * MaxValue \in Nat
          /\ r * MaxValue = (IF r = 1 THEN MaxValue ELSE 0)
      BY <1>3, <3>6
    <3>8. /\ Grown(Add(a, v)) <= events[pc][n] + e
          /\ events[pc][n] + e <= Grown(Add(a, v)) + (restarts[pc][n] + r) * MaxValue
      <4> DEFINE k == restarts[pc][n] * MaxValue
                 h == IF ~a.known THEN 0 ELSE IF v < a.end THEN Grown(a)
                                              ELSE Grown(a) + (v - a.end)
      <4>1. h <= events[pc][n] + e
            /\ events[pc][n] + e <= h + (k + (IF r = 1 THEN MaxValue ELSE 0))
        <5>1. MaxValue \in Nat /\ Grown(a) \in Nat /\ k \in Nat /\ events[pc][n] \in Nat
              /\ a.end \in 0..MaxValue /\ v \in 0..MaxValue
          BY <1>3, <3>5, <3>6, <3>7
        <5>2. Grown(a) <= events[pc][n] /\ events[pc][n] <= Grown(a) + k
              /\ (~a.known => Grown(a) = 0)
          BY <3>3, <3>5
        <5> HIDE DEF a, k
        <5> QED BY <1>3, <5>1, <5>2, <1>7, SampleArithmetic
      <4>2. (restarts[pc][n] + r) * MaxValue = k + (IF r = 1 THEN MaxValue ELSE 0)
        BY <3>7
      <4>3. Grown(Add(a, v)) = h
        BY <3>4
      <4> HIDE DEF k, h, a
      <4> QED BY <4>1, <4>2, <4>3
    <3> QED BY <1>10, <2>3, <3>2, <3>8
  <2> QED BY <2>2, <2>3
<1>13. Untouched'
  <2> SUFFICES ASSUME NEW c \in Counters, NEW m \in Nodes, ~acc'[c][m].known
               PROVE  acc'[c][m].sum = 0 /\ acc'[c][m].begin = acc'[c][m].end
    BY DEF Untouched
  <2>1. <<c, m>> # <<pc, n>>
    BY <1>4, <1>9
  <2> QED BY <1>2, <1>9, <2>1 DEF Untouched
<1>14. FirstPass'
  BY <1>1, <1>2, <1>9 DEF FirstPass, Counters
<1> QED BY <1>11, <1>12, <1>13, <1>14 DEF IInv

\* Both kinds of sample.
LEMMA RowInv ==
    ASSUME IInv, NEW n \in Nodes, NEW v \in Value,
           Row(n, v) \/ \E last \in Value : RowAfterRestart(n, v, last)
    PROVE  IInv'
<1> DEFINE a == acc[pc][n]
<1>1. pc \in Counters
  BY DEF Row, RowAfterRestart
<1>2. a \in Acc /\ a.end \in 0..MaxValue /\ v \in 0..MaxValue /\ MaxValue \in Nat
  BY <1>1, EntryType, BoundsAssumption DEF IInv, Acc, Value
<1>3. CASE Row(n, v)
  <2> DEFINE e == IF a.known THEN v - a.end ELSE 0
  <2>1. Sample(n, v, e, 0) /\ (a.known => v >= a.end)
    BY <1>3 DEF Row
  <2>2. e \in Nat /\ CountedWell(a, v, e, 0)
    BY <1>2, <2>1 DEF CountedWell
  <2> HIDE DEF e
  <2> QED BY <1>1, <2>1, <2>2, SampleInv
<1>4. ASSUME NEW last \in Value, RowAfterRestart(n, v, last) PROVE IInv'
  <2> DEFINE e == last - a.end + v
  <2>1. Sample(n, v, e, 1) /\ a.known /\ last >= a.end
    BY <1>4 DEF RowAfterRestart
  <2>2. e \in Nat /\ CountedWell(a, v, e, 1)
    BY <1>2, <2>1 DEF CountedWell, Value
  <2> HIDE DEF e
  <2> QED BY <1>1, <2>1, <2>2, SampleInv
<1> QED BY <1>3, <1>4

\* The end of a pass: every sum is closed and stays what it was worth.
LEMMA FinishInv == ASSUME IInv, Finish PROVE IInv'
<1>1. TypeOK /\ SumsRight /\ Untouched /\ FirstPass
  BY DEF IInv
<1>2. /\ pc \in Counters /\ listed' = listed /\ missing' = missing
      /\ unqualified' = unqualified /\ events' = events /\ restarts' = restarts /\ rows' = 0
  BY DEF Finish
<1>3. CASE /\ pc' = IF pc = "succ" THEN "fail" ELSE "report"
           /\ acc' = [acc EXCEPT ![pc] =
                         [n \in Nodes |-> IF acc[pc][n].known THEN Close(acc[pc][n])
                                                              ELSE acc[pc][n]]]
  <2>1. \A c \in Counters, n \in Nodes :
            acc'[c][n] = IF c = pc /\ acc[c][n].known THEN Close(acc[c][n]) ELSE acc[c][n]
    BY <1>1, <1>2, <1>3 DEF TypeOK
  <2>2. \A c \in Counters, n \in Nodes :
            /\ acc'[c][n] \in Acc /\ acc'[c][n].begin <= acc'[c][n].end
            /\ acc'[c][n].known = acc[c][n].known
            /\ acc'[c][n].begin = acc[c][n].begin /\ acc'[c][n].end = acc[c][n].end
            /\ acc'[c][n].sum = IF c = pc /\ acc[c][n].known THEN Grown(acc[c][n])
                                                            ELSE acc[c][n].sum
    <3> TAKE c \in Counters, n \in Nodes
    <3>1. acc[c][n] \in Acc /\ acc[c][n].begin <= acc[c][n].end
      BY <1>1, EntryType
    <3>2. /\ Close(acc[c][n]) \in Acc
          /\ Close(acc[c][n]).begin = acc[c][n].begin /\ Close(acc[c][n]).end = acc[c][n].end
          /\ Close(acc[c][n]).known = acc[c][n].known
          /\ Close(acc[c][n]).sum = Grown(acc[c][n])
      BY <3>1, CloseType
    <3> QED BY <2>1, <3>1, <3>2
  <2>3. acc' \in [Counters -> [Nodes -> Acc]]
    <3>1. [n \in Nodes |-> IF acc[pc][n].known THEN Close(acc[pc][n]) ELSE acc[pc][n]]
              \in [Nodes -> Acc]
      <4> SUFFICES ASSUME NEW n \in Nodes
                   PROVE  (IF acc[pc][n].known THEN Close(acc[pc][n]) ELSE acc[pc][n]) \in Acc
        OBVIOUS
      <4>1. acc[pc][n] \in Acc /\ acc[pc][n].begin <= acc[pc][n].end
        BY <1>1, <1>2, EntryType
      <4> QED BY <4>1, CloseType
    <3> QED BY <1>1, <1>3, <3>1 DEF TypeOK
  <2>4. TypeOK'
    BY <1>1, <1>2, <1>3, <2>2, <2>3 DEF TypeOK, Counters
  <2>5. SumsRight'
    <3> SUFFICES ASSUME NEW c \in Counters, NEW n \in Nodes
                 PROVE  Total(c, n)' = Total(c, n)
      BY <1>1, <1>2 DEF SumsRight
    <3>1. acc[c][n] \in Acc /\ acc[c][n].begin <= acc[c][n].end
      BY <1>1, EntryType
    <3>2. ~acc[c][n].known => acc[c][n].sum = 0 /\ acc[c][n].begin = acc[c][n].end
      BY <1>1 DEF Untouched
    <3>3. CASE c = pc
      <4>1. ~Closed(c) /\ Closed(c)'
        BY <1>2, <1>3, <3>3 DEF Closed, Counters
      <4>2. Total(c, n) = Grown(acc[c][n]) /\ Total(c, n)' = acc'[c][n].sum + 0
        BY <4>1 DEF Total, Grown
      <4>3. Grown(acc[c][n]) \in Nat /\ acc[c][n].sum \in Nat
        BY <3>1, BoundsAssumption DEF Grown, Acc, Value
      <4>4. ~acc[c][n].known => Grown(acc[c][n]) = acc[c][n].sum
        BY <3>1, <3>2, BoundsAssumption DEF Grown, Acc, Value
      <4> QED BY <2>2, <3>3, <4>2, <4>3, <4>4
    <3>4. CASE c # pc
      <4>1. Closed(c)' = Closed(c)
        BY <1>2, <1>3, <3>4 DEF Closed, Counters
      <4>2. acc'[c][n] = acc[c][n]
        BY <2>1, <3>4
      <4> QED BY <4>1, <4>2 DEF Total
    <3> QED BY <3>3, <3>4
  <2>6. Untouched'
    BY <1>1, <2>2 DEF Untouched
  <2>7. FirstPass'
    BY <1>3 DEF FirstPass
  <2> QED BY <2>4, <2>5, <2>6, <2>7 DEF IInv
<1>4. CASE /\ ~(\A n \in Nodes : InMap(n) => acc[pc][n].known)
           /\ pc' = "raised" /\ UNCHANGED acc
  <2>1. pc = "fail"
    BY <1>1, <1>2, <1>4 DEF FirstPass, InMap, Counters
  <2>2. TypeOK'
    BY <1>1, <1>2, <1>4 DEF TypeOK
  <2>3. \A c \in Counters : Closed(c)' = Closed(c)
    BY <1>4, <2>1 DEF Closed, Counters
  <2>4. \A c \in Counters, n \in Nodes : Total(c, n)' = Total(c, n)
    BY <1>4, <2>3 DEF Total
  <2>5. SumsRight' /\ Untouched' /\ FirstPass'
    BY <1>1, <1>2, <1>4, <2>4 DEF SumsRight, Untouched, FirstPass
  <2> QED BY <2>2, <2>5 DEF IInv
<1> QED BY <1>3, <1>4 DEF Finish

\* The report changes no sum.
LEMMA ReportInv == ASSUME IInv, Report PROVE IInv'
<1>1. TypeOK /\ SumsRight /\ Untouched
  BY DEF IInv
<1>2. pc = "report" /\ pc' = "done" /\ listed' = listed /\ acc' = acc
      /\ events' = events /\ restarts' = restarts /\ rows' = rows
  BY DEF Report, history
<1>3. missing' \subseteq listed /\ unqualified' \subseteq listed
  BY DEF Report
<1>4. TypeOK'
  BY <1>1, <1>2, <1>3 DEF TypeOK
<1>5. \A c \in Counters, n \in Nodes : Total(c, n)' = Total(c, n)
  BY <1>2 DEF Total, Closed
<1>6. SumsRight' /\ Untouched' /\ FirstPass'
  BY <1>1, <1>2, <1>5 DEF SumsRight, Untouched, FirstPass
<1> QED BY <1>4, <1>6 DEF IInv

\* A step that changes nothing.
LEMMA StutterInv == ASSUME IInv, UNCHANGED vars PROVE IInv'
<1>1. TypeOK'
  BY DEF IInv, TypeOK, vars, history
<1>2. \A c \in Counters, n \in Nodes : Total(c, n)' = Total(c, n)
  BY DEF Total, Closed, vars
<1>3. SumsRight' /\ Untouched' /\ FirstPass'
  BY <1>2 DEF IInv, SumsRight, Untouched, FirstPass, vars, history
<1> QED BY <1>1, <1>3 DEF IInv

\* The invariant that the theorems rest on.
LEMMA Inductive == Spec => []IInv
<1>1. IInv /\ [Next]_vars => IInv'
  <2> SUFFICES ASSUME IInv, [Next]_vars PROVE IInv'
    OBVIOUS
  <2>1. ASSUME NEW n \in Nodes, NEW v \in Value,
               Row(n, v) \/ \E last \in Value : RowAfterRestart(n, v, last)
        PROVE  IInv'
    BY <2>1, RowInv
  <2>2. CASE Finish
    BY <2>2, FinishInv
  <2>3. CASE Report
    BY <2>3, ReportInv
  <2>4. CASE UNCHANGED vars
    BY <2>4, StutterInv
  <2> QED BY <2>1, <2>2, <2>3, <2>4 DEF Next
<1> QED BY <1>1, InitInv, PTL DEF Spec

\* All variables have their types; no stretch ends below its beginning, so no sum of
\* the report is negative (spider.py:195-219).
THEOREM TypeCorrect == Spec => []TypeOK
<1>1. IInv => TypeOK
  BY DEF IInv
<1> QED BY <1>1, Inductive, PTL

\* Whatever nodes report, in any number, with any values and restarts: no event is
\* counted twice, and a restart costs at most what a counter can hold
\* (spider.py:195-219).
THEOREM SumsAreRight == Spec => []SumsRight
<1>1. IInv => SumsRight
  BY DEF IInv
<1> QED BY <1>1, Inductive, PTL
-----------------------------------------------------------------------------
\* A share that is rounded to two decimals is below 80 only if it is, and is
\* whenever it is below 79.99.
LEMMA Rounding ==
    ASSUME NEW s \in Nat, NEW f \in Nat
    PROVE  /\ LowRate(s, f) /\ f # 0 => ~(s >= 4 * f)
           /\ 10000 * s < 7999 * (s + f) => LowRate(s, f) /\ f # 0
BY DEF LowRate, consensus_succ_rate_hold

\* When both counters are closed, the sums of a node that did not restart are what
\* it counted.
LEMMA SumsExact ==
    ASSUME IInv, pc \in {"report", "done"}, NEW n \in Nodes, Undisturbed(n),
           NEW c \in Counters
    PROVE  acc[c][n].sum = events[c][n] /\ events[c][n] \in Nat
<1>1. acc[c][n].sum \in Nat /\ events[c][n] \in Nat
  BY EntryType DEF IInv, Acc
<1>2. Total(c, n) = acc[c][n].sum
  BY <1>1 DEF Total, Closed, Counters
<1>3. restarts[c][n] * MaxValue = 0
  BY BoundsAssumption DEF Undisturbed
<1>4. Total(c, n) <= events[c][n] /\ events[c][n] <= Total(c, n) + restarts[c][n] * MaxValue
  BY DEF IInv, SumsRight
<1> QED BY <1>1, <1>2, <1>3, <1>4

\* A step of the report keeps it right: samples and the end of the first pass come
\* before anything is claimed, the end of the second pass finds out which nodes lack
\* a counter, and the report compares sums that are exact.
LEMMA StepRight == IInv /\ ReportRight /\ [Next]_vars => ReportRight'
<1> SUFFICES ASSUME IInv, ReportRight, [Next]_vars PROVE ReportRight'
  OBVIOUS
<1>1. ASSUME NEW n \in Nodes, NEW v \in Value,
             Row(n, v) \/ \E last \in Value : RowAfterRestart(n, v, last)
      PROVE  ReportRight'
  BY <1>1 DEF Row, RowAfterRestart, Sample, ReportRight, Counters
<1>2. CASE Finish
  <2>1. CASE ~(\A n \in Nodes : InMap(n) => acc[pc][n].known)
    <3>1. pc' = "raised" /\ UNCHANGED acc /\ pc \in Counters
      BY <1>2, <2>1 DEF Finish
    <3>2. PICK n \in Nodes : InMap(n) /\ ~acc[pc][n].known
      BY <2>1
    <3>3. pc = "fail"
      BY <3>1, <3>2 DEF IInv, FirstPass, InMap, Counters
    <3>4. acc["succ"][n].known /\ ~acc["fail"][n].known
      BY <3>2, <3>3 DEF InMap, Counters
    <3> QED BY <3>1, <3>4 DEF ReportRight
  <2>2. CASE \A n \in Nodes : InMap(n) => acc[pc][n].known
    <3>1. CASE pc = "succ"
      <4>1. pc' = "fail"
        BY <1>2, <2>2, <3>1 DEF Finish
      <4> QED BY <4>1 DEF ReportRight
    <3>2. CASE pc = "fail"
      <4>1. /\ pc' = "report"
            /\ acc' = [acc EXCEPT !["fail"] =
                          [n \in Nodes |-> IF acc["fail"][n].known THEN Close(acc["fail"][n])
                                                                  ELSE acc["fail"][n]]]
        BY <1>2, <2>2, <3>2 DEF Finish
      <4>2. ASSUME NEW n \in Nodes
            PROVE  ~(acc'["succ"][n].known /\ ~acc'["fail"][n].known)
        <5>1. acc["fail"][n] \in Acc /\ acc["fail"][n].begin <= acc["fail"][n].end
          BY EntryType DEF IInv, Counters
        <5>2. acc'["fail"][n].known = acc["fail"][n].known /\ acc'["succ"][n] = acc["succ"][n]
          BY <4>1, <5>1, CloseType DEF IInv, TypeOK, Counters
        <5>3. InMap(n) => acc["fail"][n].known
          BY <2>2, <3>2
        <5> QED BY <5>2, <5>3 DEF InMap, Counters
      <4> QED BY <4>1, <4>2 DEF ReportRight
    <3> QED BY <1>2, <3>1, <3>2 DEF Finish, Counters
  <2> QED BY <2>1, <2>2
<1>3. CASE Report
  <2>1. /\ pc = "report" /\ pc' = "done" /\ UNCHANGED <<listed, acc, events, restarts>>
        /\ missing' = {n \in listed : Lacking(n)}
        /\ unqualified' = {n \in listed \ missing' :
                              /\ acc["fail"][n].sum # 0
                              /\ LowRate(acc["succ"][n].sum, acc["fail"][n].sum)}
    BY <1>3 DEF Report, history
  <2>2. missing' = {n \in listed' : \E c \in Counters : ~acc'[c][n].known}
    BY <2>1 DEF Lacking
  <2>3. ASSUME NEW n \in listed' \ missing', Undisturbed(n)'
        PROVE  (n \in unqualified' => ~Qualified(n)') /\ (Poor(n)' => n \in unqualified')
    <3>1. n \in Nodes /\ n \in listed /\ Undisturbed(n)
      BY <2>1, <2>3 DEF IInv, TypeOK, Undisturbed
    <3>2. /\ acc["succ"][n].sum = events["succ"][n] /\ events["succ"][n] \in Nat
          /\ acc["fail"][n].sum = events["fail"][n] /\ events["fail"][n] \in Nat
      BY <2>1, <3>1, SumsExact DEF Counters
    <3>3. n \in unqualified' <=> /\ events["fail"][n] # 0
                                /\ LowRate(events["succ"][n], events["fail"][n])
      BY <2>1, <2>3, <3>1, <3>2
    <3>4. /\ Qualified(n)' <=> events["succ"][n] >= 4 * events["fail"][n]
          /\ Poor(n)' <=>
                10000 * events["succ"][n] < 7999 * (events["succ"][n] + events["fail"][n])
      BY <2>1 DEF Qualified, Poor
    <3> QED BY <3>2, <3>3, <3>4, Rounding
  <2> QED BY <2>1, <2>2, <2>3 DEF ReportRight
<1>4. CASE UNCHANGED vars
  BY <1>4 DEF ReportRight, Undisturbed, Qualified, Poor, vars, history
<1> QED BY <1>1, <1>2, <1>3, <1>4 DEF Next

\* A report that comes to its end names the right nodes, whatever was sampled, and it
\* does not come to its end when a node has samples of success and none of failure
\* (spider.py:215-249).
THEOREM ReportIsRight == Spec => []ReportRight
<1>1. Init => ReportRight
  BY DEF Init, ReportRight
<1> QED BY <1>1, StepRight, Inductive, PTL DEF Spec
=============================================================================
