---------------------------- MODULE ConsensusRate ----------------------------
(***************************************************************************)
(* The daily report on consensus (do_check_consensus_succ_rate2 of          *)
(* src/spider/spider.py).  Nodes count the blocks they lead to success and   *)
(* to failure, and report the two counters now and then; a counter starts     *)
(* again at zero with its node.  The report reads the samples of a day,       *)
(* first of "succ", then of "fail", adds up what each counter grew by,       *)
(* and names the nodes whose share of successes is below 80 %.              *)
(*                                                                         *)
(* The samples of a node come in the order of time; those of different nodes *)
(* do not meet, and come here in any order.                                *)
(***************************************************************************)
EXTENDS Integers, FiniteSets

CONSTANTS
    Nodes,      \* public ips
    MaxValue,   \* bound: the value of a counter
    MaxRows,    \* bound: samples of one counter
    MaxUnseen   \* bound: events of a counter between its last sample and a restart

ASSUME NodesAssumption == IsFiniteSet(Nodes)
ASSUME BoundsAssumption == {MaxValue, MaxRows, MaxUnseen} \subseteq Nat

Counters == {"succ", "fail"}
Value == 0..MaxValue

VARIABLES
    listed,      \* ips_table
    pc,          \* the counter being added up, then "report", "done"; or "raised"
    acc,         \* res_map: sum, begin and end of a counter and a node, if known
    missing,     \* missing_ip
    unqualified, \* unqualified_list
    rows,        \* history: samples read of the current counter
    events,      \* history: what the node really counted between first and last sample
    restarts     \* history: restarts of the node between its samples

history == <<rows, events, restarts>>
vars == <<listed, pc, acc, missing, unqualified, history>>

Acc == [known : BOOLEAN, sum : Nat, begin : Value, end : Value]
NoAcc == [known |-> FALSE, sum |-> 0, begin |-> 0, end |-> 0]
None == [c \in Counters |-> [n \in Nodes |-> 0]]

TypeOK ==
    /\ listed \subseteq Nodes /\ missing \subseteq listed /\ unqualified \subseteq listed
    /\ pc \in Counters \cup {"report", "done", "raised"}
    /\ acc \in [Counters -> [Nodes -> Acc]]
    /\ \A c \in Counters, n \in Nodes : acc[c][n].begin <= acc[c][n].end
    /\ rows \in Nat
    /\ events \in [Counters -> [Nodes -> Nat]]
    /\ restarts \in [Counters -> [Nodes -> Nat]]

Init ==
    /\ listed \in SUBSET Nodes
    /\ pc = "succ"
    /\ acc = [c \in Counters |-> [n \in Nodes |-> NoAcc]]
    /\ missing = {} /\ unqualified = {}
    /\ rows = 0 /\ events = None /\ restarts = None
-----------------------------------------------------------------------------
\* Mutant: the first sample counts from zero.
AddFromZero(a, v) ==
    IF ~a.known THEN [known |-> TRUE, sum |-> 0, begin |-> 0, end |-> v]
    ELSE IF v < a.end
         THEN [known |-> TRUE, sum |-> a.sum + (a.end - a.begin), begin |-> v, end |-> v]
         ELSE [known |-> TRUE, sum |-> a.sum, begin |-> a.begin, end |-> v]

\* One sample: a value below the last one is taken for a restart.
Add(a, v) ==
    IF ~a.known THEN [known |-> TRUE, sum |-> 0, begin |-> v, end |-> v]
    ELSE IF v < a.end
         THEN [known |-> TRUE, sum |-> a.sum + (a.end - a.begin), begin |-> v, end |-> v]
         ELSE [known |-> TRUE, sum |-> a.sum, begin |-> a.begin, end |-> v]

\* A sample of node n, which counted `counted` events since its last one and
\* restarted `again` times.
Sample(n, v, counted, again) ==
    /\ rows < MaxRows /\ rows' = rows + 1
    /\ acc' = [acc EXCEPT ![pc][n] = Add(acc[pc][n], v)]
    /\ events' = [events EXCEPT ![pc][n] = @ + counted]
    /\ restarts' = [restarts EXCEPT ![pc][n] = @ + again]
    /\ UNCHANGED <<listed, pc, missing, unqualified>>

Row(n, v) ==
    LET a == acc[pc][n] IN
    /\ pc \in Counters
    /\ a.known => v >= a.end
    /\ Sample(n, v, IF a.known THEN v - a.end ELSE 0, 0)

\* The node went on to `last` before it restarted; no sample tells of that.
RowAfterRestart(n, v, last) ==
    LET a == acc[pc][n] IN
    /\ pc \in Counters
    /\ a.known /\ last >= a.end /\ last - a.end <= MaxUnseen
    /\ Sample(n, v, last - a.end + v, 1)

\* Mutant: begin and end swapped.
CloseSwapped(a) == [a EXCEPT !.sum = @ + (a.begin - a.end)]

Close(a) == [a EXCEPT !.sum = @ + (a.end - a.begin)]

InMap(n) == \E c \in Counters : acc[c][n].known

\* The samples are read: the loop over res_map closes every node's last stretch.
\* A node of the map without the counter is a KeyError.
Finish ==
    /\ pc \in Counters
    /\ IF \A n \in Nodes : InMap(n) => acc[pc][n].known
       THEN /\ pc' = IF pc = "succ" THEN "fail" ELSE "report"
            /\ acc' = [acc EXCEPT ![pc] =
                          [n \in Nodes |-> IF acc[pc][n].known THEN Close(acc[pc][n])
                                                               ELSE acc[pc][n]]]
       ELSE pc' = "raised" /\ UNCHANGED acc
    /\ rows' = 0
    /\ UNCHANGED <<listed, missing, unqualified, events, restarts>>

\* Mutant: a node that has one of the counters is not missing.
LackingBoth(n) == ~InMap(n)

Lacking(n) == \E c \in Counters : ~acc[c][n].known

\* round(succ / (succ + fail) * 100, 2) < consensus_succ_rate_hold
consensus_succ_rate_hold == 80
LowRate(succ, fail) ==
    20000 * succ < (200 * consensus_succ_rate_hold - 1) * (succ + fail)

Report ==
    /\ pc = "report"
    /\ missing' = {n \in listed : Lacking(n)}
    /\ unqualified' = {n \in listed \ missing' :
                          /\ acc["fail"][n].sum # 0
                          /\ LowRate(acc["succ"][n].sum, acc["fail"][n].sum)}
    /\ pc' = "done"
    /\ UNCHANGED <<listed, acc, history>>

Next ==
    \/ \E n \in Nodes, v \in Value :
          Row(n, v) \/ \E last \in Value : RowAfterRestart(n, v, last)
    \/ Finish
    \/ Report

Spec == Init /\ [][Next]_vars
-----------------------------------------------------------------------------
Closed(c) == IF c = "succ" THEN pc # "succ" ELSE pc \in {"report", "done"}
Total(c, n) ==
    LET a == acc[c][n] IN a.sum + IF Closed(c) THEN 0 ELSE a.end - a.begin

\* The sums never count an event twice or one that did not happen, whatever the
\* samples and however often the node restarts; they are exact for a node that
\* did not restart, and a restart costs at most the value a counter had
\* (spider.py:195-219).
SumsRight ==
    \A c \in Counters, n \in Nodes :
        /\ Total(c, n) <= events[c][n]
        /\ events[c][n] <= Total(c, n) + restarts[c][n] * MaxValue

\* A report that comes to its end names as missing the listed nodes that lack
\* samples of one counter, and as unqualified, among those that did not restart, no
\* node of which 80 % was success and every node of which less than 79.99 % was: the
\* share is rounded to two decimals before it is compared.  The report does not come
\* to its end when some node has samples of "succ" and none of "fail", listed or not
\* (spider.py:215-249).
Undisturbed(n) == \A c \in Counters : restarts[c][n] = 0
Qualified(n) == events["succ"][n] >= 4 * events["fail"][n]
Poor(n) == 10000 * events["succ"][n] < 7999 * (events["succ"][n] + events["fail"][n])
ReportRight ==
    /\ pc = "done" =>
          /\ missing = {n \in listed : \E c \in Counters : ~acc[c][n].known}
          /\ \A n \in listed \ missing : Undisturbed(n) =>
                /\ n \in unqualified => ~Qualified(n)
                /\ Poor(n) => n \in unqualified
    /\ pc \in {"report", "done"} =>
          ~\E n \in Nodes : acc["succ"][n].known /\ ~acc["fail"][n].known
    /\ pc = "raised" =>
          \E n \in Nodes : acc["succ"][n].known /\ ~acc["fail"][n].known
=============================================================================
