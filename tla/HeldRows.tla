------------------------------ MODULE HeldRows -------------------------------
(***************************************************************************)
(* The rows that a consumer makes of a batch.                              *)
(***************************************************************************)
EXTENDS Integers, Sequences

\* The alarm a becomes a row of database d: it is of the consumer's alarm_type.
IsRow(a, d) == a.kind # "alien" /\ a.db = d

\* Which elements of b, indices in alarms, become rows of d, in the order of b.
RowsOf(alarms, b, d) ==
    LET rows[n \in 0..Len(b)] ==
            IF n = 0 THEN <<>>
            ELSE IF IsRow(alarms[b[n]], d) THEN Append(rows[n - 1], b[n])
                                           ELSE rows[n - 1]
    IN  rows[Len(b)]
=============================================================================
