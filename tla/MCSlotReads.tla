----------------------------- MODULE MCSlotReads -----------------------------
(***************************************************************************)
(* Instances of SlotReads for TLC.                                          *)
(***************************************************************************)
EXTENDS SlotReads

MCProc3 == 0 .. 2
MCProc4 == 0 .. 3
Voting3 == {0, 1, 2}
NoLatency == [p \in Proc |-> [q \in Proc |-> 0]]

\* Writes of the first shard only; process 0 reads it twice, and the other once.
MCWrites == [sh \in Shard |-> IF sh = 1 THEN 1 ELSE 0]
ReadsOf0 == [p \in Proc |-> [sh \in Shard |-> IF p # 0 THEN 0 ELSE IF sh = 1 THEN 2 ELSE 1]]
\* Process 3, which does not vote, reads once.
ReadsOf3 == [p \in Proc |-> [sh \in Shard |-> IF p = 3 THEN 1 ELSE 0]]
=============================================================================
