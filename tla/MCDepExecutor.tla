---------------------------- MODULE MCDepExecutor ----------------------------
(***************************************************************************)
(* Instances of DepExecutor for TLC.                                        *)
(***************************************************************************)
EXTENDS DepExecutor

MCProc3 == 0 .. 2
NoLatency == [p \in Proc |-> [q \in Proc |-> 0]]

\* Of two processes two instances each, on keys that overlap in part.
Five == {<<0, 0>>, <<0, 1>>, <<1, 0>>, <<1, 1>>, <<2, 0>>}
TwoKeys ==
  [id \in Five |-> CASE id \in {<<0, 0>>, <<1, 1>>} -> {1}
                     [] id \in {<<0, 1>>, <<2, 0>>} -> {2}
                     [] id = <<1, 0>>               -> {1, 2}]
=============================================================================
