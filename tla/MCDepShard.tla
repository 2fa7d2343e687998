------------------------------ MODULE MCDepShard ------------------------------
(***************************************************************************)
(* Instances of DepShard for TLC: three replicas, and process 3, which does  *)
(* not vote and hands its commands to 1 under EPaxos.                        *)
(***************************************************************************)
EXTENDS DepProperties, DepExecution

MCProc    == 0 .. 3
MCVoting  == {0, 1, 2}
NoLatency == [p \in Proc |-> [q \in Proc |-> 0]]

\* Writes of two keys: "both" is about both.
MCKeysOf == [c \in Cmd |-> CASE c = "both" -> {1, 2} [] c = "second" -> {2} [] OTHER -> {1}]

Nobody    == [p \in Proc |-> <<>>]
At(p, xs) == [Nobody EXCEPT ![p] = xs]

OverEPaxos ==
  [protocol |-> "EPaxos", coordinator |-> [p \in Proc |-> IF p = 3 THEN 1 ELSE p],
   leader |-> 0, quorum |-> {}, cross_shard |-> FALSE,
   batch_commands |-> FALSE, batch_acks |-> FALSE, commands |-> Nobody, reads |-> Nobody]
OverSwiftPaxos == [OverEPaxos EXCEPT !.protocol = "SwiftPaxos"]
FixedQuorum    == [OverSwiftPaxos EXCEPT !.quorum = {0, 1}]

MCSetups ==
  { \* An instance about two keys meets one that was handed over.
    [OverEPaxos EXCEPT !.cross_shard = TRUE, !.batch_commands = TRUE,
       !.commands = [At(0, <<"both">>) EXCEPT ![3] = <<"second">>]],
    \* A client's commands in one instance or two; a read of what another wrote.
    [OverEPaxos EXCEPT !.batch_commands = TRUE, !.commands = At(1, <<"a", "b">>)],
    [OverEPaxos EXCEPT !.commands = At(0, <<"a">>), !.reads = At(2, <<1>>)],
    \* The leader orders what two others propose; one of them has no fast vote.
    [FixedQuorum EXCEPT !.commands = [At(1, <<"a">>) EXCEPT ![2] = <<"b">>]],
    \* Who does not vote proposes, while a replica reads.
    [OverSwiftPaxos EXCEPT !.commands = At(3, <<"a">>), !.reads = At(2, <<1>>)],
    \* Acks of two instances in a bundle.
    [FixedQuorum EXCEPT !.batch_acks = TRUE, !.commands = At(1, <<"a", "b">>)] }
=============================================================================
