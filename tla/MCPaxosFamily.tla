--------------------------- MODULE MCPaxosFamily ---------------------------
(***************************************************************************)
(* Instances of PaxosFamily for TLC: small topologies, and the committers,   *)
(* delegates and order of leaders that LeaderPlans computes from them.       *)
(***************************************************************************)
EXTENDS LeaderPlans, PaxosProperties

\* Symmetric matrices from the distances between processes.
Matrix(n, far(_, _)) ==
  [p \in 0 .. n - 1 |-> [q \in 0 .. n - 1 |->
     CASE p < q -> far(p, q) [] p = q -> 0 [] p > q -> far(q, p)]]

MCProc3 == 0 .. 2
MCProc4 == 0 .. 3
Voting3 == {0, 1, 2}
Voting4 == 0 .. 3

\* 0 is between the others, and the best leader.
Triangle3 == Matrix(3, LAMBDA p, q : CASE p = 0 /\ q = 1 -> 421
                                       [] p = 0 /\ q = 2 -> 875
                                       [] p = 1 /\ q = 2 -> 1225)
\* On a line, the promises of 0's rounds go to 2, and those of 1's to 1.
Line4     == Matrix(4, LAMBDA p, q : 10 * (q - p))
\* A fourth process that does not vote, nearer to 1 than to the others.
Observer4 == Matrix(4, LAMBDA p, q : CASE q # 3 -> 20
                                       [] p = 1 -> 10
                                       [] OTHER -> 50)

\* Replica 0 between the two others, and a process that does not vote beyond 1.
Spur4     == Matrix(4, LAMBDA p, q : CASE p = 0 /\ q # 3 -> 10
                                       [] p = 0 /\ q = 3 -> 15
                                       [] p = 1 /\ q = 2 -> 20
                                       [] p = 1 /\ q = 3 -> 5
                                       [] p = 2 /\ q = 3 -> 25)

\* Who leads first, who commits for whom, and Pando's delegates (unused elsewhere).
Leaders(priority, committer, delegate) ==
  [priority |-> priority, committer |-> committer, delegate |-> delegate]
Alone == [p \in Proc |-> p]

MultiPriority   == ByLatency(SumOver(MultiPaxosLatency))
Multi3PPriority == ByLatency(SumOver(MultiPaxos3PLatency))
EPaxosOwn       == EPaxosLatency(EPaxosQuorum)

Plan ==
  CASE Mode = "Paxos" ->
         Leaders(ByLatency(PlanLatencies(PaxosLatency)), BestCommitter(PaxosLatency), Alone)
    [] Mode = "Pando" ->
         Leaders(ByLatency(PlanLatencies(PandoLatency)), BestCommitter(PandoLatency),
                 PandoDelegates)
    [] Mode = "EPaxos" ->
         Leaders(ByLatency(PlanLatencies(EPaxosOwn)), BestCommitter(EPaxosOwn), Alone)
    [] Mode = "MultiPaxos" ->
         Leaders(MultiPriority, [p \in Proc |-> None], Alone)
    [] Mode = "MultiPaxos3P" ->
         Leaders(Multi3PPriority,
                 [p \in Proc |-> MultiPaxos3PCommitter(Multi3PPriority[1], p)], Alone)

\* TLC evaluates a definition without parameters once, and completely if it has
\* to compare it.
ThePlan     == CHOOSE plan \in {Plan} : plan = plan
MCPriority  == ThePlan.priority
MCCommitter == ThePlan.committer
MCDelegate  == ThePlan.delegate

Submits(commands) == [p \in Proc |-> commands[p + 1]]
W111  == Submits(<<1, 1, 1>>)
W1100 == Submits(<<1, 1, 0, 0>>)
W1001 == Submits(<<1, 0, 0, 1>>)
W0101 == Submits(<<0, 1, 0, 1>>)
=============================================================================
