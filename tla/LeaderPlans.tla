----------------------------- MODULE LeaderPlans -----------------------------
(***************************************************************************)
(* The plans of the leader-based modes: who commits the commands of a       *)
(* process, through which delegate, and in which order processes are asked   *)
(* to lead.  Latencies are those of LinkLatency; a process that casts no     *)
(* vote goes through a replica, and takes the best one.                      *)
(***************************************************************************)
EXTENDS Topology, SequencesExt

\* The k-th smallest of f[x], x in its domain.
KthSmallest(f, k) ==
  CHOOSE y \in Range(f) :
    /\ Cardinality({x \in DOMAIN f : f[x] < y}) < k
    /\ Cardinality({x \in DOMAIN f : f[x] <= y}) >= k

\* quorum_3p_link_rtts[src][dest][k - 1]: k replicas, asked by src, have told dest.
Quorum3P(src, dest, k) ==
  KthSmallest([r \in AliveReplicas |-> LinkLatency[src][r] + LinkLatency[r][dest]], k)
QuorumLink(p, k) == Quorum3P(p, p, k)
LinkRtt(p, q)    == LinkLatency[p][q] + LinkLatency[q][p]

\* The first replica, by id, of least cost.
Best(cost) ==
  CHOOSE x \in AliveReplicas :
    \A y \in AliveReplicas : cost[x] < cost[y] \/ (cost[x] = cost[y] /\ x <= y)

\* best_committer; own[c] is what replica c needs to commit a command of its own.
Through(own, p) == [c \in AliveReplicas |-> LinkRtt(p, c) + own[c]]
BestCommitter(own) ==
  [p \in Proc |-> IF p \in AliveReplicas THEN p ELSE Best(Through(own, p))]
PlanLatencies(own) ==
  [p \in Proc |-> IF p \in AliveReplicas THEN own[p]
                  ELSE Through(own, p)[BestCommitter(own)[p]]]

\* leader_prio: the live replicas by increasing latency, equal ones by id.
ByLatency(latency) ==
  SetToSortSeq(AliveReplicas,
               LAMBDA p, q : latency[p] < latency[q] \/ (latency[p] = latency[q] /\ p < q))

-----------------------------------------------------------------------------
PaxosLatency == [p \in AliveReplicas |-> 2 * QuorumLink(p, Majority)]

\* Pando: the leader's promises go to a delegate, which asks for the votes.
PandoLatencyVia(p) ==
  [d \in AliveReplicas |-> Quorum3P(p, d, Majority) + Quorum3P(d, p, Majority)]
PandoDelegate(p) == Best(PandoLatencyVia(p))
PandoLatency     == [p \in AliveReplicas |-> PandoLatencyVia(p)[PandoDelegate(p)]]
PandoDelegates   == [p \in Proc |-> PandoDelegate(BestCommitter(PandoLatency)[p])]

\* EPaxos, with Paxos' latency when too few replicas are alive for its quorum.
EPaxosLatency(quorum) ==
  IF quorum <= Cardinality(AliveReplicas)
  THEN [p \in AliveReplicas |-> QuorumLink(p, quorum)]
  ELSE PaxosLatency

\* Multi-Paxos: what every requester waits, under each leader.
MultiPaxosLatency ==
  [leader \in AliveReplicas |->
     [p \in Proc |-> LinkRtt(p, leader) + QuorumLink(leader, Majority)]]

\* With three phases the votes go to the requester, or to the replica from
\* which it learns of the commit first.
Commit3PLatency(leader, p) ==
  [c \in AliveReplicas |->
     LinkLatency[p][leader] + Quorum3P(leader, c, Majority) + LinkLatency[c][p]]
MultiPaxos3PCommitter(leader, p) ==
  IF p \in AliveReplicas THEN p ELSE Best(Commit3PLatency(leader, p))
MultiPaxos3PLatency ==
  [leader \in AliveReplicas |->
     [p \in Proc |-> Commit3PLatency(leader, p)[MultiPaxos3PCommitter(leader, p)]]]

\* Leaders are compared by the sum over all requesters.
SumOver(latency) ==
  [leader \in AliveReplicas |-> FoldFunction(LAMBDA x, y : x + y, 0, latency[leader])]
=============================================================================
