---------------------------- MODULE Requirements ----------------------------
(***************************************************************************)
(* What makes the knowledge that two commands gather sufficient.  K[q] is   *)
(* the set of acceptors that q witnessed before the command's leader heard  *)
(* of it; the leader may commit once all of K has been gathered.            *)
(***************************************************************************)
EXTENDS Topology

\* LatencyTables' quorum sizes.  Two of its minima, max_faults + 1 and
\* 1 + nb_replicas / 2, are combined.
MaxFaults == (NbReplicas - 1) \div 2
MaxQuorum == NbReplicas - MaxFaults
MinQuorum == IF MaxFaults + 1 > 1 + NbReplicas \div 2 THEN MaxFaults + 1
             ELSE 1 + NbReplicas \div 2

\* Requirements K of a command led by `a' are valid when a's own set is
\* everything anyone is required to know.
IsValidKnowledge(a, K) ==
  /\ UNION {K[p] : p \in Proc} = K[a]
  /\ Cardinality(K[a]) >= MinQuorum

\* Processes that, having witnessed their part of one command, know of an
\* acceptance that rules the other one out.
Deducers(a, Ka, b, Kb) ==
  {p \in Proc : Ka[a] \cap Kb[p] # {} \/ Kb[b] \cap Ka[p] # {}}

AreCompatible(a, Ka, b, Kb) ==
  /\ Cardinality(Kb[b]) >= MinQuorum
  /\ Cardinality(Deducers(a, Ka, b, Kb)) >= MinQuorum
=============================================================================
