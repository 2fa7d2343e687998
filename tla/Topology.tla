------------------------------ MODULE Topology ------------------------------
(***************************************************************************)
(* The processes of a run.  Non-voting processes propose and execute but   *)
(* are not replicas; faulty replicas are known before the run starts and    *)
(* only shrink the set of live ones, never the quorum.                      *)
(***************************************************************************)
EXTENDS Integers, FiniteSets

CONSTANTS
  Proc,           \* process ids, 0 .. nb_processes - 1
  NbReplicas,     \* voting processes, faulty ones included
  AliveReplicas,  \* the replicas that take part in the run
  LinkLatency     \* LinkLatency[src][dest], in any unit of time

ASSUME TopologyAssumption ==
  /\ Cardinality(Proc) \in Nat \ {0}
  /\ Proc = 0 .. Cardinality(Proc) - 1
  /\ NbReplicas \in Nat \ {0}
  /\ AliveReplicas \subseteq Proc
  /\ Cardinality(AliveReplicas) <= NbReplicas
  /\ LinkLatency \in [Proc -> [Proc -> Nat]]

\* An optional process id: None is -1, below every id, as None < Some(_) in Rust.
None    == -1
OptProc == Proc \cup {None}

\* Mutant: one replica more than a majority.
MostReplicas == 2 + NbReplicas \div 2

\* The fallback's quorum.
Majority == 1 + NbReplicas \div 2
=============================================================================
