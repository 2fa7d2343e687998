\* A topology whose best paths relay through 0; one command each, leftovers
\* proposed by the process farthest from the others.
SPECIFICATION Spec
CONSTANTS
  Proc          <- MCProc3
  NbReplicas    =  3
  AliveReplicas <- Voting3
  LinkLatency   <- Detour3
  Graph         <- MCGraph
  Workload      <- W111
  FirstLeader   =  2
INVARIANTS TypeOK Agreement NoPanic ReplicasReportFast AdoptsFastDecision NoViewAhead
PROPERTIES PromisesKept ImplementsVotes ImplementsReplicatedLog
