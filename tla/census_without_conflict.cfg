\* Four replicas on a line; the clients of two submit, and 0 proposes leftovers.
SPECIFICATION Spec
CONSTANTS
  Proc          <- MCProc4
  NbReplicas    =  4
  AliveReplicas <- Voting4
  LinkLatency   <- Line4
  Graph         <- MCGraph
  Workload      <- W0110
  FirstLeader   =  0
INVARIANT ExplicitMeansConflict
