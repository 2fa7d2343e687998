\* A process that does not vote reads.
SPECIFICATION Spec
CONSTANTS
  Proc          <- MCProc4
  NbReplicas    =  3
  AliveReplicas <- Voting3
  LinkLatency   <- NoLatency
  Shard         =  {1}
  PoolSize      =  1
  Writes        <- MCWrites
  Reads         <- ReadsOf3
INVARIANT ReadsLinearizable
CHECK_DEADLOCK FALSE
