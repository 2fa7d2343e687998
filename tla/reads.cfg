\* Three replicas and two shards on pools of one: shards wake up, sleep, and make
\* the pools grow.  The system stops once nothing is left to read or write.
SPECIFICATION FairSpec
CONSTANTS
  Proc          <- MCProc3
  NbReplicas    =  3
  AliveReplicas <- Voting3
  LinkLatency   <- NoLatency
  Shard         =  {1, 2}
  PoolSize      =  1
  Writes        <- MCWrites
  Reads         <- ReadsOf0
INVARIANTS TypeOK ReplicaReadsLinearizable PhysicalShardsApart FreeShardsPristine
PROPERTY EveryReadServed
CHECK_DEADLOCK FALSE
