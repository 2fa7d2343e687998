\* Two proposers, one of which has its promises sent to a delegate.
SPECIFICATION Spec
CONSTANTS
  Proc           <- MCProc4
  NbReplicas     =  4
  AliveReplicas  <- Voting4
  LinkLatency    <- Line4
  Mode           =  "Pando"
  LeaderPriority <- MCPriority
  Committer      <- MCCommitter
  Delegate       <- MCDelegate
  Workload       <- W1100
INVARIANTS TypeOK LaterRoundsKeepDecision
PROPERTIES RoundsKept ImplementsVotes
