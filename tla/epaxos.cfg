\* Three pre-accepts that conflict.
SPECIFICATION Spec
CONSTANTS
  Proc           <- MCProc3
  NbReplicas     =  3
  AliveReplicas  <- Voting3
  LinkLatency    <- Triangle3
  Mode           =  "EPaxos"
  LeaderPriority <- MCPriority
  Committer      <- MCCommitter
  Delegate       <- MCDelegate
  Workload       <- W111
INVARIANTS Agreement ReplicasReportFast IdleIsClear
PROPERTY ImplementsVotes
