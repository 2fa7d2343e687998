\* A requester that does not vote, nearest to a replica that is not the leader.
SPECIFICATION Spec
CONSTANTS
  Proc           <- MCProc4
  NbReplicas     =  3
  AliveReplicas  <- Voting3
  LinkLatency    <- Spur4
  Mode           =  "MultiPaxos3P"
  LeaderPriority <- MCPriority
  Committer      <- MCCommitter
  Delegate       <- MCDelegate
  Workload       <- W0101
INVARIANT CommitterHasCommand
