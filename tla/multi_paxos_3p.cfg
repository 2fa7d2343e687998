\* A leader, and requesters that count the votes for their commands.  The system
\* stops once everything is executed.
SPECIFICATION FairSpec
CONSTANTS
  Proc           <- MCProc3
  NbReplicas     =  3
  AliveReplicas  <- Voting3
  LinkLatency    <- Triangle3
  Mode           =  "MultiPaxos3P"
  LeaderPriority <- MCPriority
  Committer      <- MCCommitter
  Delegate       <- MCDelegate
  Workload       <- W111
INVARIANT NoPanic
PROPERTIES ImplementsReplicatedLog ImplementsVotes EveryCommandExecuted
CHECK_DEADLOCK FALSE
