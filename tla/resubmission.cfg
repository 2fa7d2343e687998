\* 3 does not vote and submits twice, through 1; 0 submits as well.  The second
\* command meets any stage of a slot.  A fourth replica is faulty and takes no part: a
\* majority is all those left.  The system stops once everything is executed, and
\* stopping earlier is what EveryCommandExecuted excludes.
SPECIFICATION FairSpec
CONSTANTS
  Proc          <- MCProc4
  NbReplicas    =  4
  AliveReplicas <- Voting3
  LinkLatency   <- Observer4
  Graph         <- MCGraph
  Workload      <- W1002
  FirstLeader   =  0
INVARIANTS ExecutedOnce IdleIsClear
PROPERTY EveryCommandExecuted
CHECK_DEADLOCK FALSE
