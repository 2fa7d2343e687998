\* Three replicas, three proposers that do not vote, one command each; a steered
\* search.  The behaviours cut short by the constraint stop.
SPECIFICATION Spec
CONSTANTS
  Proc          <- MCProc6
  NbReplicas    =  3
  AliveReplicas <- Voting3
  LinkLatency   <- Proposers6
  Graph         <- MCGraph
  Workload      <- W000111
  FirstLeader   =  0
INVARIANT Agreement
CONSTRAINT Steered
CHECK_DEADLOCK FALSE
