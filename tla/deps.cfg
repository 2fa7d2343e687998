SPECIFICATION FairSpec
\* The system comes to rest once every command is executed.
CHECK_DEADLOCK FALSE
CONSTANTS
  Proc <- MCProc
  NbReplicas = 3
  AliveReplicas <- MCVoting
  LinkLatency <- NoLatency
  Setups <- MCSetups
  Cmd = {"a", "b", "both", "second"}
  Key = {1, 2}
  KeysOf <- MCKeysOf
  AckBatchLimit = 2
  ExecutionOf <- Execution
INVARIANT TypeOK
INVARIANT NoPanic
INVARIANT ConflictsVisible
INVARIANT SwiftPaxosAcyclic
INVARIANT ReadsLinearizable
PROPERTY EverythingServed
PROPERTY ImplementsGenericBroadcast
