SPECIFICATION Spec
CHECK_DEADLOCK FALSE
CONSTANTS
  Proc <- MCProc3
  NbReplicas = 3
  AliveReplicas <- MCProc3
  LinkLatency <- NoLatency
  Instances <- Five
  Key = {1, 2}
  KeysOf <- TwoKeys
INVARIANT ConflictsInOrder
INVARIANT OnlyCommitsMissing
INVARIANT OnlyExecutedSkipped
