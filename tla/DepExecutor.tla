----------------------------- MODULE DepExecutor -----------------------------
(***************************************************************************)
(* One process that learns of commits in any order and executes what it can. *)
(* The dependencies are those of any agreement that keeps its promises:      *)
(* conflicting instances know of each other one way at least.               *)
(***************************************************************************)
EXTENDS DepExecution

CONSTANTS
  Instances,   \* the instances to commit: prefixes of their processes' logs
  Key,         \* what commands are about
  KeysOf       \* KeysOf[id]: the keys that id's commands touch

ASSUME DepExecutorAssumption ==
  /\ Instances \subseteq Id
  /\ \A id \in Instances : \A k \in 0 .. IndexOf(id) : <<RequesterOf(id), k>> \in Instances
  /\ KeysOf \in [Instances -> SUBSET Key]

VARIABLES
  agreed,      \* agreed[id]: the dependencies that id commits with, wherever it does
  committed,   \* committed here and not executed, with their dependencies
  executed,
  log          \* what was executed, in order

vars == <<agreed, committed, executed, log>>

Conflict(a, b) == KeysOf[a] \cap KeysOf[b] # {}

InstancesOf(r) == Cardinality({id \in Instances : RequesterOf(id) = r})

\* A coordinator orders its own instances; any other process names as many as it saw.
PossibleDeps(id) ==
  {deps \in [Proc -> 0 .. Cardinality(Instances)] :
     \A r \in Proc : deps[r] <= IF r = RequesterOf(id) THEN IndexOf(id) ELSE InstancesOf(r)}

Visible(graph, a, b) == Includes(graph[a], b) \/ Includes(graph[b], a)

Init ==
  /\ agreed = <<>>
  /\ committed = <<>>
  /\ executed = NoneExecuted
  /\ log = <<>>

\* The process learns that id has committed, and with which dependencies.
Commit(id) ==
  /\ id \notin DOMAIN agreed
  /\ \E deps \in PossibleDeps(id) :
       /\ agreed' = (id :> deps) @@ agreed
       /\ \A other \in DOMAIN agreed : Conflict(id, other) => Visible(agreed', id, other)
       /\ LET x == ExecuteReady((id :> deps) @@ committed, executed)
          IN  /\ committed' = x.committed
              /\ executed' = x.executed
              /\ log' = log \o x.order

Next == \E id \in Instances : Commit(id)

Spec == Init /\ [][Next]_vars

-----------------------------------------------------------------------------
(* The order that the dependencies define, whatever commits first *)

\* What an instance that has not committed waits for is not known.
Follows(a) ==
  IF a \in DOMAIN agreed THEN {b \in Instances \ {a} : Includes(agreed[a], b)} ELSE {}

RECURSIVE ReachableFrom(_)
ReachableFrom(S) ==
  LET wider == S \cup UNION {Follows(a) : a \in S}
  IN  IF wider = S THEN S ELSE ReachableFrom(wider)

\* closure[a]: a and all that it waits for, directly or not.
Closures == [a \in Instances |-> ReachableFrom({a})]

\* b waits for a, and a does not wait for b; or each does, and a's uid is lower.
Before(closure, a, b) == a \in closure[b] /\ (b \in closure[a] => Precedes(a, b))

\* Conflicting commands are executed in the order of the dependencies, which is
\* the same at every process, whatever order their commits arrive in and whether
\* the graph is built or not.
ConflictsInOrder ==
  LET closure == Closures
  IN  \A i, j \in DOMAIN log :
        i < j /\ Conflict(log[i], log[j]) => Before(closure, log[i], log[j])

\* What is left waits for a commit: of something it depends on, or of an earlier
\* instance of its process.  No cycle is missed, and nothing is stepped over.
OnlyCommitsMissing ==
  LET closure == Closures
  IN  \A id \in DOMAIN committed :
        \E other \in closure[id] \cup {<<RequesterOf(id), k>> : k \in 0 .. IndexOf(id)} :
          other \notin DOMAIN agreed

\* What is taken for executed was committed and executed: the prefixes and what is
\* beyond them never get ahead of the log.
OnlyExecutedSkipped ==
  SoundExecution(agreed, NoneExecuted, [order |-> log, executed |-> executed])
=============================================================================
