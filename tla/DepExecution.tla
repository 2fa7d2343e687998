---------------------------- MODULE DepExecution ----------------------------
(***************************************************************************)
(* The order in which a process executes what has committed.  `committed'    *)
(* maps the committed instances still to be executed to their dependencies,  *)
(* e is what has been executed.                                             *)
(***************************************************************************)
EXTENDS DepSets, SequencesExt

\* Each process's log from the executed prefix to the first uncommitted instance.
Candidates(committed, e) ==
  {id \in DOMAIN committed :
     \A k \in e.watermark[RequesterOf(id)] .. IndexOf(id) :
       <<RequesterOf(id), k>> \in DOMAIN committed \cup e.ahead}

WaitsFor(committed, e, id) == PendingOver(committed[id], e) \ {id}

Executable(committed, e) == {id \in Candidates(committed, e) : WaitsFor(committed, e, id) = {}}

NextExecutable(committed, e) ==
  CHOOSE id \in Executable(committed, e) :
    \A other \in Executable(committed, e) \ {id} : Precedes(id, other)

\* Mutant: only two heads that wait for each other are looked for.
PairPossible(committed, e) ==
  \E a, b \in Candidates(committed, e) :
    a # b /\ WaitsFor(committed, e, a) = {b} /\ WaitsFor(committed, e, b) = {a}

\* Some head waits for committed instances only.
CyclePossible(committed, e) ==
  \E id \in Candidates(committed, e) : WaitsFor(committed, e, id) \subseteq DOMAIN committed

-----------------------------------------------------------------------------
(* Tarjan's algorithm, abandoned at an instance that has not committed.  t    *)
(* holds what it has visited, its stack, and the order found so far.         *)

Lower(t, id, k) == IF k < t.lowlink[id] THEN [t EXCEPT !.lowlink[id] = k] ELSE t

\* Mutant: a component is executed in the order of the traversal.
AsVisited(ids) == ids

InUidOrder(ids) == SortSeq(ids, Precedes)

RECURSIVE StrongConnect(_, _, _, _)

\* The traversal comes to dep, a dependency of id.
Follow(committed, e, id, t, dep) ==
  CASE ~t.closed -> t
    [] t.closed /\ dep \notin DOMAIN committed -> [t EXCEPT !.closed = FALSE]
    [] t.closed /\ dep \in DOMAIN committed \ DOMAIN t.index ->
         LET found == StrongConnect(committed, e, dep, t)
         IN  IF found.closed THEN Lower(found, id, found.lowlink[dep]) ELSE found
    [] t.closed /\ dep \in DOMAIN committed \cap DOMAIN t.index ->
         IF dep \in ToSet(t.stack) THEN Lower(t, id, t.index[dep]) ELSE t

StrongConnect(committed, e, id, t) ==
  LET next    == Cardinality(DOMAIN t.index) + 1
      entered == [t EXCEPT !.index = (id :> next) @@ @, !.lowlink = (id :> next) @@ @,
                           !.stack = Append(@, id)]
      deps    == SetToSortSeq(WaitsFor(committed, e, id), Enumerated)
      done    == FoldLeft(LAMBDA u, dep : Follow(committed, e, id, u, dep), entered, deps)
      first   == SelectInSeq(done.stack, LAMBDA other : other = id)
  IN  IF done.closed /\ done.lowlink[id] = done.index[id]
      THEN [done EXCEPT
              !.stack = SubSeq(@, 1, first - 1),
              !.order = @ \o InUidOrder(SubSeq(done.stack, first, Len(done.stack)))]
      ELSE done

\* What an abandoned traversal has left on its stack may be visited again.
Forget(t) ==
  [t EXCEPT !.index = Restrict(@, DOMAIN @ \ ToSet(t.stack)), !.stack = <<>>, !.closed = TRUE]

ExecutableOrder(committed, e) ==
  LET roots == SetToSortSeq(DOMAIN committed, Precedes)
      start == [index |-> <<>>, lowlink |-> <<>>, stack |-> <<>>, order |-> <<>>, closed |-> TRUE]
      visit(t, root) ==
        IF root \in DOMAIN t.index THEN t ELSE Forget(StrongConnect(committed, e, root, t))
  IN  FoldLeft(visit, start, roots).order

-----------------------------------------------------------------------------
(* x is a process's committed and executed instances, and the order in which  *)
(* the current step executes some of them.                                  *)

ExecuteNow(x, id) ==
  [committed |-> Restrict(x.committed, DOMAIN x.committed \ {id}),
   executed  |-> Execute(x.executed, id),
   order     |-> Append(x.order, id)]

RECURSIVE ExecuteHeads(_)
ExecuteHeads(x) ==
  IF Executable(x.committed, x.executed) = {} THEN x
  ELSE ExecuteHeads(ExecuteNow(x, NextExecutable(x.committed, x.executed)))

\* Instances without a cycle before them go first, the graph is only built then.
ExecuteReady(committed, e) ==
  LET x == ExecuteHeads([committed |-> committed, executed |-> e, order |-> <<>>])
  IN  IF CyclePossible(x.committed, x.executed)
      THEN FoldLeft(ExecuteNow, x, ExecutableOrder(x.committed, x.executed))
      ELSE x

\* What is executed in this step, in order, what has been by then, and that there
\* is no second round.
Execution(committed, e) ==
  LET x == ExecuteReady(committed, e)
  IN  [order    |-> x.order,
       executed |-> x.executed,
       complete |-> Executable(x.committed, x.executed) = {}]
=============================================================================
