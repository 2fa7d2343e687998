------------------------------ MODULE DepSets ------------------------------
(***************************************************************************)
(* Sets of instances of one shard.  A process numbers the instances that it *)
(* coordinates, and a set names a prefix of each process's: one number per   *)
(* process, however many instances there are.                               *)
(***************************************************************************)
EXTENDS Topology, Sequences

\* The k-th instance that pid coordinates, k from 0.
Id == Proc \X Nat

RequesterOf(id) == id[1]
IndexOf(id)     == id[2]

\* The order of the uids, 2 * (k * nb_processes + pid).
Precedes(a, b) ==
  \/ IndexOf(a) < IndexOf(b)
  \/ IndexOf(a) = IndexOf(b) /\ RequesterOf(a) < RequesterOf(b)

\* The order in which a set is enumerated.
Enumerated(a, b) ==
  \/ RequesterOf(a) < RequesterOf(b)
  \/ RequesterOf(a) = RequesterOf(b) /\ IndexOf(a) < IndexOf(b)

-----------------------------------------------------------------------------
(* DepSet: how many instances of each process are in the set *)

DepSet == [Proc -> Nat]
NoDeps == [r \in Proc |-> 0]

Includes(deps, id) == IndexOf(id) < deps[RequesterOf(id)]

\* With id come all earlier instances of its process.
Insert(deps, id) ==
  [deps EXCEPT ![RequesterOf(id)] = IF @ <= IndexOf(id) THEN IndexOf(id) + 1 ELSE @]

UnionWith(deps, other) ==
  [r \in Proc |-> IF deps[r] < other[r] THEN other[r] ELSE deps[r]]
IntersectWith(deps, other) ==
  [r \in Proc |-> IF deps[r] > other[r] THEN other[r] ELSE deps[r]]

\* All that is in one of them.
UnionOf(sets) ==
  [r \in Proc |->
     LET indices == {0} \cup {deps[r] : deps \in sets}
     IN  CHOOSE k \in indices : \A other \in indices : other <= k]

ClearReplica(deps, r) == [deps EXCEPT ![r] = 0]

\* id is taken out if it is the last of its process.
WithoutUid(deps, id) ==
  [deps EXCEPT ![RequesterOf(id)] = IF @ = IndexOf(id) + 1 THEN IndexOf(id) ELSE @]

-----------------------------------------------------------------------------
(* Executed: a prefix of every process's instances, and some beyond it *)

NoneExecuted == [watermark |-> NoDeps, ahead |-> {}]

HasExecuted(e, id) == Includes(e.watermark, id) \/ id \in e.ahead

\* Mutant: a gap below them does not keep instances out of the prefix.
ExecuteOverGaps(e, id) ==
  LET joined == {i \in e.ahead \cup {id} : RequesterOf(i) = RequesterOf(id)}
  IN  [watermark |-> [e.watermark EXCEPT ![RequesterOf(id)] = @ + Cardinality(joined)],
       ahead     |-> (e.ahead \cup {id}) \ joined]

\* id is executed.  Without a gap below them, it and those beyond it join the prefix.
Execute(e, id) ==
  LET r      == RequesterOf(id)
      ids    == e.ahead \cup {id}
      joined == {i \in ids : /\ RequesterOf(i) = r
                             /\ \A k \in e.watermark[r] .. IndexOf(i) : <<r, k>> \in ids}
  IN  [watermark |-> [e.watermark EXCEPT ![r] = @ + Cardinality(joined)],
       ahead     |-> ids \ joined]

\* The instances of deps that are still to be executed.
PendingOver(deps, e) ==
  (UNION {{r} \X (e.watermark[r] .. deps[r] - 1) : r \in Proc}) \ e.ahead

\* What is beyond the prefix is not in it.
IsExecuted(e) ==
  /\ e \in [watermark : DepSet, ahead : SUBSET Id]
  /\ IsFiniteSet(e.ahead)
  /\ \A id \in e.ahead : ~Includes(e.watermark, id)

\* Executing x.order, of the instances committed, makes of e what x has executed: no
\* more than those, however the prefix and what is beyond it are put together.
SoundExecution(committed, e, x) ==
  /\ x.order \in Seq(DOMAIN committed)
  /\ IsExecuted(x.executed)
  /\ LET order == {x.order[k] : k \in DOMAIN x.order}
     IN  PendingOver(x.executed.watermark, e) \cup x.executed.ahead \subseteq e.ahead \cup order
=============================================================================
