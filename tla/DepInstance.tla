----------------------------- MODULE DepInstance -----------------------------
(***************************************************************************)
(* One instance of the dependency layer at one process: the commands it     *)
(* carries, and the dependencies being agreed for them.                     *)
(***************************************************************************)
EXTENDS DepSets, SequencesExt

\* The phases, in order.
PreAccepted == 0
Accepted    == 1
Committed   == 2

\* An optional DepSet; in an ack, None stands for the coordinator's.
NoDepSet == <<>>

NewInstance(leader, commands, deps) ==
  [leader |-> leader, commands |-> commands, deps |-> deps, phase |-> PreAccepted,
   preaccepts |-> <<>>, accept_acked |-> {}, coordinator_deps |-> NoDepSet]

\* f, with v for x.
Put(f, x, v) == [y \in DOMAIN f \cup {x} |-> IF y = x THEN v ELSE f[y]]

IsCommitted(i) == i.phase = Committed
IsSettled(i)   == i.phase > PreAccepted

SetCoordinatorDeps(i, deps) ==
  [i EXCEPT !.coordinator_deps = IF @ = NoDepSet THEN deps ELSE @]

\* Each process's own proposal counts once.
RecordPreaccept(i, src, deps) ==
  IF src \in DOMAIN i.preaccepts THEN i ELSE [i EXCEPT !.preaccepts = Put(@, src, deps)]

KnowsLeaderDeps(i) == i.leader \in DOMAIN i.preaccepts
LeaderDeps(i)      == i.preaccepts[i.leader]

\* Who proposed what the leader did, before or after it.
Endorsers(i) ==
  {r \in DOMAIN i.preaccepts : KnowsLeaderDeps(i) /\ i.preaccepts[r] = LeaderDeps(i)}
AllPreacceptsEndorse(i) == Endorsers(i) = DOMAIN i.preaccepts
PreacceptsCount(i)      == Cardinality(DOMAIN i.preaccepts)

\* Mutant: the slow path accepts what the coordinator proposed.
OwnProposal(i) == i.coordinator_deps

\* All that some process has proposed.
UnionOfPreaccepts(i) == UnionOf({i.preaccepts[r] : r \in DOMAIN i.preaccepts})

\* Who holds the leader's proposal: by an own one that equals it, or by accepting it.
FastEndorsers(i) == IF KnowsLeaderDeps(i) THEN i.accept_acked \cup Endorsers(i) ELSE {}

Accept(i, deps) == [i EXCEPT !.deps = deps, !.phase = Accepted]
AcknowledgedBy(i, D) == [i EXCEPT !.accept_acked = @ \cup D]
CommitWith(i, deps) == [i EXCEPT !.deps = deps, !.phase = Committed]
=============================================================================
