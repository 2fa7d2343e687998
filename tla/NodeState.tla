------------------------------ MODULE NodeState ------------------------------
(***************************************************************************)
(* One entry of the census: what one process is known to have accepted, how *)
(* far it came in the schedule of the proposer it accepted from, which      *)
(* leader it promised (promised = frozen) and in which leader's fallback    *)
(* round it last voted.                                                      *)
(***************************************************************************)
EXTENDS CommandBatch, PropagationGraph

\* A value comes from a proposer's schedule or from a fallback vote.
NodeStates ==
  {n \in [v            : Uid \cup {NoV},
          k_proposer   : OptProc,
          k_state      : Nat,
          prepared_for : OptProc,
          accept_round : OptProc] :
     n.v # NoV /\ n.accept_round = None => n.k_proposer # None}

EmptyNode ==
  [v |-> NoV, k_proposer |-> None, k_state |-> 0,
   prepared_for |-> None, accept_round |-> None]

IsFrozen(n) == n.prepared_for # None

\* The order of two views of one process, accept round first.
Newer(n, o) ==
  \/ n.accept_round > o.accept_round
  \/ /\ n.accept_round = o.accept_round
     /\ \/ n.prepared_for > o.prepared_for
        \/ /\ n.prepared_for = o.prepared_for
           /\ \/ n.k_state > o.k_state
              \/ n.k_state = o.k_state /\ n.v # NoV /\ o.v = NoV

\* What comparing them asserts: a view with the later vote never has the
\* earlier promise, and views equal in every rank are the same view.
ComparisonAsserts(n, o) ==
  /\ n.accept_round > o.accept_round => n.prepared_for >= o.prepared_for
  /\ n.accept_round < o.accept_round => n.prepared_for <= o.prepared_for
  /\ ( /\ n.accept_round = o.accept_round
       /\ n.prepared_for = o.prepared_for
       /\ n.k_state = o.k_state ) =>
     IF (n.v = NoV) = (o.v = NoV)
     THEN n = o
     ELSE (n.v = NoV) = (n.k_proposer = None) /\ (o.v = NoV) = (o.k_proposer = None)

-----------------------------------------------------------------------------
\* Mutant: a later promise to a lower leader replaces the higher one.
PrepareForLast(n, leader) == [n EXCEPT !.prepared_for = leader]

\* Freezing: the highest leader promised counts.
PrepareFor(n, leader) ==
  IF n.prepared_for < leader THEN [n EXCEPT !.prepared_for = leader] ELSE n

\* p advances to state t of the schedule it follows, and freezes at its end.
UpdateKState(n, p, t) ==
  [n EXCEPT !.k_state = t,
            !.prepared_for = IF t = FinalStateId(n.k_proposer, p)
                             THEN Leader(n.k_proposer) ELSE @]

AcceptWithKState(n, p, v, a, t) ==
  UpdateKState([n EXCEPT !.v = v, !.k_proposer = a], p, t)

\* Paxos phase 2: vote unless a higher leader was promised.
Votes(n, leader) == n.prepared_for <= leader /\ n.accept_round < leader
PaxosAccept(n, leader, v) ==
  IF Votes(n, leader)
  THEN [v |-> v, k_proposer |-> None, k_state |-> 0,
        prepared_for |-> leader, accept_round |-> leader]
  ELSE PrepareFor(n, leader)

-----------------------------------------------------------------------------
\* Mutant: everyone is taken to have accepted the command from the start.
BuildEagerRemoteState(v, id, pid) ==
  AcceptWithKState(EmptyNode, pid, v, id.proposer,
                   State(id.proposer, id.src, id.time).remote_states[pid])

\* The view of pid that the plan implies for a conflict-free Spread `id' of v.
BuildRemoteState(v, id, pid) ==
  LET t == State(id.proposer, id.src, id.time).remote_states[pid]
  IN  IF t # 0 \/ pid = id.proposer
      THEN AcceptWithKState(EmptyNode, pid, v, id.proposer, t)
      ELSE EmptyNode
=============================================================================
