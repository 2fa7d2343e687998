------------------------------ MODULE SlotVotes ------------------------------
(***************************************************************************)
(* What the slot layer's reads rely on, whichever algorithm orders the       *)
(* slots of a shard: a process votes in its current slot (get_my_v is set)   *)
(* and keeps its vote until it commits that slot, and nobody commits a slot  *)
(* before a majority of the replicas have voted in it or left it.  Whoever   *)
(* decides a slot may vote in it in the same step.                           *)
(***************************************************************************)
EXTENDS Topology

VARIABLES
  slot,    \* slot[p]: the first slot p has not committed
  voted    \* voted[p]: p has a value for that slot

votesVars == <<slot, voted>>

\* p has voted in slot n, or left it.
VotedIn(p, n) == slot[p] > n \/ (slot[p] = n /\ voted[p])

CanCommit(p) ==
  Cardinality({q \in AliveReplicas : q = p \/ VotedIn(q, slot[p])}) >= Majority

Init ==
  /\ slot = [p \in Proc |-> 0]
  /\ voted = [p \in Proc |-> FALSE]

Vote(p) ==
  /\ ~voted[p]
  /\ voted' = [voted EXCEPT ![p] = TRUE]
  /\ UNCHANGED slot

CommitSlot(p) ==
  /\ CanCommit(p)
  /\ slot' = [slot EXCEPT ![p] = @ + 1]
  /\ voted' = [voted EXCEPT ![p] = FALSE]

Next == \E p \in Proc : Vote(p) \/ CommitSlot(p)

Spec == Init /\ [][Next]_votesVars
=============================================================================
