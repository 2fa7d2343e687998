--------------------------- MODULE DepReadTracker ---------------------------
(***************************************************************************)
(* The reads that a process has issued for one shard and not served.  A read *)
(* is served once its process has executed what a majority had seen, or, if  *)
(* SwiftPaxos' leader answered among them, what the leader had of that.      *)
(***************************************************************************)
EXTENDS DepInstance

\* `since' is history: what some process had executed when the read was issued.
PendingRead(key, since) ==
  [key |-> key, union |-> NoDeps, answers |-> 0, leader_seen |-> NoDepSet, since |-> since]

\* An answer beyond the first majority, or to a read that was served, is dropped.
Receive(reads, id, src, seen, leader) ==
  IF id \notin DOMAIN reads \/ reads[id].answers >= Majority THEN reads
  ELSE [reads EXCEPT
          ![id].answers = @ + 1,
          ![id].union = UnionWith(@, seen),
          ![id].leader_seen = IF src = leader THEN seen ELSE @]

\* Mutant: one answer less than a majority.
AnsweredBySome(read) == read.answers >= Majority - 1

Answered(read) == read.answers >= Majority

Required(read) ==
  IF read.leader_seen = NoDepSet THEN read.union ELSE IntersectWith(read.union, read.leader_seen)

Servable(reads, e) ==
  {id \in DOMAIN reads : Answered(reads[id]) /\ PendingOver(Required(reads[id]), e) = {}}
=============================================================================
