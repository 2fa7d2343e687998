--------------------------- MODULE GenericBroadcast ---------------------------
(***************************************************************************)
(* What the dependency layer promises its clients: processes deliver the     *)
(* commands submitted, each one once, and those that conflict in one order.  *)
(***************************************************************************)
EXTENDS Naturals, Sequences, FiniteSets

CONSTANTS
  Proc,           \* who submits and delivers
  Cmd,            \* everything that may be submitted
  Conflicts(_, _) \* whether two commands must be ordered

VARIABLES
  submitted,   \* commands clients have submitted
  delivered    \* delivered[p]: what p has delivered, in order

broadcastVars == <<submitted, delivered>>

DeliveredBy(p) == {delivered[p][k] : k \in DOMAIN delivered[p]}

\* p has delivered c, and not d before it.
First(p, c, d) ==
  \E k \in DOMAIN delivered[p] :
    delivered[p][k] = c /\ \A j \in 1 .. k : delivered[p][j] # d

\* No two processes disagree on which of two conflicting commands comes first.
OneOrder ==
  \A p, q \in Proc : \A c \in DeliveredBy(p) : \A d \in DeliveredBy(q) :
    c # d /\ Conflicts(c, d) => ~(First(p, c, d) /\ First(q, d, c))

Init ==
  /\ submitted = {}
  /\ delivered = [p \in Proc |-> <<>>]

Submit(C) ==
  /\ C # {}
  /\ C \cap submitted = {}
  /\ submitted' = submitted \cup C
  /\ UNCHANGED delivered

\* p delivers some commands more, in any order that agrees with the others'.
Deliver(p, C) ==
  /\ C # {}
  /\ C \cap DeliveredBy(p) = {}
  /\ \E s \in [1 .. Cardinality(C) -> C] :
       /\ C = {s[k] : k \in DOMAIN s}
       /\ delivered' = [delivered EXCEPT ![p] = @ \o s]
  /\ OneOrder'
  /\ UNCHANGED submitted

Next ==
  \/ \E C \in SUBSET Cmd : Submit(C)
  \/ \E p \in Proc : \E C \in SUBSET submitted : Deliver(p, C)

Spec == Init /\ [][Next]_broadcastVars
=============================================================================
