----------------------------- MODULE RoundState -----------------------------
(***************************************************************************)
(* What a process keeps about the slot under way: its census (the latest    *)
(* view of every process, its own included), how far it came in every        *)
(* proposer's schedule, the proposers it heard of, the Spread messages it    *)
(* received and the votes it counted in its own fallback round.  The         *)
(* operators are the methods of KCensusRoundState, as functions of the       *)
(* record; p is always the process that owns it.                            *)
(***************************************************************************)
EXTENDS NodeState, Sequences

RoundStates ==
  [node_states        : [Proc -> NodeStates],
   propagation_states : [Proc -> Nat],
   proposers          : SUBSET Proc,
   received_msgs      : SUBSET MessageId,
   paxos_accept_count : Nat]

ClearRound ==
  [node_states        |-> [q \in Proc |-> EmptyNode],
   propagation_states |-> [a \in Proc |-> 0],
   proposers          |-> {},
   received_msgs      |-> {},
   paxos_accept_count |-> 0]

Replace(f, q, x) == [s \in Proc |-> IF s = q THEN x ELSE f[s]]
Mine(r, p)       == r.node_states[p]
SetMine(r, p, n) == [r EXCEPT !.node_states = Replace(@, p, n)]

Leaders(r)        == {Leader(a) : a \in r.proposers}
HasConflict(r, p) == (\E a, b \in r.proposers : a # b) \/ Mine(r, p).accept_round # None

Highest(S) == CHOOSE x \in S : \A y \in S : y <= x

-----------------------------------------------------------------------------
\* Accept the first command heard of, unless the slot already conflicts.
Accepts(r, p) == Mine(r, p).v = NoV /\ ~HasConflict(r, p)

KCensusTryAccept(r, p, v, a) ==
  IF Accepts(r, p)
  THEN [SetMine(r, p, AcceptWithKState(Mine(r, p), p, v, a, 0))
          EXCEPT !.proposers = @ \cup {a}]
  ELSE r

TryAcceptAsserts(r, p, a) ==
  Accepts(r, p) => /\ ~IsFrozen(Mine(r, p))
                   /\ Mine(r, p).k_proposer = None /\ Mine(r, p).k_state = 0
                   /\ r.proposers \subseteq {a}

FreezeAndPrepareFor(r, p, leader) == SetMine(r, p, PrepareFor(Mine(r, p), leader))

\* Promise the highest leader among the proposers heard of.
FreezeAndPrepareForLeaders(r, p) ==
  SetMine(r, p, [Mine(r, p) EXCEPT !.prepared_for = Highest(Leaders(r) \cup {@})])

-----------------------------------------------------------------------------
\* Take the views that are newer than ours, and note the proposers they name.
NewerThanOurs(r, incoming) == {q \in Proc : Newer(incoming[q], r.node_states[q])}

UpdateRemoteStates(r, incoming) ==
  LET newer == NewerThanOurs(r, incoming)
  IN  [r EXCEPT !.node_states = [q \in Proc |-> IF q \in newer THEN incoming[q] ELSE r.node_states[q]],
                !.proposers   = @ \cup ({incoming[q].k_proposer : q \in newer} \ {None})]

UpdateRemoteAsserts(r, p, incoming) ==
  /\ \A q \in Proc : ComparisonAsserts(incoming[q], r.node_states[q])
  /\ \A q \in NewerThanOurs(r, incoming) :
       /\ q # p
       /\ incoming[q].k_proposer # None =>
            /\ incoming[q].accept_round = None
            /\ incoming[q].v # NoV
            /\ incoming[q].k_proposer \in r.proposers
                 \/ incoming[q].k_proposer # Mine(r, p).k_proposer

-----------------------------------------------------------------------------
\* The states of a's schedule that p enters now: everything past where it is,
\* up to the first state that waits for a message p does not have.
Reached(r, p, a) ==
  {t \in StateIds(a, p) :
     /\ t > r.propagation_states[a]
     /\ \A u \in StateIds(a, p) :
          (r.propagation_states[a] < u /\ u <= t) =>
            State(a, p, u).dependencies \subseteq r.received_msgs}

\* Enter them.  Knowledge grows with the schedule only while there is no
\* conflict: a frozen process keeps disseminating and stops learning.
Advance(r, p, a, conflict) ==
  LET reached == Reached(r, p, a)
      t == Highest(reached)
      moved == [r EXCEPT !.propagation_states = Replace(@, a, t)]
  IN  CASE reached = {} -> r
        [] reached # {} /\ conflict  -> moved
        [] reached # {} /\ ~conflict -> SetMine(moved, p, UpdateKState(Mine(r, p), p, t))

AtEndOfSchedule(r, p, a) == r.propagation_states[a] = FinalStateId(a, p)

\* Where the code asserts that its fast path really ended.
CanKCensusCommit(r, p) ==
  LET n == Mine(r, p)
  IN  /\ n.k_proposer # None
      /\ Leader(n.k_proposer) = p
      /\ n.k_state = FinalStateId(n.k_proposer, p)

-----------------------------------------------------------------------------
\* A majority of the live replicas promised exactly p, and p has not voted in
\* its own round yet.
CanStartPaxosAccept(r, p) ==
  /\ Mine(r, p).prepared_for = p
  /\ Mine(r, p).accept_round < p
  /\ Cardinality({q \in AliveReplicas : r.node_states[q].prepared_for = p}) >= Majority

\* Mutant: whoever accepted another command rules a's out.
RulesOutByAnyOther(r, a, q) ==
  LET n == r.node_states[q]
  IN  /\ IsFrozen(n)
      /\ n.k_proposer = a => n.k_state # FinalStateId(a, q)

\* Could a's command still have met its requirements, given the frozen views?
RulesOut(r, a, q) ==
  LET n == r.node_states[q]
  IN  /\ IsFrozen(n)
      /\ IF n.k_proposer = a
         THEN n.k_state # FinalStateId(a, q)
         ELSE IF n.k_proposer = None
              THEN q \in VQuorum(a)
              ELSE Knowledge(n.k_proposer, q, n.k_state) \cap VQuorum(a) # {}

Adoptable(r, a) == \A q \in Proc : ~RulesOut(r, a, q)

\* What the census obliges the leader to propose: the value of the highest
\* fallback vote, else the command that may have been fast-committed.  The
\* code takes the first adoptable proposer; nothing when the set is empty.
Voted(r)       == {q \in Proc : r.node_states[q].accept_round # None}
HighestVote(r) ==
  CHOOSE q \in Voted(r) : \A s \in Voted(r) \ {q} :
    \/ r.node_states[s].accept_round < r.node_states[q].accept_round
    \/ r.node_states[s].accept_round = r.node_states[q].accept_round /\ q < s

\* Mutant: adopt votes only, never what may have been fast-committed.
AdoptVotesOnly(r) == IF Voted(r) # {} THEN {r.node_states[HighestVote(r)].v} ELSE {}

\* Mutant: never adopt a vote, whatever the fallback may have decided.
AdoptFastOnly(r) == {r.node_states[a].v : a \in {b \in r.proposers : Adoptable(r, b)}}

AdoptChoices(r) ==
  IF Voted(r) # {} THEN {r.node_states[HighestVote(r)].v}
  ELSE {r.node_states[a].v : a \in {b \in r.proposers : Adoptable(r, b)}}

\* Votes, and the views of the proposers considered, have a command in them.
AdoptAsserts(r) ==
  IF Voted(r) # {} THEN NoV \notin AdoptChoices(r)
  ELSE \A a \in r.proposers : r.node_states[a].v # NoV

\* p votes in leader's round; its own vote in its own round is counted.
VoteFor(r, p, leader, v) ==
  LET n == Mine(r, p)
  IN  [SetMine(r, p, PaxosAccept(n, leader, v))
         EXCEPT !.paxos_accept_count =
           IF leader = p /\ Votes(n, leader) THEN @ + 1 ELSE @]

\* p, as leader, hears the vote of src.
RecvPaxosAccept(r, p, src, v) ==
  LET n == r.node_states[src]
  IN  [r EXCEPT !.node_states = Replace(@, src, PaxosAccept(n, p, v)),
                !.paxos_accept_count = IF Votes(n, p) THEN @ + 1 ELSE @]

CanPaxosCommit(r) == r.paxos_accept_count >= Majority
=============================================================================
