---------------------------- MODULE KCensusProofs ----------------------------
(***************************************************************************)
(* What the operators of PropagationGraph, NodeState and RoundState return,   *)
(* and which promises they keep; the type invariant of KCensusShard; and the  *)
(* properties of its rounds.  For every plan, every number of processes and  *)
(* every workload.                                                          *)
(***************************************************************************)
EXTENDS KCensusProperties, FiniteSetTheorems, WellFoundedInduction, TLAPS

-----------------------------------------------------------------------------
(* Highest and lowest elements *)

\* Every nonempty set of naturals has a lowest element.
LEMMA NatHasLowest ==
  ASSUME NEW S, S \subseteq Nat, S # {}
  PROVE  \E m \in S : \A k \in S : m <= k
<1>1. PICK m \in S : \A k \in S : <<k, m>> \notin OpToRel(<, Nat)
  BY WFMin, NatLessThanWellFounded
<1>2. \A k \in S : ~(k < m)
  BY <1>1 DEF OpToRel
<1> QED BY <1>2

\* A nonempty set of integers that is bounded has a highest element: the
\* distance to the bound has a least value.
LEMMA BoundedHasHighest ==
  ASSUME NEW S, S \subseteq Int, S # {},
         NEW high \in Int, \A x \in S : x <= high
  PROVE  Highest(S) \in S /\ \A y \in S : y <= Highest(S)
<1> DEFINE D == {n \in Nat : high - n \in S}
<1>1. D \subseteq Nat /\ D # {}
  <2>1. PICK x \in S : TRUE
    OBVIOUS
  <2>2. high - x \in Nat /\ high - (high - x) = x
    BY x \in Int
  <2> QED BY <2>1, <2>2
<1> HIDE DEF D
<1>2. PICK m \in D : \A k \in D : m <= k
  BY <1>1, NatHasLowest
<1>3. high - m \in S
  BY DEF D
<1>4. \A y \in S : y <= high - m
  <2> TAKE y \in S
  <2>1. high - y \in Nat /\ high - (high - y) = y
    BY y \in Int
  <2>2. m <= high - y
    BY <1>2, <2>1 DEF D
  <2>3. y \in Int /\ m \in Nat
    BY <1>1, <1>2
  <2> QED BY <2>2, <2>3
<1> QED BY <1>3, <1>4 DEF Highest

\* Process ids are naturals, so that no process is None.
LEMMA ProcIsNat == Proc \subseteq Nat /\ OptProc \subseteq Int /\ None \notin Proc
BY TopologyAssumption DEF OptProc, None

\* Highest picks a member of a nonempty set of processes, above all others.
LEMMA HighestLeader ==
  ASSUME NEW S, S \subseteq OptProc, S # {}
  PROVE  Highest(S) \in S /\ \A y \in S : y <= Highest(S)
<1>1. Cardinality(Proc) \in Int /\ \A x \in S : x <= Cardinality(Proc)
  BY TopologyAssumption DEF OptProc, None
<1> QED BY <1>1, ProcIsNat, BoundedHasHighest

-----------------------------------------------------------------------------
(* Plans *)

\* Every proposer's leader is a process.
LEMMA LeaderIsProc == \A a \in Proc : Leader(a) \in Proc
BY GraphAssumption DEF GraphWellFormed

\* Schedules are indexed by naturals, from 0 on.
LEMMA StateIdsAreTimes == \A a, p \in Proc : StateIds(a, p) \subseteq Nat /\ 0 \in StateIds(a, p)
BY GraphAssumption DEF GraphWellFormed

\* A state of a schedule says what each process knows and has reached.
LEMMA StateType ==
  ASSUME NEW a \in Proc, NEW p \in Proc, NEW t \in StateIds(a, p)
  PROVE  /\ State(a, p, t) \in KnowledgeState
         /\ \A id \in State(a, p, t).needed_by :
              id.proposer = a /\ id.src = p /\ id.time = t /\ id.dest # p
<1>1. \A u \in StateIds(a, p) : State(a, p, u) \in KnowledgeState
  BY GraphAssumption DEF GraphWellFormed
<1>2. \A u \in StateIds(a, p) : \A id \in State(a, p, u).needed_by :
        id.proposer = a /\ id.src = p /\ id.time = u /\ id.dest # p
  BY GraphAssumption DEF GraphWellFormed
<1> QED BY <1>1, <1>2

\* Every schedule ends.
LEMMA FinalStateExists ==
  ASSUME NEW a \in Proc, NEW p \in Proc
  PROVE  /\ FinalStateId(a, p) \in StateIds(a, p)
         /\ \A t \in StateIds(a, p) : t <= FinalStateId(a, p)
<1>1. \E last \in StateIds(a, p) : \A t \in StateIds(a, p) : t <= last
  BY GraphAssumption DEF GraphWellFormed
<1> QED BY <1>1 DEF FinalStateId

-----------------------------------------------------------------------------
(* Views of one process *)

\* A fresh report is a report.
LEMMA EmptyNodeType == EmptyNode \in NodeStates
BY DEF EmptyNode, NodeStates, OptProc, None

\* prepare_for returns a report.
LEMMA PrepareForType ==
  ASSUME NEW n \in NodeStates, NEW leader \in OptProc
  PROVE  PrepareFor(n, leader) \in NodeStates
BY DEF PrepareFor, NodeStates

\* accept_with_k_state returns a report.
LEMMA AcceptWithKStateType ==
  ASSUME NEW n \in NodeStates, NEW p \in Proc, NEW v \in Uid, NEW a \in Proc, NEW t \in Nat
  PROVE  AcceptWithKState(n, p, v, a, t) \in NodeStates
<1>1. Leader(a) \in OptProc /\ a \in OptProc /\ a # None
  BY LeaderIsProc, ProcIsNat DEF OptProc
<1> QED BY <1>1 DEF AcceptWithKState, UpdateKState, NodeStates

\* update_k_state returns a report, at a time of the schedule.
LEMMA UpdateKStateType ==
  ASSUME NEW n \in NodeStates, n.k_proposer # None, NEW p \in Proc, NEW t \in Nat
  PROVE  UpdateKState(n, p, t) \in NodeStates
<1>1. Leader(n.k_proposer) \in OptProc
  BY LeaderIsProc DEF NodeStates, OptProc
<1> QED BY <1>1 DEF UpdateKState, NodeStates

\* paxos_accept returns a report.
LEMMA PaxosAcceptType ==
  ASSUME NEW n \in NodeStates, NEW leader \in Proc, NEW v \in Uid
  PROVE  PaxosAccept(n, leader, v) \in NodeStates
<1>1. leader \in OptProc /\ leader # None /\ None \in OptProc
  BY ProcIsNat DEF OptProc
<1>2. CASE Votes(n, leader)
  BY <1>1, <1>2 DEF PaxosAccept, NodeStates
<1>3. CASE ~Votes(n, leader)
  BY <1>1, <1>3, PrepareForType DEF PaxosAccept
<1> QED BY <1>2, <1>3

\* The messages of a plan are sent from states of its schedules.
LEMMA BuildRemoteStateType ==
  ASSUME NEW v \in Uid, NEW id \in MessageId, id.time \in StateIds(id.proposer, id.src),
         NEW q \in Proc
  PROVE  BuildRemoteState(v, id, q) \in NodeStates
<1>1. id.proposer \in Proc /\ id.src \in Proc
  BY DEF MessageId
<1>2. State(id.proposer, id.src, id.time) \in KnowledgeState
  BY <1>1, StateType
<1>3. State(id.proposer, id.src, id.time).remote_states[q] \in Nat
  BY <1>2 DEF KnowledgeState
<1> QED BY <1>1, <1>3, AcceptWithKStateType, EmptyNodeType DEF BuildRemoteState

-----------------------------------------------------------------------------
(* The round *)

\* A process's own entry of a census is a report.
LEMMA MineType ==
  ASSUME NEW r \in RoundStates, NEW p \in Proc
  PROVE  Mine(r, p) \in NodeStates
BY DEF Mine, RoundStates

\* Replacing one entry of a census leaves a census.
LEMMA ReplaceType ==
  ASSUME NEW S, NEW f \in [Proc -> S], NEW q \in Proc, NEW x \in S
  PROVE  Replace(f, q, x) \in [Proc -> S] /\ Replace(f, q, x)[q] = x
BY DEF Replace

\* Overwriting a view touches nothing else.
\* Replacing a process's own entry leaves a round.
LEMMA SetMineType ==
  ASSUME NEW r \in RoundStates, NEW p \in Proc, NEW n \in NodeStates
  PROVE  /\ SetMine(r, p, n) \in RoundStates
         /\ Mine(SetMine(r, p, n), p) = n
         /\ SetMine(r, p, n).proposers = r.proposers
         /\ SetMine(r, p, n).propagation_states = r.propagation_states
         /\ SetMine(r, p, n).received_msgs = r.received_msgs
BY DEF SetMine, Mine, Replace, RoundStates

\* The cleared round is a round.
LEMMA ClearRoundType == ClearRound \in RoundStates
BY EmptyNodeType DEF ClearRound, RoundStates

\* kcensus_try_accept returns a round.
LEMMA TryAcceptType ==
  ASSUME NEW r \in RoundStates, NEW p \in Proc, NEW v \in Uid, NEW a \in Proc
  PROVE  KCensusTryAccept(r, p, v, a) \in RoundStates
<1> DEFINE n == AcceptWithKState(Mine(r, p), p, v, a, 0)
<1>1. n \in NodeStates
  BY MineType, AcceptWithKStateType
<1> HIDE DEF n
<1>2. SetMine(r, p, n) \in RoundStates
  BY <1>1, SetMineType
<1>3. [SetMine(r, p, n) EXCEPT !.proposers = @ \cup {a}] \in RoundStates
  BY <1>2 DEF RoundStates
<1> QED BY <1>3 DEF KCensusTryAccept, n

\* freeze_and_prepare_for returns a round.
LEMMA FreezeType ==
  ASSUME NEW r \in RoundStates, NEW p \in Proc, NEW leader \in Proc
  PROVE  FreezeAndPrepareFor(r, p, leader) \in RoundStates
BY MineType, PrepareForType, SetMineType DEF FreezeAndPrepareFor, OptProc

\* freeze_and_prepare_for_leaders returns a round.
LEMMA FreezeForLeadersType ==
  ASSUME NEW r \in RoundStates, NEW p \in Proc
  PROVE  FreezeAndPrepareForLeaders(r, p) \in RoundStates
<1> DEFINE high == Highest(Leaders(r) \cup {Mine(r, p).prepared_for})
<1>1. Leaders(r) \cup {Mine(r, p).prepared_for} \subseteq OptProc
  BY MineType, LeaderIsProc DEF Leaders, RoundStates, NodeStates, OptProc
<1>2. high \in OptProc
  BY <1>1, HighestLeader
<1> HIDE DEF high
<1>3. [Mine(r, p) EXCEPT !.prepared_for = high] \in NodeStates
  BY <1>2, MineType DEF NodeStates
<1> QED BY <1>3, SetMineType DEF FreezeAndPrepareForLeaders, high

\* Merging a census returns a round.
LEMMA UpdateRemoteStatesType ==
  ASSUME NEW r \in RoundStates, NEW incoming \in [Proc -> NodeStates]
  PROVE  UpdateRemoteStates(r, incoming) \in RoundStates
<1> DEFINE newer == NewerThanOurs(r, incoming)
<1>1. newer \subseteq Proc
  BY DEF NewerThanOurs
<1> HIDE DEF newer
<1>2. {incoming[q].k_proposer : q \in newer} \ {None} \subseteq Proc
  BY <1>1 DEF NodeStates, OptProc
<1>3. [q \in Proc |-> IF q \in newer THEN incoming[q] ELSE r.node_states[q]]
        \in [Proc -> NodeStates]
  BY DEF RoundStates
<1> QED BY <1>2, <1>3 DEF UpdateRemoteStates, newer, RoundStates

-----------------------------------------------------------------------------
(* Walking a schedule *)

\* The states entered are states of the schedule, so one of them is the last.
LEMMA ReachedType ==
  ASSUME NEW r \in RoundStates, NEW p \in Proc, NEW a \in Proc
  PROVE  /\ Reached(r, p, a) \subseteq StateIds(a, p)
         /\ Reached(r, p, a) # {} =>
              /\ Highest(Reached(r, p, a)) \in Nat
              /\ r.propagation_states[a] < Highest(Reached(r, p, a))
<1>1. Reached(r, p, a) \subseteq StateIds(a, p)
  BY DEF Reached
<1>2. \A t \in Reached(r, p, a) : t \in Nat /\ r.propagation_states[a] < t
  BY <1>1, StateIdsAreTimes DEF Reached, RoundStates
<1>3. FinalStateId(a, p) \in Int /\ \A t \in Reached(r, p, a) : t <= FinalStateId(a, p)
  BY <1>1, FinalStateExists, StateIdsAreTimes
<1>4. Reached(r, p, a) # {} => Highest(Reached(r, p, a)) \in Reached(r, p, a)
  BY <1>2, <1>3, BoundedHasHighest
<1> QED BY <1>1, <1>2, <1>4

\* Knowledge grows only for a process that accepted a command.
LEMMA AdvanceType ==
  ASSUME NEW r \in RoundStates, NEW p \in Proc, NEW a \in Proc, NEW conflict \in BOOLEAN,
         ~conflict => Mine(r, p).k_proposer # None
  PROVE  Advance(r, p, a, conflict) \in RoundStates
<1> DEFINE t == Highest(Reached(r, p, a))
           moved == [r EXCEPT !.propagation_states = Replace(@, a, t)]
<1>1. CASE Reached(r, p, a) = {}
  BY <1>1 DEF Advance
<1>2. CASE Reached(r, p, a) # {}
  <2>1. t \in Nat
    BY <1>2, ReachedType
  <2> HIDE DEF t
  <2>2. moved \in RoundStates
    BY <2>1, ReplaceType DEF RoundStates
  <2> HIDE DEF moved
  <2>3. CASE conflict
    BY <1>2, <2>2, <2>3 DEF Advance, moved, t
  <2>4. CASE ~conflict
    <3>1. UpdateKState(Mine(r, p), p, t) \in NodeStates
      BY <2>1, <2>4, MineType, UpdateKStateType
    <3>2. SetMine(moved, p, UpdateKState(Mine(r, p), p, t)) \in RoundStates
      BY <2>2, <3>1, SetMineType
    <3> QED BY <1>2, <2>4, <3>2 DEF Advance, moved, t
  <2> QED BY <2>3, <2>4
<1> QED BY <1>1, <1>2

\* Without a conflict a process that was asked to accept has accepted.
LEMMA AcceptedUnlessConflict ==
  ASSUME NEW r \in RoundStates, NEW p \in Proc, NEW v \in Uid, NEW a \in Proc,
         ~HasConflict(KCensusTryAccept(r, p, v, a), p)
  PROVE  Mine(KCensusTryAccept(r, p, v, a), p).k_proposer # None
<1> DEFINE n == AcceptWithKState(Mine(r, p), p, v, a, 0)
           s == SetMine(r, p, n)
<1>1. CASE Accepts(r, p)
  <2>1. n \in NodeStates /\ n.k_proposer = a
    <3>1. n \in NodeStates
      BY MineType, AcceptWithKStateType
    <3>2. n.k_proposer = a
      BY MineType DEF AcceptWithKState, UpdateKState, NodeStates
    <3> QED BY <3>1, <3>2
  <2> HIDE DEF n
  <2>2. s \in RoundStates /\ Mine(s, p) = n
    BY <2>1, SetMineType
  <2> HIDE DEF s
  <2>3. Mine([s EXCEPT !.proposers = @ \cup {a}], p) = n
    BY <2>2 DEF Mine, RoundStates
  <2>4. KCensusTryAccept(r, p, v, a) = [s EXCEPT !.proposers = @ \cup {a}]
    BY <1>1 DEF KCensusTryAccept, s, n
  <2> QED BY <2>1, <2>3, <2>4, ProcIsNat
<1>2. CASE ~Accepts(r, p)
  <2>1. KCensusTryAccept(r, p, v, a) = r
    BY <1>2 DEF KCensusTryAccept
  <2>2. ~HasConflict(r, p)
    BY <2>1
  <2>3. Mine(r, p).v # NoV /\ Mine(r, p).accept_round = None
    BY <1>2, <2>2 DEF Accepts, HasConflict
  <2> QED BY <2>1, <2>3, MineType DEF NodeStates
<1> QED BY <1>1, <1>2

-----------------------------------------------------------------------------
(* The fallback *)

\* A vote of one's own leaves a round.
LEMMA VoteForType ==
  ASSUME NEW r \in RoundStates, NEW p \in Proc, NEW leader \in Proc, NEW v \in Uid
  PROVE  VoteFor(r, p, leader, v) \in RoundStates
<1> DEFINE n == PaxosAccept(Mine(r, p), leader, v)
<1>1. n \in NodeStates
  BY MineType, PaxosAcceptType
<1> HIDE DEF n
<1>2. SetMine(r, p, n) \in RoundStates
  BY <1>1, SetMineType
<1> QED BY <1>2 DEF VoteFor, n, RoundStates

\* Counting another's vote leaves a round.
LEMMA RecvPaxosAcceptType ==
  ASSUME NEW r \in RoundStates, NEW p \in Proc, NEW src \in Proc, NEW v \in Uid
  PROVE  RecvPaxosAccept(r, p, src, v) \in RoundStates
<1>1. PaxosAccept(r.node_states[src], p, v) \in NodeStates
  BY PaxosAcceptType DEF RoundStates
<1>2. Replace(r.node_states, src, PaxosAccept(r.node_states[src], p, v)) \in [Proc -> NodeStates]
  BY <1>1, ReplaceType DEF RoundStates
<1>3. ASSUME NEW views \in [Proc -> NodeStates], NEW count \in Nat
      PROVE  [r EXCEPT !.node_states = views, !.paxos_accept_count = count] \in RoundStates
  BY DEF RoundStates
<1>4. \A b \in BOOLEAN : (IF b THEN r.paxos_accept_count + 1 ELSE r.paxos_accept_count) \in Nat
  BY DEF RoundStates
<1>5. Votes(r.node_states[src], p) \in BOOLEAN
  BY DEF Votes
<1> QED BY <1>2, <1>3, <1>4, <1>5 DEF RecvPaxosAccept

\* Among the votes there is a highest one, and of equal ones a lowest process.
LEMMA HighestVoteExists ==
  ASSUME NEW r \in RoundStates, Voted(r) # {}
  PROVE  /\ HighestVote(r) \in Voted(r)
         /\ \A s \in Voted(r) :
              r.node_states[s].accept_round <= r.node_states[HighestVote(r)].accept_round
<1> DEFINE round(q) == r.node_states[q].accept_round
           rounds == {round(q) : q \in Voted(r)}
           top == Highest(rounds)
           last == {q \in Voted(r) : round(q) = top}
<1>1. Voted(r) \subseteq Proc /\ \A q \in Voted(r) : round(q) \in OptProc
  BY DEF Voted, RoundStates, NodeStates
<1>2. top \in rounds /\ \A q \in Voted(r) : round(q) <= top
  <2>1. rounds \subseteq OptProc /\ rounds # {}
    BY <1>1
  <2>2. top \in rounds /\ \A y \in rounds : y <= top
    BY <2>1, HighestLeader
  <2> QED BY <2>2
<1>3. \A q \in Voted(r) : round(q) \in Int
  BY <1>1, ProcIsNat
<1> HIDE DEF top
<1>4. last # {} /\ last \subseteq Nat
  BY <1>1, <1>2, ProcIsNat
<1>5. PICK q \in last : \A s \in last : q <= s
  BY <1>4, NatHasLowest
<1>6. \A s \in Voted(r) \ {q} : round(s) < round(q) \/ (round(s) = round(q) /\ q < s)
  <2> TAKE s \in Voted(r) \ {q}
  <2>1. round(s) <= top /\ round(q) = top /\ round(s) \in Int /\ top \in Int
    BY <1>2, <1>3
  <2>2. CASE round(s) = top
    BY <1>4, <1>5, <2>1, <2>2
  <2>3. CASE round(s) # top
    BY <2>1, <2>3
  <2> QED BY <2>2, <2>3
<1>7. /\ HighestVote(r) \in Voted(r)
      /\ \A s \in Voted(r) \ {HighestVote(r)} :
           round(s) < round(HighestVote(r)) \/ (round(s) = round(HighestVote(r)) /\ HighestVote(r) < s)
  BY <1>6 DEF HighestVote
<1> QED BY <1>3, <1>7

\* What adopt may return is a command, or nothing at all.
LEMMA AdoptChoicesType ==
  ASSUME NEW r \in RoundStates
  PROVE  AdoptChoices(r) \subseteq Uid \cup {NoV}
<1>1. \A q \in Proc : r.node_states[q].v \in Uid \cup {NoV}
  BY DEF RoundStates, NodeStates
<1>2. CASE Voted(r) # {}
  BY <1>1, <1>2, HighestVoteExists DEF AdoptChoices, Voted
<1>3. CASE Voted(r) = {}
  BY <1>1, <1>3 DEF AdoptChoices, RoundStates
<1> QED BY <1>2, <1>3

-----------------------------------------------------------------------------
(* What is sent to whom *)

\* The invariant needs more of a message than its type: one that follows a
\* schedule is on its way to the process whose schedule it serves, where
\* forwarding it looks up the state it arrives in.
MessageTo(p) == {m \in Message : m.type \in {"Spread", "SpreadValueOnly"} => m.id.dest = p}

\* Whatever an operator sends a process is addressed to it.
Outgoing(out) ==
  /\ out \in [Proc -> Seq(Message)]
  /\ \A d \in Proc : out[d] \in Seq(MessageTo(d))

\* Messages addressed to a process are messages.
LEMMA MessageToIsMessage ==
  \A p : MessageTo(p) \subseteq Message /\ Seq(MessageTo(p)) \subseteq Seq(Message)
<1>1. \A p : MessageTo(p) \subseteq Message
  BY DEF MessageTo
<1>2. ASSUME NEW p, NEW h \in Seq(MessageTo(p)) PROVE h \in Seq(Message)
  BY <1>1
<1> QED BY <1>1, <1>2

\* An output is well addressed when each destination's part is.
LEMMA OutgoingByDest ==
  ASSUME NEW out, out = [d \in Proc |-> out[d]], \A d \in Proc : out[d] \in Seq(MessageTo(d))
  PROVE  Outgoing(out)
<1>1. \A d \in Proc : out[d] \in Seq(Message)
  BY MessageToIsMessage
<1> QED BY <1>1 DEF Outgoing

\* Sending nothing is well addressed.
LEMMA NothingOutgoing == Outgoing(Nothing)
BY DEF Outgoing, Nothing

\* Two outputs, one after the other, are well addressed.
LEMMA ThenOutgoing ==
  ASSUME NEW o1, NEW o2, Outgoing(o1), Outgoing(o2)
  PROVE  Outgoing(Then(o1, o2))
BY DEF Outgoing, Then

\* A broadcast of a message that follows no schedule is well addressed.
LEMMA ToOthersOutgoing ==
  ASSUME NEW p, NEW D, NEW m \in PaxosAcceptMsg \cup CommitMsg
  PROVE  Outgoing(ToOthers(p, D, m))
<1>1. \A d \in Proc : m \in MessageTo(d)
  BY DEF MessageTo, Message, PaxosAcceptMsg, CommitMsg
<1>2. \A d \in Proc : ToOthers(p, D, m)[d] \in Seq(MessageTo(d))
  BY <1>1 DEF ToOthers
<1>3. ToOthers(p, D, m) = [d \in Proc |-> ToOthers(p, D, m)[d]]
  BY DEF ToOthers
<1> QED BY <1>2, <1>3, OutgoingByDest

\* The messages of a schedule can be put in order.
LEMMA InTimeOrderType ==
  ASSUME NEW a \in Proc, NEW p \in Proc, NEW d \in Proc,
         NEW ids \in SUBSET Emitted(a, p, StateIds(a, p), d)
  PROVE  InTimeOrder(ids) \in Seq(ids)
<1>1. IsFiniteSet(ids) /\ \E seq \in [1 .. Cardinality(ids) -> ids] : IsInTimeOrder(seq)
  BY GraphAssumption DEF GraphMessages
<1>2. InTimeOrder(ids) \in [1 .. Cardinality(ids) -> ids]
  BY <1>1 DEF InTimeOrder
<1>3. Cardinality(ids) \in Nat
  BY <1>1, FS_CardinalityType
<1> QED BY <1>2, <1>3

\* What p emits is addressed as it should, from a state of its schedule.
LEMMA EmittedType ==
  ASSUME NEW a \in Proc, NEW p \in Proc, NEW d \in Proc, NEW T \in SUBSET StateIds(a, p)
  PROVE  /\ Emitted(a, p, T, d) \subseteq SpreadId
         /\ Emitted(a, p, T, d) \subseteq Emitted(a, p, StateIds(a, p), d)
         /\ \A id \in Emitted(a, p, T, d) : id.dest = d
<1>1. Emitted(a, p, T, d) \subseteq Emitted(a, p, StateIds(a, p), d)
  BY DEF Emitted
<1>2. ASSUME NEW id \in Emitted(a, p, T, d)
      PROVE  id \in SpreadId /\ id.dest = d
  <2>1. PICK t \in T : id \in State(a, p, t).needed_by /\ id.dest = d
    BY <1>2 DEF Emitted
  <2>2. /\ State(a, p, t) \in KnowledgeState
        /\ id.proposer = a /\ id.src = p /\ id.time = t
    BY <2>1, StateType
  <2>3. id \in MessageId
    BY <2>1, <2>2 DEF KnowledgeState
  <2> QED BY <2>1, <2>2, <2>3 DEF SpreadId
<1> QED BY <1>1, <1>2

-----------------------------------------------------------------------------
(* One process *)

\* The shard of p, whose held messages are addressed to p.
ShardTypeOK(p, s) == s \in Shards /\ s.queued_messages \in Seq(MessageTo(p))

\* The census of a cleared round is a census.
LEMMA ClearRoundViews == ClearRound.node_states \in [Proc -> NodeStates]
BY ClearRoundType DEF RoundStates

\* The fields of a shard change without disturbing each other.
LEMMA ShardUpdate ==
  ASSUME NEW p \in Proc, NEW s, ShardTypeOK(p, s)
  PROVE  /\ \A r \in RoundStates : ShardTypeOK(p, [s EXCEPT !.round_state = r])
         /\ \A b \in BOOLEAN : /\ ShardTypeOK(p, [s EXCEPT !.slot_left_fast_path = b])
                               /\ ShardTypeOK(p, [s EXCEPT !.panicked = b])
         /\ \A k \in Nat : /\ ShardTypeOK(p, [s EXCEPT !.scan = k])
                           /\ ShardTypeOK(p, [s EXCEPT !.next_uid = k])
         /\ \A Q \in SUBSET Uid : ShardTypeOK(p, [s EXCEPT !.queued_commands = Q])
         /\ \A h \in Seq(MessageTo(p)) : ShardTypeOK(p, [s EXCEPT !.queued_messages = h])
<1>1. \A h \in Seq(MessageTo(p)) : h \in Seq(Message)
  BY MessageToIsMessage
<1> QED BY <1>1 DEF ShardTypeOK, Shards

\* A slot is a natural.
LEMMA SlotType == ASSUME NEW s \in Shards PROVE Slot(s) \in Nat
BY DEF Shards, Slot

\* A failed assertion leaves a shard.
LEMMA PanicType ==
  ASSUME NEW p \in Proc, NEW s, ShardTypeOK(p, s), NEW ok \in BOOLEAN
  PROVE  ShardTypeOK(p, Panic(s, ok))
BY ShardUpdate DEF Panic, ShardTypeOK, Shards

\* A commit starts the next slot.
LEMMA CommitSlotType ==
  ASSUME NEW p \in Proc, NEW s, ShardTypeOK(p, s), NEW v \in Uid
  PROVE  ShardTypeOK(p, CommitSlot(s, v))
<1>1. Append(s.log, [v |-> v, fast |-> ~s.slot_left_fast_path]) \in Seq([v : Uid, fast : BOOLEAN])
  BY DEF ShardTypeOK, Shards
<1> QED BY <1>1, ClearRoundType DEF CommitSlot, ShardTypeOK, Shards

\* Queueing a new command leaves a shard.
LEMMA StoreNewCommandType ==
  ASSUME NEW p \in Proc, NEW s, ShardTypeOK(p, s), NEW v \in Uid
  PROVE  /\ ShardTypeOK(p, StoreNewCommand(s, v))
         /\ v \in StoreNewCommand(s, v).queued_commands
         /\ StoreNewCommand(s, v).round_state = s.round_state
         /\ StoreNewCommand(s, v).queued_messages = s.queued_messages
<1>1. s.queued_commands \cup {v} \in SUBSET Uid /\ s.next_uid + 1 \in Nat
  BY DEF ShardTypeOK, Shards
<1> QED BY <1>1 DEF StoreNewCommand, ShardTypeOK, Shards

\* What is queued and is not a batch is a command.
LEMMA QueuedSinglesType ==
  ASSUME NEW s \in Shards
  PROVE  QueuedSingles(s) \subseteq Command
BY DEF QueuedSingles, Shards, Uid, Batch, Command, IsBatch

\* A batch of the queued commands is a uid.
LEMMA BatchOfType ==
  ASSUME NEW p \in Proc, NEW s \in Shards
  PROVE  BatchOf(s, p) \in Uid
<1>1. s.next_uid \in Nat /\ Slot(s) \in Nat
  BY SlotType DEF Shards
<1> QED BY <1>1, QueuedSinglesType DEF BatchOf, NewBatch, Uid, Batch

\* A client's command is a uid.
LEMMA NewCommandType ==
  ASSUME NEW p \in Proc, NEW k \in Nat
  PROVE  NewCommand(p, k) \in Uid
BY DEF NewCommand, Uid, Command

-----------------------------------------------------------------------------
(* Messages *)

\* inner_spread sends each message to the process it is addressed to.
LEMMA SpreadsOutgoing ==
  ASSUME NEW p \in Proc, NEW s \in Shards, NEW v \in Uid, NEW a \in Proc,
         NEW T \in SUBSET StateIds(a, p), NEW newValue \in BOOLEAN
  PROVE  Outgoing(Spreads(s, p, v, a, T, newValue))
<1> DEFINE conflict == HasConflict(s.round_state, p)
           views == IF conflict THEN s.round_state.node_states ELSE ClearRound.node_states
           msg(id) == [type |-> "Spread", slot |-> Slot(s), v |-> v, id |-> id,
                       explicit |-> conflict, remote_states |-> views,
                       new_value |-> newValue]
<1>1. conflict \in BOOLEAN /\ views \in [Proc -> NodeStates] /\ Slot(s) \in Nat
  BY ClearRoundViews, SlotType DEF Shards, RoundStates, HasConflict
<1> HIDE DEF conflict, views
<1>2. ASSUME NEW d \in Proc PROVE Spreads(s, p, v, a, T, newValue)[d] \in Seq(MessageTo(d))
  <2> DEFINE ids == InTimeOrder(Emitted(a, p, T, d))
  <2>1. ids \in Seq(Emitted(a, p, T, d))
    BY EmittedType, InTimeOrderType
  <2> HIDE DEF ids
  <2>2. \A i \in DOMAIN ids : ids[i] \in SpreadId /\ ids[i].dest = d
    BY <2>1, EmittedType
  <2>3. \A i \in DOMAIN ids : msg(ids[i]) \in MessageTo(d)
    BY <1>1, <2>2 DEF MessageTo, Message, SpreadMsg
  <2> HIDE DEF msg
  <2>4. [i \in DOMAIN ids |-> msg(ids[i])] \in Seq(MessageTo(d))
    BY <2>1, <2>3
  <2> QED BY <2>4 DEF Spreads, ids, msg, conflict, views
<1>3. Spreads(s, p, v, a, T, newValue) = [d \in Proc |-> Spreads(s, p, v, a, T, newValue)[d]]
  BY DEF Spreads
<1> QED BY <1>2, <1>3, OutgoingByDest

\* So does graph_spread_value_only.
LEMMA ValueSpreadsOutgoing ==
  ASSUME NEW p \in Proc, NEW s \in Shards, NEW v \in Uid, NEW a \in Proc,
         NEW t \in StateIds(a, p)
  PROVE  Outgoing(ValueSpreads(s, p, v, a, t))
<1> DEFINE msg(id) == [type |-> "SpreadValueOnly", v |-> v, id |-> id]
<1>1. ASSUME NEW d \in Proc PROVE ValueSpreads(s, p, v, a, t)[d] \in Seq(MessageTo(d))
  <2> DEFINE some == {id \in Emitted(a, p, {t}, d) : ShouldIncludeValue(id)}
             ids == InTimeOrder(some)
  <2>1. /\ some \in SUBSET Emitted(a, p, StateIds(a, p), d)
        /\ \A id \in some : id \in SpreadId /\ ShouldIncludeValue(id) /\ id.dest = d
    BY EmittedType
  <2> HIDE DEF some
  <2>2. ids \in Seq(some)
    BY <2>1, InTimeOrderType
  <2> HIDE DEF ids
  <2>3. \A i \in DOMAIN ids : msg(ids[i]) \in MessageTo(d)
    BY <2>1, <2>2 DEF MessageTo, Message, SpreadValueOnlyMsg
  <2> HIDE DEF msg
  <2>4. [i \in DOMAIN ids |-> msg(ids[i])] \in Seq(MessageTo(d))
    BY <2>2, <2>3
  <2> QED BY <2>4 DEF ValueSpreads, some, ids, msg
<1>2. ValueSpreads(s, p, v, a, t) = [d \in Proc |-> ValueSpreads(s, p, v, a, t)[d]]
  BY DEF ValueSpreads
<1> QED BY <1>1, <1>2, OutgoingByDest

\* Forwarding a value continues from the state it arrived in.
LEMMA ForwardedOutgoing ==
  ASSUME NEW p \in Proc, NEW s \in Shards, NEW m \in MessageTo(p),
         m.type \in {"Spread", "SpreadValueOnly"}, CarriesValue(m)
  PROVE  Outgoing(Forwarded(s, p, m))
<1>1. m.v \in Uid /\ m.id \in SpreadId /\ ShouldIncludeValue(m.id) /\ m.id.dest = p
  BY DEF MessageTo, Message, SpreadMsg, SpreadValueOnlyMsg, PaxosAcceptMsg, CommitMsg, CarriesValue
<1>2. m.id.proposer \in Proc
  BY <1>1 DEF SpreadId, MessageId
<1>3. MsgArrivalStateId(m.id) \in StateIds(m.id.proposer, p)
  BY <1>1, <1>2, GraphAssumption DEF GraphMessages, ShouldIncludeValue
<1> QED BY <1>1, <1>2, <1>3, ValueSpreadsOutgoing DEF Forwarded

-----------------------------------------------------------------------------
(* Processing a message *)

ShardsTypeOK == shard \in [Proc -> Shards] /\ \A p \in Proc : ShardTypeOK(p, shard[p])
ChannelsTypeOK(chan) ==
  /\ chan \in [Proc -> [Proc -> Seq(Message)]]
  /\ \A p \in Proc : Outgoing(chan[p])
HistoryTypeOK ==
  /\ decided \subseteq [slot : Nat, v : Uid, fast : BOOLEAN]
  /\ fallbacks \subseteq [slot : Nat, leader : Proc, choices : SUBSET (Uid \cup {NoV})]

\* What the handlers preserve, pending aside.
HandlersTypeOK == ShardsTypeOK /\ ChannelsTypeOK(net) /\ HistoryTypeOK

\* A process that ends a step with a well typed shard and output keeps Typed.
LEMMA BecomeType ==
  ASSUME ShardsTypeOK, NEW p \in Proc, NEW chan, ChannelsTypeOK(chan),
         NEW s, ShardTypeOK(p, s), NEW out, Outgoing(out), Become(p, s, chan, out)
  PROVE  ShardsTypeOK' /\ ChannelsTypeOK(net)'
<1>1. ShardsTypeOK'
  <2>1. s \in Shards /\ shard' = [shard EXCEPT ![p] = s]
    BY DEF ShardTypeOK, Become
  <2> QED BY <2>1 DEF ShardsTypeOK
<1>2. Outgoing(Then(chan[p], out))
  BY ThenOutgoing DEF ChannelsTypeOK
<1>3. ChannelsTypeOK(net')
  <2> DEFINE sent == Then(chan[p], out)
  <2>1. net' = [chan EXCEPT ![p] = sent]
    BY DEF Become, Send
  <2>2. Outgoing(sent) /\ sent \in [Proc -> Seq(Message)]
    BY <1>2 DEF Outgoing
  <2> HIDE DEF sent
  <2> QED BY <2>1, <2>2 DEF ChannelsTypeOK
<1> QED BY <1>1, <1>3 DEF ChannelsTypeOK

\* Histories that do not change stay typed.
LEMMA HistoryUnchanged ==
  ASSUME HistoryTypeOK, UNCHANGED history
  PROVE  HistoryTypeOK'
BY DEF HistoryTypeOK, history

\* Deciding keeps Typed.
LEMMA DecideType ==
  ASSUME HandlersTypeOK, NEW p \in Proc, NEW s, ShardTypeOK(p, s), NEW v \in Uid,
         NEW fast \in BOOLEAN, NEW chan, ChannelsTypeOK(chan), NEW out, Outgoing(out),
         Decide(p, s, v, fast, chan, out)
  PROVE  HandlersTypeOK'
<1> DEFINE commit == [type |-> "Commit", slot |-> Slot(s), v |-> v]
           ok == CommitAsserts(s, v) /\ MyV(s, p) = v
<1>1. Slot(s) \in Nat
  BY SlotType DEF ShardTypeOK
<1>2. Outgoing(ToOthers(p, Proc, commit))
  BY <1>1, ToOthersOutgoing DEF CommitMsg
<1>3. Outgoing(Then(out, ToOthers(p, Proc, commit)))
  BY <1>2, ThenOutgoing
<1>4. ShardTypeOK(p, Panic(CommitSlot(s, v), ok))
  BY CommitSlotType, PanicType
<1>5. ShardsTypeOK' /\ ChannelsTypeOK(net)'
  BY <1>3, <1>4, BecomeType DEF Decide, HandlersTypeOK
<1>6. HistoryTypeOK'
  BY <1>1 DEF Decide, HandlersTypeOK, HistoryTypeOK
<1> QED BY <1>5, <1>6 DEF HandlersTypeOK

\* The type of a message says which handler's it is.
LEMMA MessageKinds ==
  ASSUME NEW m \in Message
  PROVE  /\ m.type = "Spread" => m \in SpreadMsg
         /\ m.type = "SpreadValueOnly" => m \in SpreadValueOnlyMsg
         /\ m.type = "PaxosAccept" => m \in PaxosAcceptMsg
         /\ m.type = "Commit" => m \in CommitMsg
         /\ m.v \in Uid
BY DEF Message, SpreadMsg, SpreadValueOnlyMsg, PaxosAcceptMsg, CommitMsg

\* A Spread leaves its receiver with a command accepted, or in conflict.
LEMMA NotedType ==
  ASSUME NEW p \in Proc, NEW s, ShardTypeOK(p, s), NEW m \in SpreadMsg
  PROVE  /\ ShardTypeOK(p, Noted(s, p, m))
         /\ ~HasConflict(Noted(s, p, m).round_state, p) =>
              Mine(Noted(s, p, m).round_state, p).k_proposer # None
         /\ Slot(Noted(s, p, m)) = Slot(s)
<1> DEFINE merged == UpdateRemoteStates(s.round_state, Incoming(m))
           r == KCensusTryAccept(merged, p, m.v, m.id.proposer)
           conflict == HasConflict(r, p)
           frozen == IF conflict THEN FreezeAndPrepareForLeaders(r, p) ELSE r
           noted == [frozen EXCEPT !.received_msgs = @ \cup {m.id}]
<1>1. m.id \in MessageId /\ m.id.time \in StateIds(m.id.proposer, m.id.src) /\ m.id.proposer \in Proc
  BY DEF SpreadMsg, SpreadId, MessageId
<1>2. Incoming(m) \in [Proc -> NodeStates]
  BY <1>1, BuildRemoteStateType DEF Incoming, SpreadMsg
<1>3. merged \in RoundStates
  BY <1>2, UpdateRemoteStatesType DEF ShardTypeOK, Shards
<1> HIDE DEF merged
<1>4. r \in RoundStates /\ (~conflict => Mine(r, p).k_proposer # None)
  BY <1>1, <1>3, TryAcceptType, AcceptedUnlessConflict DEF SpreadMsg
<1>5. r = Informed(s.round_state, p, m)
  BY DEF Informed, merged
<1> HIDE DEF r
<1>6. frozen \in RoundStates /\ conflict \in BOOLEAN
  BY <1>4, FreezeForLeadersType DEF HasConflict
<1>7. conflict => HasConflict(frozen, p)
  <2> SUFFICES ASSUME conflict PROVE HasConflict(frozen, p)
    OBVIOUS
  <2> DEFINE n == [Mine(r, p) EXCEPT !.prepared_for = Highest(Leaders(r) \cup {Mine(r, p).prepared_for})]
  <2>1. frozen = SetMine(r, p, n)
    BY DEF FreezeAndPrepareForLeaders
  <2>2. n.accept_round = Mine(r, p).accept_round
    BY <1>4, MineType DEF NodeStates
  <2> HIDE DEF n
  <2>3. frozen.proposers = r.proposers /\ Mine(frozen, p) = n
    BY <1>4, <2>1 DEF SetMine, Mine, Replace, RoundStates
  <2> QED BY <2>2, <2>3 DEF HasConflict
<1>8. /\ noted \in RoundStates
      /\ Mine(noted, p) = Mine(frozen, p) /\ noted.proposers = frozen.proposers
  BY <1>1, <1>6 DEF RoundStates, Mine
<1>9. ~HasConflict(noted, p) => Mine(noted, p).k_proposer # None
  BY <1>4, <1>7, <1>8 DEF HasConflict
<1> HIDE DEF noted, conflict
<1>10. Noted(s, p, m) = [s EXCEPT !.round_state = noted, !.slot_left_fast_path = @ \/ conflict]
  BY <1>5 DEF Noted, noted, conflict
<1>11. (s.slot_left_fast_path \/ conflict) \in BOOLEAN
  OBVIOUS
<1>12. ShardTypeOK(p, Noted(s, p, m)) /\ Noted(s, p, m).round_state = noted /\ Noted(s, p, m).log = s.log
  BY <1>8, <1>10, <1>11 DEF ShardTypeOK, Shards
<1> QED BY <1>9, <1>12 DEF Slot

\* A message of a decided slot keeps Typed.
LEMMA StaleMessageType ==
  ASSUME HandlersTypeOK, NEW p \in Proc, NEW m \in MessageTo(p), NEW s, ShardTypeOK(p, s),
         NEW chan, ChannelsTypeOK(chan), StaleMessage(p, m, s, chan)
  PROVE  HandlersTypeOK'
<1> DEFINE out == IF m.type = "Spread" /\ CarriesValue(m) THEN Forwarded(s, p, m) ELSE Nothing
<1>1. Outgoing(out)
  BY ForwardedOutgoing, NothingOutgoing DEF ShardTypeOK
<1> HIDE DEF out
<1>2. Become(p, s, chan, out) /\ UNCHANGED history
  BY DEF StaleMessage, out
<1> QED BY <1>1, <1>2, BecomeType, HistoryUnchanged DEF HandlersTypeOK

\* A value-only message keeps Typed.
LEMMA ValueOnlyType ==
  ASSUME HandlersTypeOK, NEW p \in Proc, NEW m \in MessageTo(p), NEW s, ShardTypeOK(p, s),
         NEW chan, ChannelsTypeOK(chan), ValueOnly(p, m, s, chan)
  PROVE  HandlersTypeOK'
<1>1. Outgoing(Forwarded(s, p, m))
  BY ForwardedOutgoing DEF ShardTypeOK, ValueOnly, CarriesValue
<1>2. Become(p, s, chan, Forwarded(s, p, m)) /\ UNCHANGED history
  BY DEF ValueOnly
<1> QED BY <1>1, <1>2, BecomeType, HistoryUnchanged DEF HandlersTypeOK

\* A Commit message keeps Typed.
LEMMA CommitMessageType ==
  ASSUME HandlersTypeOK, NEW p \in Proc, NEW m \in MessageTo(p), NEW s, ShardTypeOK(p, s),
         NEW chan, ChannelsTypeOK(chan), CommitMessage(p, m, s, chan)
  PROVE  HandlersTypeOK'
<1> DEFINE t == Panic(CommitSlot(s, m.v), CommitAsserts(s, m.v))
<1>1. m.v \in Uid
  BY MessageToIsMessage, MessageKinds
<1>2. ShardTypeOK(p, t)
  BY <1>1, CommitSlotType, PanicType DEF CommitAsserts
<1> HIDE DEF t
<1>3. Become(p, t, chan, Nothing) /\ UNCHANGED history
  BY DEF CommitMessage, t
<1> QED BY <1>2, <1>3, NothingOutgoing, BecomeType, HistoryUnchanged DEF HandlersTypeOK

\* Voting for one's own proposal in the fallback keeps Typed.
LEMMA AcceptInFallbackType ==
  ASSUME HandlersTypeOK, NEW p \in Proc, NEW s, ShardTypeOK(p, s), NEW v \in Uid,
         NEW newValue \in BOOLEAN, NEW chan, ChannelsTypeOK(chan), NEW out, Outgoing(out),
         AcceptInFallback(p, s, v, newValue, chan, out)
  PROVE  ShardsTypeOK' /\ ChannelsTypeOK(net)'
<1> DEFINE accept == [type |-> "PaxosAccept", slot |-> Slot(s), src |-> p,
                      leader |-> p, v |-> v, new_value |-> newValue]
           r == VoteFor(s.round_state, p, p, v)
           dest == IF newValue THEN Proc ELSE AliveReplicas
           ok == AdoptAsserts(s.round_state)
<1>1. accept \in PaxosAcceptMsg
  BY SlotType DEF PaxosAcceptMsg, ShardTypeOK
<1>2. Outgoing(Then(out, ToOthers(p, dest, accept)))
  BY <1>1, ToOthersOutgoing, ThenOutgoing
<1>3. r \in RoundStates
  BY VoteForType DEF ShardTypeOK, Shards
<1>4. ok \in BOOLEAN
  BY DEF AdoptAsserts
<1> HIDE DEF r, accept, dest, ok
<1>5. ShardTypeOK(p, Panic([s EXCEPT !.round_state = r], ok))
  BY <1>3, <1>4, ShardUpdate, PanicType
<1> QED BY <1>2, <1>5, BecomeType DEF AcceptInFallback, r, accept, dest, ok, HandlersTypeOK

\* Starting the fallback keeps Typed, whatever is adopted.
LEMMA StartFallbackType ==
  ASSUME HandlersTypeOK, NEW p \in Proc, NEW s, ShardTypeOK(p, s), NEW v \in Uid,
         NEW chan, ChannelsTypeOK(chan), NEW out, Outgoing(out),
         StartFallback(p, s, v, chan, out)
  PROVE  HandlersTypeOK'
<1> DEFINE choices == AdoptChoices(s.round_state)
           batch == BatchOf(s, p)
<1>1. choices \subseteq Uid \cup {NoV}
  BY AdoptChoicesType DEF ShardTypeOK, Shards
<1>2. HistoryTypeOK'
  BY <1>1, SlotType DEF StartFallback, HandlersTypeOK, HistoryTypeOK, ShardTypeOK
<1>3. batch \in Uid
  BY BatchOfType DEF ShardTypeOK
<1>4. ShardTypeOK(p, StoreNewCommand(s, batch))
  BY <1>3, StoreNewCommandType
<1> HIDE DEF choices, batch
<1>5. \/ \E w \in choices : AcceptInFallback(p, s, IF w = NoV THEN v ELSE w, FALSE, chan, out)
      \/ AcceptInFallback(p, StoreNewCommand(s, batch), batch, TRUE, chan, out)
      \/ AcceptInFallback(p, s, v, FALSE, chan, out)
  BY DEF StartFallback, choices, batch
<1>6. CASE \E w \in choices : AcceptInFallback(p, s, IF w = NoV THEN v ELSE w, FALSE, chan, out)
  <2>1. PICK w \in choices : AcceptInFallback(p, s, IF w = NoV THEN v ELSE w, FALSE, chan, out)
    BY <1>6
  <2>2. (IF w = NoV THEN v ELSE w) \in Uid
    BY <1>1
  <2> QED BY <1>2, <2>1, <2>2, AcceptInFallbackType DEF HandlersTypeOK
<1>7. CASE AcceptInFallback(p, StoreNewCommand(s, batch), batch, TRUE, chan, out)
  BY <1>2, <1>3, <1>4, <1>7, AcceptInFallbackType DEF HandlersTypeOK
<1>8. CASE AcceptInFallback(p, s, v, FALSE, chan, out)
  BY <1>2, <1>8, AcceptInFallbackType DEF HandlersTypeOK
<1> QED BY <1>5, <1>6, <1>7, <1>8

\* What the Spread handler does at the end of its walk keeps Typed.
LEMMA ConcludeType ==
  ASSUME HandlersTypeOK, NEW p \in Proc, NEW m \in SpreadMsg, NEW conflict \in BOOLEAN,
         NEW walked, ShardTypeOK(p, walked), NEW out, Outgoing(out),
         NEW chan, ChannelsTypeOK(chan), Conclude(p, m, conflict, walked, out, chan)
  PROVE  HandlersTypeOK'
<1> DEFINE r       == walked.round_state
           commits == ~conflict /\ Leader(m.id.proposer) = p /\ AtEndOfSchedule(r, p, m.id.proposer)
           leads   == ~commits /\ Mine(r, p).prepared_for = p
           asserts == /\ commits => CanKCensusCommit(r, p)
                      /\ leads => conflict /\ p \in AliveReplicas
           s       == Panic(walked, asserts)
<1>1. m.v \in Uid
  BY DEF SpreadMsg
<1> HIDE DEF r, commits, leads
<1>2. asserts \in BOOLEAN
  OBVIOUS
<1> HIDE DEF asserts
<1>3. ShardTypeOK(p, s)
  BY <1>2, PanicType
<1> HIDE DEF s
<1>4. \/ Decide(p, s, m.v, TRUE, chan, out)
      \/ StartFallback(p, s, m.v, chan, out)
      \/ Become(p, s, chan, out) /\ UNCHANGED history
  BY DEF Conclude, r, commits, leads, asserts, s
<1>5. CASE Decide(p, s, m.v, TRUE, chan, out)
  BY <1>1, <1>3, <1>5, DecideType
<1>6. CASE StartFallback(p, s, m.v, chan, out)
  BY <1>1, <1>3, <1>6, StartFallbackType
<1>7. CASE Become(p, s, chan, out) /\ UNCHANGED history
  BY <1>3, <1>7, BecomeType, HistoryUnchanged DEF HandlersTypeOK
<1> QED BY <1>4, <1>5, <1>6, <1>7

\* The Spread handler keeps Typed.
LEMMA SpreadType ==
  ASSUME HandlersTypeOK, NEW p \in Proc, NEW m \in MessageTo(p), NEW s, ShardTypeOK(p, s),
         NEW chan, ChannelsTypeOK(chan), Spread(p, m, s, chan)
  PROVE  HandlersTypeOK'
<1> DEFINE a        == m.id.proposer
           noted    == Noted(s, p, m)
           conflict == HasConflict(noted.round_state, p)
           reached  == Reached(noted.round_state, p, a)
           r        == Advance(noted.round_state, p, a, conflict)
           sends    == SpreadsAsserts(noted.round_state, p, m.v, a, reached)
           walked   == Panic([noted EXCEPT !.round_state = r], sends)
           out      == Spreads(noted, p, m.v, a, reached, m.new_value)
<1>1. m \in SpreadMsg /\ a \in Proc /\ m.v \in Uid /\ m.new_value \in BOOLEAN
  BY MessageToIsMessage, MessageKinds DEF Spread, SpreadMsg, SpreadId, MessageId
<1>2. ShardTypeOK(p, noted) /\ (~conflict => Mine(noted.round_state, p).k_proposer # None)
  BY <1>1, NotedType
<1> HIDE DEF a, noted
<1>3. noted \in Shards /\ noted.round_state \in RoundStates
  BY <1>2 DEF ShardTypeOK, Shards
<1>4. conflict \in BOOLEAN /\ reached \subseteq StateIds(a, p)
  BY <1>1, <1>3, ReachedType DEF HasConflict
<1> HIDE DEF conflict
<1>5. r \in RoundStates
  BY <1>1, <1>2, <1>3, <1>4, AdvanceType
<1> HIDE DEF reached
<1>6. Outgoing(out)
  BY <1>1, <1>3, <1>4, SpreadsOutgoing
<1> HIDE DEF r, out
<1>7. sends \in BOOLEAN
  BY DEF SpreadsAsserts
<1> HIDE DEF sends
<1>8. ShardTypeOK(p, walked)
  BY <1>2, <1>5, <1>7, ShardUpdate, PanicType
<1> HIDE DEF walked
<1>9. \/ Conclude(p, m, conflict, walked, out, chan)
      \/ Become(p, Panic(s, FALSE), chan, Nothing) /\ UNCHANGED history
  BY DEF Spread, WalkFrom, WalkSchedule, a, noted, conflict, reached, r, sends, walked, out
<1>10. CASE Conclude(p, m, conflict, walked, out, chan)
  BY <1>1, <1>4, <1>6, <1>8, <1>10, ConcludeType
<1>11. CASE Become(p, Panic(s, FALSE), chan, Nothing) /\ UNCHANGED history
  <2>1. ShardTypeOK(p, Panic(s, FALSE))
    BY PanicType
  <2> QED BY <1>11, <2>1, NothingOutgoing, BecomeType, HistoryUnchanged DEF HandlersTypeOK
<1> QED BY <1>9, <1>10, <1>11

\* The PaxosAccept handler keeps Typed.
LEMMA PaxosAcceptMessageType ==
  ASSUME HandlersTypeOK, NEW p \in Proc, NEW m \in MessageTo(p), NEW s, ShardTypeOK(p, s),
         NEW chan, ChannelsTypeOK(chan), PaxosAcceptMessage(p, m, s, chan)
  PROVE  HandlersTypeOK'
<1> DEFINE prepared == Promise(s, p, m.leader)
           vote     == VoteFor(prepared.round_state, p, m.leader, m.v)
           count    == RecvPaxosAccept(prepared.round_state, p, m.src, m.v)
           voted    == [prepared EXCEPT !.round_state = vote]
           counted  == [prepared EXCEPT !.round_state = count]
           answer   == [m EXCEPT !.src = p, !.new_value = FALSE]
           reply    == ToOthers(p, {m.leader} \cap AliveReplicas, answer)
<1>1. m \in PaxosAcceptMsg
  BY MessageToIsMessage, MessageKinds DEF PaxosAcceptMessage
<1>2. m.leader \in Proc /\ m.src \in Proc /\ m.v \in Uid /\ answer \in PaxosAcceptMsg
  BY <1>1 DEF PaxosAcceptMsg
<1>3. ShardTypeOK(p, prepared)
  <2>1. FreezeAndPrepareFor(s.round_state, p, m.leader) \in RoundStates
    BY <1>2, FreezeType DEF ShardTypeOK, Shards
  <2> QED BY <2>1 DEF Promise, ShardTypeOK, Shards
<1> HIDE DEF prepared
<1>4. vote \in RoundStates /\ count \in RoundStates
  BY <1>2, <1>3, VoteForType, RecvPaxosAcceptType DEF ShardTypeOK, Shards
<1> HIDE DEF vote, count
<1>5. ShardTypeOK(p, voted) /\ ShardTypeOK(p, counted)
  BY <1>3, <1>4, ShardUpdate
<1> HIDE DEF voted, counted
<1>6. ShardTypeOK(p, Panic(voted, m.src = m.leader))
  BY <1>5, PanicType
<1>7. Outgoing(reply)
  BY <1>2, ToOthersOutgoing
<1> HIDE DEF reply
<1>8. \/ Become(p, s, chan, Nothing) /\ UNCHANGED history
      \/ Become(p, prepared, chan, Nothing) /\ UNCHANGED history
      \/ Become(p, Panic(voted, m.src = m.leader), chan, reply) /\ UNCHANGED history
      \/ Decide(p, counted, m.v, FALSE, chan, Nothing)
      \/ Become(p, counted, chan, Nothing) /\ UNCHANGED history
  BY DEF PaxosAcceptMessage, prepared, vote, count, voted, counted, reply
<1>9. CASE Decide(p, counted, m.v, FALSE, chan, Nothing)
  BY <1>2, <1>5, <1>9, NothingOutgoing, DecideType
<1>10. CASE ~Decide(p, counted, m.v, FALSE, chan, Nothing)
  BY <1>3, <1>5, <1>6, <1>7, <1>8, <1>10, NothingOutgoing, BecomeType, HistoryUnchanged
     DEF HandlersTypeOK
<1> QED BY <1>9, <1>10

\* Handling any message keeps Typed.
LEMMA ProcessType ==
  ASSUME HandlersTypeOK, NEW p \in Proc, NEW m \in MessageTo(p), NEW s, ShardTypeOK(p, s),
         NEW chan, ChannelsTypeOK(chan), Process(p, m, s, chan)
  PROVE  HandlersTypeOK'
BY StaleMessageType, ValueOnlyType, CommitMessageType, SpreadType, PaxosAcceptMessageType
   DEF Process

-----------------------------------------------------------------------------
(* The main loop *)

\* Proposing keeps Typed.
LEMMA ProposeAndSpreadType ==
  ASSUME HandlersTypeOK, NEW p \in Proc, NEW s, ShardTypeOK(p, s), NEW v \in Uid,
         NEW newValue \in BOOLEAN, ProposeAndSpread(p, s, v, newValue)
  PROVE  ShardsTypeOK' /\ ChannelsTypeOK(net)'
<1> DEFINE r == KCensusTryAccept(s.round_state, p, v, p)
           t == [s EXCEPT !.round_state = r]
           out == Spreads(t, p, v, p, {0}, newValue)
<1>1. r \in RoundStates
  BY TryAcceptType DEF ShardTypeOK, Shards
<1> HIDE DEF r
<1>2. ShardTypeOK(p, t)
  BY <1>1, ShardUpdate
<1> HIDE DEF t
<1>3. {0} \in SUBSET StateIds(p, p)
  BY StateIdsAreTimes
<1>4. Outgoing(out)
  BY <1>2, <1>3, SpreadsOutgoing DEF ShardTypeOK
<1> HIDE DEF out
<1>5. ShardTypeOK(p, Panic(s, FALSE))
  BY PanicType
<1>6. Become(p, t, net, out) \/ Become(p, Panic(s, FALSE), net, Nothing)
  BY DEF ProposeAndSpread, r, t, out
<1> QED BY <1>2, <1>4, <1>5, <1>6, NothingOutgoing, BecomeType DEF HandlersTypeOK

\* Everything a message brings along is kept as it is typed.
LEMMA StoreRemoteCommandType ==
  ASSUME NEW p \in Proc, NEW s, ShardTypeOK(p, s), NEW m \in Message
  PROVE  ShardTypeOK(p, StoreRemoteCommand(s, m))
<1>1. s.queued_commands \cup {m.v} \in SUBSET Uid
  BY MessageKinds DEF ShardTypeOK, Shards
<1> QED BY <1>1, ShardUpdate DEF StoreRemoteCommand

\* Taking a message from a connection keeps Typed.
LEMMA ReceiveType ==
  ASSUME HandlersTypeOK, NEW p \in Proc, NEW q \in Proc, Receive(p, q)
  PROVE  HandlersTypeOK'
<1> DEFINE m      == Head(net[q][p])
           chan   == [net EXCEPT ![q][p] = Tail(@)]
           stored == StoreRemoteCommand(shard[p], m)
           ok     == StoreAsserts(shard[p], m) /\ ReadyAsserts(stored, m)
           s      == Panic(stored, ok)
           more   == IF CarriesValue(m) THEN 1 ELSE 0
           held   == Append(s.queued_messages, m)
<1>1. net[q][p] \in Seq(MessageTo(p)) /\ net[q][p] # <<>>
  BY DEF Receive, HandlersTypeOK, ChannelsTypeOK, Outgoing
<1>2. m \in MessageTo(p) /\ Tail(net[q][p]) \in Seq(MessageTo(p))
  BY <1>1
<1>3. ChannelsTypeOK(chan)
  BY <1>2 DEF HandlersTypeOK, ChannelsTypeOK, Outgoing
<1> HIDE DEF m, chan
<1>4. ShardTypeOK(p, stored)
  BY <1>2, MessageToIsMessage, StoreRemoteCommandType DEF HandlersTypeOK, ShardsTypeOK
<1> HIDE DEF stored
<1>5. ok \in BOOLEAN
  OBVIOUS
<1> HIDE DEF ok
<1>6. ShardTypeOK(p, s)
  BY <1>4, <1>5, PanicType
<1> HIDE DEF s
<1>7. ShardTypeOK(p, [s EXCEPT !.scan = more])
  BY <1>6, ShardUpdate
<1> HIDE DEF more
<1>8. held \in Seq(MessageTo(p))
  BY <1>2, <1>6 DEF ShardTypeOK
<1> HIDE DEF held
<1>9. ShardTypeOK(p, [s EXCEPT !.queued_messages = held])
  BY <1>6, <1>8, ShardUpdate
<1>10. \/ Process(p, m, [s EXCEPT !.scan = more], chan)
       \/ Become(p, [s EXCEPT !.queued_messages = held], chan, Nothing) /\ UNCHANGED history
  BY DEF Receive, m, chan, stored, ok, s, more, held
<1>11. CASE Process(p, m, [s EXCEPT !.scan = more], chan)
  BY <1>2, <1>3, <1>7, <1>11, ProcessType
<1>12. CASE Become(p, [s EXCEPT !.queued_messages = held], chan, Nothing) /\ UNCHANGED history
  BY <1>3, <1>9, <1>12, NothingOutgoing, BecomeType, HistoryUnchanged DEF HandlersTypeOK
<1> QED BY <1>10, <1>11, <1>12

\* A client's command keeps Typed.
LEMMA ClientCommandType ==
  ASSUME HandlersTypeOK, NEW p \in Proc, ClientCommand(p)
  PROVE  HandlersTypeOK'
<1> DEFINE old == shard[p]
           v   == NewCommand(p, old.next_uid)
           s   == [StoreNewCommand(old, v) EXCEPT !.scan = Len(old.queued_messages) + 1]
           out == ValueSpreads(s, p, v, p, 0)
<1>1. ShardTypeOK(p, old)
  BY DEF HandlersTypeOK, ShardsTypeOK
<1>2. v \in Uid /\ Len(old.queued_messages) + 1 \in Nat
  BY <1>1, NewCommandType DEF ShardTypeOK, Shards
<1> HIDE DEF old, v
<1>3. ShardTypeOK(p, s)
  BY <1>1, <1>2, StoreNewCommandType, ShardUpdate
<1> HIDE DEF s
<1>4. Outgoing(out)
  BY <1>2, <1>3, StateIdsAreTimes, ValueSpreadsOutgoing DEF ShardTypeOK
<1> HIDE DEF out
<1>5. (Become(p, s, net, out) \/ ProposeAndSpread(p, s, v, TRUE)) /\ UNCHANGED history
  BY DEF ClientCommand, old, v, s, out
<1>6. ShardsTypeOK' /\ ChannelsTypeOK(net)'
  BY <1>2, <1>3, <1>4, <1>5, BecomeType, ProposeAndSpreadType DEF HandlersTypeOK
<1> QED BY <1>5, <1>6, HistoryUnchanged DEF HandlersTypeOK

\* Handling a held message keeps Typed.
LEMMA ProcessHeldType ==
  ASSUME HandlersTypeOK, NEW p \in Proc, ProcessHeld(p)
  PROVE  HandlersTypeOK'
<1>1. PICK i \in ReadyHeld(p) :
        Process(p, shard[p].queued_messages[i],
                [shard[p] EXCEPT !.queued_messages = RemoveAt(@, i), !.scan = i], net)
  BY DEF ProcessHeld
<1> DEFINE h == shard[p].queued_messages
           rest == RemoveAt(h, i)
           s == [shard[p] EXCEPT !.queued_messages = rest]
<1>2. ShardTypeOK(p, shard[p]) /\ h \in Seq(MessageTo(p))
  BY DEF HandlersTypeOK, ShardsTypeOK, ShardTypeOK
<1>3. i \in 1 .. Len(h) /\ h[i] \in MessageTo(p)
  BY <1>2 DEF ReadyHeld
<1>4. rest \in Seq(MessageTo(p))
  <2>1. SubSeq(h, 1, i - 1) \in Seq(MessageTo(p)) /\ SubSeq(h, i + 1, Len(h)) \in Seq(MessageTo(p))
    BY <1>2, <1>3
  <2> QED BY <2>1 DEF RemoveAt
<1> HIDE DEF rest
<1>5. ShardTypeOK(p, s)
  BY <1>2, <1>4, ShardUpdate
<1>6. ShardTypeOK(p, [s EXCEPT !.scan = i])
  <2>1. i \in Nat
    BY <1>2, <1>3
  <2> HIDE DEF s, h
  <2> QED BY <1>5, <2>1, ShardUpdate
<1>7. [s EXCEPT !.scan = i] = [shard[p] EXCEPT !.queued_messages = RemoveAt(@, i), !.scan = i]
  BY <1>2 DEF rest, ShardTypeOK, Shards
<1> QED BY <1>1, <1>3, <1>6, <1>7, ProcessType DEF HandlersTypeOK

\* The end of the loop's body keeps Typed.
LEMMA ReproposeType ==
  ASSUME HandlersTypeOK, NEW p \in Proc, Repropose(p)
  PROVE  HandlersTypeOK'
<1> DEFINE s == [shard[p] EXCEPT !.scan = 0]
           batch == BatchOf(s, p)
<1>1. ShardTypeOK(p, s)
  BY ShardUpdate DEF HandlersTypeOK, ShardsTypeOK
<1> HIDE DEF s
<1>2. batch \in Uid /\ QueuedSingles(s) \subseteq Uid
  BY <1>1, BatchOfType, QueuedSinglesType DEF ShardTypeOK, Uid
<1> HIDE DEF batch
<1>3. ShardTypeOK(p, StoreNewCommand(s, batch))
  BY <1>1, <1>2, StoreNewCommandType
<1>4. /\ UNCHANGED history
      /\ \/ ProposeAndSpread(p, StoreNewCommand(s, batch), batch, TRUE)
         \/ \E v \in QueuedSingles(s) : ProposeAndSpread(p, s, v, FALSE)
         \/ Become(p, s, net, Nothing)
  BY DEF Repropose, s, batch
<1>5. ShardsTypeOK' /\ ChannelsTypeOK(net)'
  BY <1>1, <1>2, <1>3, <1>4, ProposeAndSpreadType, NothingOutgoing, BecomeType DEF HandlersTypeOK
<1> QED BY <1>4, <1>5, HistoryUnchanged DEF HandlersTypeOK

-----------------------------------------------------------------------------
(* The invariant *)

Typed == HandlersTypeOK /\ pending \in [Proc -> Nat]

\* Typed holds at first.
LEMMA InitTyped == Init => Typed
<1> SUFFICES ASSUME Init PROVE Typed
  OBVIOUS
<1>1. \A p \in Proc : ShardTypeOK(p, NewShard)
  BY ClearRoundType DEF ShardTypeOK, Shards, NewShard
<1>2. ShardsTypeOK
  BY <1>1 DEF Init, ShardsTypeOK, ShardTypeOK
<1>3. ChannelsTypeOK(net)
  BY NothingOutgoing DEF Init, ChannelsTypeOK, Outgoing
<1> QED BY <1>2, <1>3, ShardAssumption, WorkloadAssumption DEF Init, Typed, HandlersTypeOK, HistoryTypeOK

\* A step of any process keeps Typed.
LEMMA StepTyped ==
  ASSUME Typed, NEW p \in Proc, Step(p)
  PROVE  Typed'
<1>1. HandlersTypeOK'
  BY ClientCommandType, ReceiveType, ProcessHeldType, ReproposeType DEF Step, Typed
<1>2. pending' \in [Proc -> Nat]
  <2>1. pending' = pending \/ (pending[p] > 0 /\ pending' = [pending EXCEPT ![p] = @ - 1])
    BY DEF Step, ClientCommand, Receive, ProcessHeld, Repropose
  <2> QED BY <2>1 DEF Typed
<1> QED BY <1>1, <1>2 DEF Typed

\* Stuttering keeps Typed.
LEMMA UnchangedTyped == Typed /\ UNCHANGED vars => Typed'
BY DEF Typed, HandlersTypeOK, ShardsTypeOK, ChannelsTypeOK, HistoryTypeOK, vars

\* Typed is at least TypeOK.
LEMMA TypedImpliesTypeOK == Typed => TypeOK
BY DEF Typed, HandlersTypeOK, ShardsTypeOK, ChannelsTypeOK, HistoryTypeOK, TypeOK

\* Typed is inductive.
LEMMA NextTyped == Typed /\ [Next]_vars => Typed'
<1> SUFFICES ASSUME Typed, [Next]_vars PROVE Typed'
  OBVIOUS
<1>1. CASE \E p \in Proc : Step(p)
  BY <1>1, StepTyped
<1>2. CASE UNCHANGED vars
  BY <1>2, UnchangedTyped
<1> QED BY <1>1, <1>2 DEF Next, Terminated

\* Every reachable state is Typed.
LEMMA AlwaysTyped == Spec => []Typed
BY InitTyped, NextTyped, PTL DEF Spec

\* Every state is of the types declared with the variables: views never mix the
\* fields of a schedule with those of a vote, uids name what they are, and
\* indices stay in range, for every number of processes, plan and workload.
THEOREM TypeCorrect == Spec => []TypeOK
BY AlwaysTyped, TypedImpliesTypeOK, PTL

-----------------------------------------------------------------------------
(* Promises, view by view *)

\* Promises and votes are integers, None included.
LEMMA RanksAreInts ==
  \A n \in NodeStates : n.prepared_for \in Int /\ n.accept_round \in Int
BY ProcIsNat DEF NodeStates

\* A report that does not change keeps its promises.
LEMMA KeepsPromiseReflexive == \A n \in NodeStates : KeepsPromise(n, n)
BY RanksAreInts DEF KeepsPromise

\* Two changes that keep promises keep them together.
LEMMA KeepsPromiseTransitive ==
  ASSUME NEW n \in NodeStates, NEW o \in NodeStates, NEW u \in NodeStates,
         KeepsPromise(n, o), KeepsPromise(o, u)
  PROVE  KeepsPromise(n, u)
<1>1. u.prepared_for >= n.prepared_for /\ u.accept_round >= n.accept_round
  BY RanksAreInts DEF KeepsPromise
<1>2. IsFrozen(n) => IsFrozen(o)
  <2>1. IsFrozen(n) => n.prepared_for \in Nat
    BY ProcIsNat DEF IsFrozen, NodeStates, OptProc
  <2>2. o.prepared_for >= n.prepared_for /\ o.prepared_for \in Int
    BY RanksAreInts DEF KeepsPromise
  <2> QED BY <2>1, <2>2 DEF IsFrozen, None
<1>3. ASSUME u.accept_round = n.accept_round
      PROVE  o.accept_round = n.accept_round /\ u.accept_round = o.accept_round
  BY <1>3, RanksAreInts DEF KeepsPromise
<1> QED BY <1>1, <1>2, <1>3 DEF KeepsPromise

\* prepare_for keeps promises.
LEMMA PrepareForKeeps ==
  ASSUME NEW n \in NodeStates, NEW leader \in OptProc
  PROVE  KeepsPromise(n, PrepareFor(n, leader))
<1>1. leader \in Int
  BY ProcIsNat
<1>2. CASE n.prepared_for < leader
  <2>1. /\ PrepareFor(n, leader).prepared_for = leader
        /\ PrepareFor(n, leader).accept_round = n.accept_round
        /\ PrepareFor(n, leader).v = n.v
        /\ PrepareFor(n, leader).k_proposer = n.k_proposer
        /\ PrepareFor(n, leader).k_state = n.k_state
    BY <1>2 DEF PrepareFor, NodeStates
  <2> QED BY <1>1, <1>2, <2>1, RanksAreInts DEF KeepsPromise
<1>3. CASE ~(n.prepared_for < leader)
  BY <1>3, KeepsPromiseReflexive DEF PrepareFor
<1> QED BY <1>2, <1>3

\* paxos_accept keeps promises.
LEMMA PaxosAcceptKeeps ==
  ASSUME NEW n \in NodeStates, NEW leader \in Proc, NEW v \in Uid
  PROVE  KeepsPromise(n, PaxosAccept(n, leader, v))
<1>1. CASE Votes(n, leader)
  BY <1>1, ProcIsNat, RanksAreInts DEF PaxosAccept, Votes, KeepsPromise
<1>2. CASE ~Votes(n, leader)
  BY <1>2, PrepareForKeeps DEF PaxosAccept, OptProc
<1> QED BY <1>1, <1>2

\* Advancing, or accepting, while not frozen.
LEMMA UpdateKStateKeeps ==
  ASSUME NEW n \in NodeStates, ~IsFrozen(n), n.k_proposer # None, NEW p \in Proc, NEW t \in Nat
  PROVE  KeepsPromise(n, UpdateKState(n, p, t))
<1>1. /\ UpdateKState(n, p, t).prepared_for \in {n.prepared_for, Leader(n.k_proposer)}
      /\ UpdateKState(n, p, t).accept_round = n.accept_round
      /\ UpdateKState(n, p, t).v = n.v
      /\ UpdateKState(n, p, t).k_proposer = n.k_proposer
  BY DEF UpdateKState, NodeStates
<1>2. n.prepared_for = -1 /\ Leader(n.k_proposer) \in Nat
  BY LeaderIsProc, ProcIsNat DEF IsFrozen, NodeStates, None, OptProc
<1> QED BY <1>1, <1>2, RanksAreInts DEF KeepsPromise

\* Accepting a first command keeps promises.
LEMMA AcceptKeeps ==
  ASSUME NEW n \in NodeStates, ~IsFrozen(n), n.v = NoV, NEW p \in Proc, NEW v \in Uid,
         NEW a \in Proc
  PROVE  KeepsPromise(n, AcceptWithKState(n, p, v, a, 0))
<1> DEFINE o == AcceptWithKState(n, p, v, a, 0)
<1>1. o.prepared_for \in {n.prepared_for, Leader(a)} /\ o.accept_round = n.accept_round
  BY DEF AcceptWithKState, UpdateKState, NodeStates
<1>2. n.prepared_for = -1 /\ Leader(a) \in Nat
  BY LeaderIsProc, ProcIsNat DEF IsFrozen, NodeStates, None
<1> QED BY <1>1, <1>2, RanksAreInts DEF KeepsPromise

-----------------------------------------------------------------------------
(* Promises, round by round *)

\* p's own view of itself keeps its promises from round r to round o.
Keeps(p, r, o) == KeepsPromise(Mine(r, p), Mine(o, p))

\* The same of two changes of a round.
LEMMA KeepsTransitive ==
  ASSUME NEW p \in Proc, NEW r \in RoundStates, NEW o \in RoundStates, NEW u \in RoundStates,
         Keeps(p, r, o), Keeps(p, o, u)
  PROVE  Keeps(p, r, u)
BY MineType, KeepsPromiseTransitive DEF Keeps

\* A round keeps its process's promises when that process's report does.
LEMMA SetMineKeeps ==
  ASSUME NEW p \in Proc, NEW r \in RoundStates, NEW n \in NodeStates, KeepsPromise(Mine(r, p), n)
  PROVE  Keeps(p, r, SetMine(r, p, n))
BY SetMineType DEF Keeps

\* A census never overwrites its receiver's own view: that is asserted.
LEMMA UpdateRemoteKeeps ==
  ASSUME NEW p \in Proc, NEW r \in RoundStates, NEW incoming, UpdateRemoteAsserts(r, p, incoming)
  PROVE  Keeps(p, r, UpdateRemoteStates(r, incoming))
<1>1. p \notin NewerThanOurs(r, incoming)
  BY DEF UpdateRemoteAsserts
<1>2. Mine(UpdateRemoteStates(r, incoming), p) = Mine(r, p)
  BY <1>1 DEF UpdateRemoteStates, Mine, RoundStates
<1> QED BY <1>2, MineType, KeepsPromiseReflexive DEF Keeps

\* kcensus_try_accept keeps promises if its assertions hold.
LEMMA TryAcceptKeeps ==
  ASSUME NEW p \in Proc, NEW r \in RoundStates, NEW v \in Uid, NEW a \in Proc,
         TryAcceptAsserts(r, p, a)
  PROVE  Keeps(p, r, KCensusTryAccept(r, p, v, a))
<1> DEFINE n == AcceptWithKState(Mine(r, p), p, v, a, 0)
           s == SetMine(r, p, n)
<1>1. CASE Accepts(r, p)
  <2>1. n \in NodeStates /\ KeepsPromise(Mine(r, p), n)
    BY <1>1, MineType, AcceptWithKStateType, AcceptKeeps DEF TryAcceptAsserts, Accepts
  <2> HIDE DEF n
  <2>2. s \in RoundStates /\ Keeps(p, r, s)
    BY <2>1, SetMineType, SetMineKeeps
  <2> HIDE DEF s
  <2>3. Mine([s EXCEPT !.proposers = @ \cup {a}], p) = Mine(s, p)
    BY <2>2 DEF Mine, RoundStates
  <2>4. KCensusTryAccept(r, p, v, a) = [s EXCEPT !.proposers = @ \cup {a}]
    BY <1>1 DEF KCensusTryAccept, s, n
  <2> QED BY <2>2, <2>3, <2>4 DEF Keeps
<1>2. CASE ~Accepts(r, p)
  BY <1>2, MineType, KeepsPromiseReflexive DEF KCensusTryAccept, Keeps
<1> QED BY <1>1, <1>2

\* Freezing for one leader keeps promises.
LEMMA FreezeKeeps ==
  ASSUME NEW p \in Proc, NEW r \in RoundStates, NEW leader \in Proc
  PROVE  Keeps(p, r, FreezeAndPrepareFor(r, p, leader))
<1>1. leader \in OptProc
  BY DEF OptProc
<1> QED BY <1>1, MineType, PrepareForType, PrepareForKeeps, SetMineKeeps DEF FreezeAndPrepareFor

\* Freezing for the highest of several leaders keeps promises.
LEMMA FreezeForLeadersKeeps ==
  ASSUME NEW p \in Proc, NEW r \in RoundStates
  PROVE  Keeps(p, r, FreezeAndPrepareForLeaders(r, p))
<1> DEFINE mine == Mine(r, p)
           choices == Leaders(r) \cup {mine.prepared_for}
           high == Highest(choices)
           n == [mine EXCEPT !.prepared_for = high]
<1>1. mine \in NodeStates
  BY MineType
<1>2. choices \subseteq OptProc /\ choices # {}
  BY <1>1, LeaderIsProc DEF Leaders, RoundStates, NodeStates, OptProc
<1>3. high \in OptProc /\ mine.prepared_for <= high
  BY <1>2, HighestLeader
<1>4. FreezeAndPrepareForLeaders(r, p) = SetMine(r, p, n)
  BY DEF FreezeAndPrepareForLeaders
<1> HIDE DEF high, mine
<1>5. n \in NodeStates
  BY <1>1, <1>3 DEF NodeStates
<1>6. n.prepared_for = high /\ n.accept_round = mine.accept_round /\ n.v = mine.v
      /\ n.k_proposer = mine.k_proposer /\ n.k_state = mine.k_state
  BY <1>1 DEF NodeStates
<1> HIDE DEF n
<1>7. KeepsPromise(mine, n)
  BY <1>1, <1>3, <1>6, ProcIsNat, RanksAreInts DEF KeepsPromise
<1> QED BY <1>4, <1>5, <1>7, SetMineKeeps DEF mine

\* Walking the schedule keeps promises.
LEMMA AdvanceKeeps ==
  ASSUME NEW p \in Proc, NEW r \in RoundStates, NEW a \in Proc, NEW conflict \in BOOLEAN,
         ~conflict => ~IsFrozen(Mine(r, p)) /\ Mine(r, p).k_proposer # None
  PROVE  Keeps(p, r, Advance(r, p, a, conflict))
<1> DEFINE t == Highest(Reached(r, p, a))
           moved == [r EXCEPT !.propagation_states = Replace(@, a, t)]
           n == UpdateKState(Mine(r, p), p, t)
<1>1. CASE Reached(r, p, a) = {}
  BY <1>1, MineType, KeepsPromiseReflexive DEF Advance, Keeps
<1>2. CASE Reached(r, p, a) # {}
  <2>1. t \in Nat
    BY <1>2, ReachedType
  <2> HIDE DEF t
  <2>2. moved \in RoundStates /\ Mine(moved, p) = Mine(r, p)
    BY <2>1, ReplaceType DEF RoundStates, Mine
  <2> HIDE DEF moved
  <2>3. CASE conflict
    BY <1>2, <2>2, <2>3, MineType, KeepsPromiseReflexive DEF Advance, moved, t, Keeps
  <2>4. CASE ~conflict
    <3>1. n \in NodeStates /\ KeepsPromise(Mine(moved, p), n)
      BY <2>1, <2>2, <2>4, MineType, UpdateKStateType, UpdateKStateKeeps
    <3> HIDE DEF n
    <3>2. Keeps(p, moved, SetMine(moved, p, n))
      BY <2>2, <3>1, SetMineKeeps
    <3> QED BY <1>2, <2>2, <2>4, <3>2 DEF Advance, moved, t, n, Keeps
  <2> QED BY <2>3, <2>4
<1> QED BY <1>1, <1>2

\* A vote keeps promises.
LEMMA VoteForKeeps ==
  ASSUME NEW p \in Proc, NEW r \in RoundStates, NEW leader \in Proc, NEW v \in Uid
  PROVE  Keeps(p, r, VoteFor(r, p, leader, v))
<1> DEFINE n == PaxosAccept(Mine(r, p), leader, v)
           s == SetMine(r, p, n)
<1>1. n \in NodeStates /\ KeepsPromise(Mine(r, p), n)
  BY MineType, PaxosAcceptType, PaxosAcceptKeeps
<1> HIDE DEF n
<1>2. s \in RoundStates /\ Keeps(p, r, s)
  BY <1>1, SetMineType, SetMineKeeps
<1> HIDE DEF s
<1>3. ASSUME NEW k PROVE Mine([s EXCEPT !.paxos_accept_count = k], p) = Mine(s, p)
  BY <1>2 DEF Mine, RoundStates
<1> QED BY <1>2, <1>3 DEF VoteFor, s, n, Keeps

\* Counting another's vote keeps promises, one's own entry included.
LEMMA RecvPaxosAcceptKeeps ==
  ASSUME NEW p \in Proc, NEW r \in RoundStates, NEW src \in Proc, NEW v \in Uid
  PROVE  Keeps(p, r, RecvPaxosAccept(r, p, src, v))
<1> DEFINE n == PaxosAccept(r.node_states[src], p, v)
           o == RecvPaxosAccept(r, p, src, v)
<1>1. r.node_states[src] \in NodeStates
  BY DEF RoundStates
<1>2. KeepsPromise(r.node_states[src], n)
  BY <1>1, PaxosAcceptKeeps
<1>3. Mine(o, p) = IF p = src THEN n ELSE Mine(r, p)
  BY DEF RecvPaxosAccept, Mine, Replace, RoundStates
<1> HIDE DEF n, o
<1>4. CASE p = src
  BY <1>2, <1>3, <1>4 DEF Keeps, Mine, o
<1>5. CASE p # src
  BY <1>3, <1>5, MineType, KeepsPromiseReflexive DEF Keeps, o
<1> QED BY <1>4, <1>5

-----------------------------------------------------------------------------
(* What the handlers do to a round *)

\* A handler leaves the round alone, ends it with its slot, or continues it,
\* for a command that is queued, and keeping the promises made.
Moves(p, s, t) ==
  \/ /\ t.round_state = s.round_state
     /\ s.queued_commands \subseteq t.queued_commands
     /\ Slot(t) = Slot(s)
  \/ t.round_state = ClearRound /\ Slot(t) = Slot(s) + 1
  \/ /\ Slot(t) = Slot(s)
     /\ t.queued_commands # {}
     /\ t.round_state \in RoundStates
     /\ Keeps(p, s.round_state, t.round_state)

\* A failed assertion changes nothing else.
LEMMA PanicKeeps ==
  ASSUME NEW s \in Shards, NEW ok \in BOOLEAN
  PROVE  /\ Panic(s, ok).round_state = s.round_state
         /\ Panic(s, ok).queued_commands = s.queued_commands
         /\ Panic(s, ok).queued_messages = s.queued_messages
         /\ Panic(s, ok).scan = s.scan
         /\ Slot(Panic(s, ok)) = Slot(s)
BY DEF Panic, Shards, Slot

\* Replacing the round changes nothing else.
LEMMA RoundOnly ==
  ASSUME NEW s \in Shards, NEW r \in RoundStates
  PROVE  LET t == [s EXCEPT !.round_state = r]
         IN  /\ t.round_state = r
             /\ t.queued_commands = s.queued_commands
             /\ t.panicked = s.panicked
             /\ Slot(t) = Slot(s)
BY DEF Shards, Slot

\* Deciding moves to the next slot, with a clear round.
LEMMA CommitMoves ==
  ASSUME NEW p \in Proc, NEW s, ShardTypeOK(p, s), NEW v \in Uid, NEW ok \in BOOLEAN
  PROVE  Panic(CommitSlot(s, v), ok).round_state = ClearRound
         /\ Slot(Panic(CommitSlot(s, v), ok)) = Slot(s) + 1
<1>1. CommitSlot(s, v) \in Shards
  BY CommitSlotType DEF ShardTypeOK
<1>2. CommitSlot(s, v).round_state = ClearRound
  BY DEF CommitSlot, ShardTypeOK, Shards
<1>3. Len(CommitSlot(s, v).log) = Len(s.log) + 1
  <2> DEFINE entry == [v |-> v, fast |-> ~s.slot_left_fast_path]
  <2>1. CommitSlot(s, v).log = Append(s.log, entry)
    BY DEF CommitSlot, ShardTypeOK, Shards
  <2>2. s.log \in Seq([v : Uid, fast : BOOLEAN]) /\ entry \in [v : Uid, fast : BOOLEAN]
    BY DEF ShardTypeOK, Shards
  <2> HIDE DEF entry
  <2> QED BY <2>1, <2>2
<1> QED BY <1>1, <1>2, <1>3, PanicKeeps DEF Slot

\* A message that names this slot names a command that is queued.
LEMMA ReadyHasCommand ==
  ASSUME NEW s \in Shards, NEW m, ReadyToProcess(s, m), m.type # "SpreadValueOnly", m.slot = Slot(s)
  PROVE  s.queued_commands # {}
BY SlotType DEF ReadyToProcess

\* Merging, accepting and freezing keep the promises, if the code's assertions
\* hold; and whoever has no conflict is not frozen.
LEMMA NotedKeeps ==
  ASSUME NEW p \in Proc, NEW s, ShardTypeOK(p, s), NEW m \in SpreadMsg
  PROVE  /\ Noted(s, p, m).queued_commands = s.queued_commands
         /\ NotedAsserts(s, p, m) =>
              /\ Keeps(p, s.round_state, Noted(s, p, m).round_state)
              /\ ~HasConflict(Noted(s, p, m).round_state, p) =>
                   ~IsFrozen(Mine(Noted(s, p, m).round_state, p))
<1> DEFINE merged == UpdateRemoteStates(s.round_state, Incoming(m))
           r == KCensusTryAccept(merged, p, m.v, m.id.proposer)
           conflict == HasConflict(r, p)
           frozen == IF conflict THEN FreezeAndPrepareForLeaders(r, p) ELSE r
           noted == [frozen EXCEPT !.received_msgs = @ \cup {m.id}]
<1>1. m.id \in MessageId /\ m.id.time \in StateIds(m.id.proposer, m.id.src) /\ m.id.proposer \in Proc
  BY DEF SpreadMsg, SpreadId, MessageId
<1>2. Incoming(m) \in [Proc -> NodeStates]
  BY <1>1, BuildRemoteStateType DEF Incoming, SpreadMsg
<1>3. s.round_state \in RoundStates /\ merged \in RoundStates
  BY <1>2, UpdateRemoteStatesType DEF ShardTypeOK, Shards
<1>4. NotedAsserts(s, p, m) => Keeps(p, s.round_state, merged)
  BY <1>3, UpdateRemoteKeeps DEF NotedAsserts
<1>5. NotedAsserts(s, p, m) => TryAcceptAsserts(merged, p, m.id.proposer)
  BY DEF NotedAsserts
<1>6. r = Informed(s.round_state, p, m)
  BY DEF Informed
<1> HIDE DEF merged
<1>7. r \in RoundStates /\ (NotedAsserts(s, p, m) => Keeps(p, merged, r))
  BY <1>1, <1>3, <1>5, TryAcceptType, TryAcceptKeeps DEF SpreadMsg
<1> HIDE DEF r
<1>8. frozen \in RoundStates /\ Keeps(p, r, frozen)
  BY <1>7, FreezeForLeadersType, FreezeForLeadersKeeps, MineType, KeepsPromiseReflexive DEF Keeps
<1>9. conflict => HasConflict(frozen, p)
  <2> SUFFICES ASSUME conflict PROVE HasConflict(frozen, p)
    OBVIOUS
  <2> DEFINE n == [Mine(r, p) EXCEPT !.prepared_for = Highest(Leaders(r) \cup {Mine(r, p).prepared_for})]
  <2>1. frozen = SetMine(r, p, n)
    BY DEF FreezeAndPrepareForLeaders
  <2>2. n.accept_round = Mine(r, p).accept_round
    BY <1>7, MineType DEF NodeStates
  <2> HIDE DEF n
  <2>3. frozen.proposers = r.proposers /\ Mine(frozen, p) = n
    BY <1>7, <2>1 DEF SetMine, Mine, Replace, RoundStates
  <2> QED BY <2>2, <2>3 DEF HasConflict
<1>10. noted \in RoundStates /\ Mine(noted, p) = Mine(frozen, p) /\ noted.proposers = frozen.proposers
  BY <1>1, <1>8 DEF RoundStates, Mine
<1>11. NotedAsserts(s, p, m) /\ ~conflict => ~IsFrozen(Mine(r, p))
  BY <1>6 DEF NotedAsserts
<1>12. NotedAsserts(s, p, m) /\ ~HasConflict(noted, p) => ~IsFrozen(Mine(noted, p))
  BY <1>9, <1>10, <1>11 DEF HasConflict
<1>13. NotedAsserts(s, p, m) => Keeps(p, s.round_state, noted)
  <2> SUFFICES ASSUME NotedAsserts(s, p, m) PROVE Keeps(p, s.round_state, noted)
    OBVIOUS
  <2>1. Keeps(p, s.round_state, r)
    BY <1>3, <1>4, <1>7, KeepsTransitive
  <2>2. Keeps(p, s.round_state, frozen)
    BY <1>3, <1>7, <1>8, <2>1, KeepsTransitive
  <2> QED BY <1>10, <2>2 DEF Keeps
<1> HIDE DEF noted, conflict
<1>14. Noted(s, p, m) = [s EXCEPT !.round_state = noted, !.slot_left_fast_path = @ \/ conflict]
  BY <1>6 DEF Noted, noted, conflict
<1>15. /\ Noted(s, p, m).round_state = noted 
       /\ Noted(s, p, m).queued_commands = s.queued_commands
  BY <1>14 DEF ShardTypeOK, Shards
<1> QED BY <1>12, <1>13, <1>15

\* Continues without a commit.
Continues(p, s, t) ==
  /\ t.round_state \in RoundStates
  /\ Keeps(p, s.round_state, t.round_state)
  /\ Slot(t) = Slot(s)
  /\ s.queued_commands # {} => t.queued_commands # {}

\* Voting for one's own proposal continues the round.
LEMMA AcceptInFallbackContinues ==
  ASSUME NEW p \in Proc, NEW s, ShardTypeOK(p, s), NEW v \in Uid, NEW newValue, NEW chan, NEW out,
         AcceptInFallback(p, s, v, newValue, chan, out)
  PROVE  \E t : shard' = [shard EXCEPT ![p] = t] /\ Continues(p, s, t)
<1> DEFINE r == VoteFor(s.round_state, p, p, v)
           w == [s EXCEPT !.round_state = r]
           ok == AdoptAsserts(s.round_state)
           t == Panic(w, ok)
<1>1. r \in RoundStates /\ Keeps(p, s.round_state, r)
  BY VoteForType, VoteForKeeps DEF ShardTypeOK, Shards
<1>2. ok \in BOOLEAN
  BY DEF AdoptAsserts
<1> HIDE DEF r, ok
<1>3. /\ w.round_state = r /\ w.queued_commands = s.queued_commands
      /\ Slot(w) = Slot(s) /\ w \in Shards
  BY <1>1, RoundOnly, ShardUpdate DEF ShardTypeOK
<1> HIDE DEF w
<1>4. Continues(p, s, t)
  BY <1>1, <1>2, <1>3, PanicKeeps DEF Continues
<1>5. shard' = [shard EXCEPT ![p] = t]
  BY DEF AcceptInFallback, Become, t, w, r, ok
<1> HIDE DEF t
<1> QED BY <1>4, <1>5

\* Starting the fallback continues the round.
LEMMA StartFallbackContinues ==
  ASSUME NEW p \in Proc, NEW s, ShardTypeOK(p, s), NEW v \in Uid, NEW chan, NEW out,
         StartFallback(p, s, v, chan, out)
  PROVE  \E t : shard' = [shard EXCEPT ![p] = t] /\ Continues(p, s, t)
<1> DEFINE choices == AdoptChoices(s.round_state)
           batch == BatchOf(s, p)
           w == StoreNewCommand(s, batch)
<1>1. choices \subseteq Uid \cup {NoV} /\ batch \in Uid
  BY AdoptChoicesType, BatchOfType DEF ShardTypeOK, Shards
<1> HIDE DEF choices, batch
<1>2. /\ ShardTypeOK(p, w)
      /\ w.round_state = s.round_state /\ w.queued_commands # {}
      /\ Slot(w) = Slot(s)
  <2>1. ShardTypeOK(p, w) /\ batch \in w.queued_commands /\ w.round_state = s.round_state
    BY <1>1, StoreNewCommandType
  <2>2. w.log = s.log
    BY DEF StoreNewCommand, ShardTypeOK, Shards
  <2> QED BY <2>1, <2>2 DEF Slot
<1> HIDE DEF w
<1>3. \/ \E x \in choices : AcceptInFallback(p, s, IF x = NoV THEN v ELSE x, FALSE, chan, out)
      \/ AcceptInFallback(p, w, batch, TRUE, chan, out)
      \/ AcceptInFallback(p, s, v, FALSE, chan, out)
  BY DEF StartFallback, choices, batch, w
<1>4. CASE AcceptInFallback(p, w, batch, TRUE, chan, out)
  <2>1. PICK t : shard' = [shard EXCEPT ![p] = t] /\ Continues(p, w, t)
    BY <1>1, <1>2, <1>4, AcceptInFallbackContinues
  <2>2. Continues(p, s, t)
    BY <1>2, <2>1 DEF Continues
  <2> QED BY <2>1, <2>2
<1>5. CASE \E x \in choices : AcceptInFallback(p, s, IF x = NoV THEN v ELSE x, FALSE, chan, out)
  <2>1. PICK x \in choices : AcceptInFallback(p, s, IF x = NoV THEN v ELSE x, FALSE, chan, out)
    BY <1>5
  <2>2. (IF x = NoV THEN v ELSE x) \in Uid
    BY <1>1
  <2> QED BY <2>1, <2>2, AcceptInFallbackContinues
<1>6. CASE AcceptInFallback(p, s, v, FALSE, chan, out)
  BY <1>6, AcceptInFallbackContinues
<1> QED BY <1>3, <1>4, <1>5, <1>6

\* The end of the Spread handler's walk moves the walked shard as required.
LEMMA ConcludeMoves ==
  ASSUME NEW p \in Proc, NEW m \in SpreadMsg, NEW conflict \in BOOLEAN,
         NEW walked, ShardTypeOK(p, walked), walked.queued_commands # {},
         NEW out, NEW chan, Conclude(p, m, conflict, walked, out, chan)
  PROVE  \E t : /\ shard' = [shard EXCEPT ![p] = t]
               /\ \/ t.round_state = ClearRound /\ Slot(t) = Slot(walked) + 1
                  \/ Continues(p, walked, t)
<1> DEFINE r       == walked.round_state
           commits == ~conflict /\ Leader(m.id.proposer) = p /\ AtEndOfSchedule(r, p, m.id.proposer)
           leads   == ~commits /\ Mine(r, p).prepared_for = p
           asserts == /\ commits => CanKCensusCommit(r, p)
                      /\ leads => conflict /\ p \in AliveReplicas
           s       == Panic(walked, asserts)
<1>1. m.v \in Uid
  BY DEF SpreadMsg
<1> HIDE DEF r, commits, leads
<1>2. asserts \in BOOLEAN
  OBVIOUS
<1> HIDE DEF asserts
<1>3. /\ ShardTypeOK(p, s) /\ s.round_state = walked.round_state
      /\ s.queued_commands = walked.queued_commands /\ Slot(s) = Slot(walked)
  BY <1>2, PanicType, PanicKeeps DEF ShardTypeOK
<1> HIDE DEF s
<1>4. \/ Decide(p, s, m.v, TRUE, chan, out)
      \/ StartFallback(p, s, m.v, chan, out)
      \/ Become(p, s, chan, out)
  BY DEF Conclude, r, commits, leads, asserts, s
<1>5. CASE Decide(p, s, m.v, TRUE, chan, out)
  <2> DEFINE ok == CommitAsserts(s, m.v) /\ MyV(s, p) = m.v
             t == Panic(CommitSlot(s, m.v), ok)
  <2>1. t.round_state = ClearRound /\ Slot(t) = Slot(walked) + 1
    BY <1>1, <1>3, CommitMoves
  <2>2. shard' = [shard EXCEPT ![p] = t]
    BY <1>5 DEF Decide, Become
  <2> HIDE DEF t
  <2> QED BY <2>1, <2>2
<1>6. CASE StartFallback(p, s, m.v, chan, out)
  <2>1. PICK t : shard' = [shard EXCEPT ![p] = t] /\ Continues(p, s, t)
    BY <1>1, <1>3, <1>6, StartFallbackContinues
  <2>2. Continues(p, walked, t)
    BY <1>3, <2>1 DEF Continues
  <2> QED BY <2>1, <2>2
<1>7. CASE Become(p, s, chan, out)
  <2>1. Continues(p, walked, s)
    BY <1>3, MineType, KeepsPromiseReflexive DEF Continues, Keeps, ShardTypeOK, Shards
  <2> QED BY <1>7, <2>1 DEF Become
<1> QED BY <1>4, <1>5, <1>6, <1>7

\* The Spread handler moves the shard as required.
LEMMA SpreadMoves ==
  ASSUME NEW p \in Proc, NEW m \in MessageTo(p), NEW s, ShardTypeOK(p, s),
         ReadyToProcess(s, m), NEW chan, Spread(p, m, s, chan)
  PROVE  \E t : shard' = [shard EXCEPT ![p] = t] /\ Moves(p, s, t)
<1> DEFINE a        == m.id.proposer
           noted    == Noted(s, p, m)
           conflict == HasConflict(noted.round_state, p)
           reached  == Reached(noted.round_state, p, a)
           r        == Advance(noted.round_state, p, a, conflict)
           sends    == SpreadsAsserts(noted.round_state, p, m.v, a, reached)
           advanced == [noted EXCEPT !.round_state = r]
           walked   == Panic(advanced, sends)
           out      == Spreads(noted, p, m.v, a, reached, m.new_value)
           stopped  == Panic(s, FALSE)
<1>1. m \in SpreadMsg /\ a \in Proc
  BY MessageToIsMessage, MessageKinds DEF Spread, SpreadMsg, SpreadId, MessageId
<1>2. s.queued_commands # {}
  BY ReadyHasCommand DEF Spread, ShardTypeOK
<1>3. CASE ~NotedAsserts(s, p, m)
  <2>1. shard' = [shard EXCEPT ![p] = stopped]
    BY <1>3 DEF Spread, Become
  <2>2. Moves(p, s, stopped)
    BY PanicKeeps DEF Moves, ShardTypeOK
  <2> HIDE DEF stopped
  <2> QED BY <2>1, <2>2
<1>4. CASE NotedAsserts(s, p, m)
  <2>1. /\ ShardTypeOK(p, noted) /\ Slot(noted) = Slot(s)
        /\ noted.queued_commands = s.queued_commands
        /\ Keeps(p, s.round_state, noted.round_state)
        /\ ~conflict => /\ Mine(noted.round_state, p).k_proposer # None
                        /\ ~IsFrozen(Mine(noted.round_state, p))
    BY <1>1, <1>4, NotedType, NotedKeeps
  <2>2. Conclude(p, m, conflict, walked, out, chan)
    BY <1>4 DEF Spread, WalkFrom, WalkSchedule
  <2> HIDE DEF a, noted
  <2>3. noted \in Shards /\ noted.round_state \in RoundStates /\ s.round_state \in RoundStates
    BY <2>1 DEF ShardTypeOK, Shards
  <2>4. conflict \in BOOLEAN
    BY DEF HasConflict
  <2> HIDE DEF conflict
  <2>5. r \in RoundStates /\ Keeps(p, noted.round_state, r)
    BY <1>1, <2>1, <2>3, <2>4, AdvanceType, AdvanceKeeps
  <2> HIDE DEF reached, r, out
  <2>6. sends \in BOOLEAN
    BY DEF SpreadsAsserts
  <2> HIDE DEF sends
  <2>7. /\ ShardTypeOK(p, advanced) /\ advanced.round_state = r
        /\ advanced.queued_commands = s.queued_commands /\ Slot(advanced) = Slot(s)
    BY <2>1, <2>3, <2>5, RoundOnly, ShardUpdate
  <2> HIDE DEF advanced
  <2>8. /\ ShardTypeOK(p, walked) /\ walked.round_state = r
        /\ walked.queued_commands = s.queued_commands /\ Slot(walked) = Slot(s)
    BY <2>6, <2>7, PanicType, PanicKeeps DEF ShardTypeOK
  <2> HIDE DEF walked
  <2>9. Keeps(p, s.round_state, walked.round_state)
    BY <2>1, <2>3, <2>5, <2>8, KeepsTransitive
  <2>10. PICK t : /\ shard' = [shard EXCEPT ![p] = t]
                  /\ \/ t.round_state = ClearRound /\ Slot(t) = Slot(walked) + 1
                     \/ Continues(p, walked, t)
    BY <1>1, <1>2, <2>2, <2>4, <2>8, ConcludeMoves
  <2>11. CASE t.round_state = ClearRound /\ Slot(t) = Slot(walked) + 1
    BY <2>8, <2>10, <2>11 DEF Moves
  <2>12. CASE Continues(p, walked, t)
    <3>1. Keeps(p, s.round_state, t.round_state)
      BY <2>3, <2>5, <2>8, <2>9, <2>12, KeepsTransitive DEF Continues
    <3>2. Moves(p, s, t)
      BY <1>2, <2>8, <2>12, <3>1 DEF Moves, Continues
    <3> QED BY <2>10, <3>2
  <2> QED BY <2>10, <2>11, <2>12
<1> QED BY <1>3, <1>4

\* So does the PaxosAccept handler.
LEMMA PaxosAcceptMoves ==
  ASSUME NEW p \in Proc, NEW m \in MessageTo(p), NEW s, ShardTypeOK(p, s),
         ReadyToProcess(s, m), NEW chan, PaxosAcceptMessage(p, m, s, chan)
  PROVE  \E t : shard' = [shard EXCEPT ![p] = t] /\ Moves(p, s, t)
<1> DEFINE frozen   == FreezeAndPrepareFor(s.round_state, p, m.leader)
           prepared == Promise(s, p, m.leader)
           vote     == VoteFor(prepared.round_state, p, m.leader, m.v)
           count    == RecvPaxosAccept(prepared.round_state, p, m.src, m.v)
           voted    == [prepared EXCEPT !.round_state = vote]
           counted  == [prepared EXCEPT !.round_state = count]
           leaders  == m.src = m.leader
<1>1. m.leader \in Proc /\ m.src \in Proc /\ m.v \in Uid
  BY MessageToIsMessage, MessageKinds DEF PaxosAcceptMessage, PaxosAcceptMsg
<1>2. s.queued_commands # {}
  BY ReadyHasCommand DEF PaxosAcceptMessage, ShardTypeOK
<1>3. s.round_state \in RoundStates
  BY DEF ShardTypeOK, Shards
<1>4. frozen \in RoundStates /\ Keeps(p, s.round_state, frozen)
  BY <1>1, <1>3, FreezeType, FreezeKeeps
<1> HIDE DEF frozen
<1>5. /\ ShardTypeOK(p, prepared) /\ prepared.round_state = frozen
      /\ prepared.queued_commands = s.queued_commands /\ Slot(prepared) = Slot(s)
  BY <1>4 DEF Promise, frozen, ShardTypeOK, Shards, Slot
<1> HIDE DEF prepared
<1>6. /\ vote \in RoundStates /\ Keeps(p, s.round_state, vote)
      /\ count \in RoundStates /\ Keeps(p, s.round_state, count)
  BY <1>1, <1>3, <1>4, <1>5, VoteForType, VoteForKeeps, RecvPaxosAcceptType, RecvPaxosAcceptKeeps,
     KeepsTransitive
<1> HIDE DEF vote, count
<1>7. /\ ShardTypeOK(p, voted) /\ voted.round_state = vote
      /\ voted.queued_commands = s.queued_commands /\ Slot(voted) = Slot(s)
      /\ ShardTypeOK(p, counted) /\ counted.round_state = count
      /\ counted.queued_commands = s.queued_commands /\ Slot(counted) = Slot(s)
  BY <1>5, <1>6, RoundOnly, ShardUpdate DEF ShardTypeOK
<1> HIDE DEF voted, counted
<1>8. leaders \in BOOLEAN
  OBVIOUS
<1> HIDE DEF leaders
<1>9. /\ Panic(voted, leaders).round_state = vote
      /\ Panic(voted, leaders).queued_commands = s.queued_commands
      /\ Slot(Panic(voted, leaders)) = Slot(s)
  BY <1>7, <1>8, PanicKeeps DEF ShardTypeOK
<1>10. \/ shard' = [shard EXCEPT ![p] = s]
       \/ shard' = [shard EXCEPT ![p] = prepared]
       \/ shard' = [shard EXCEPT ![p] = Panic(voted, leaders)]
       \/ shard' = [shard EXCEPT ![p] = counted]
       \/ Decide(p, counted, m.v, FALSE, chan, Nothing)
  BY DEF PaxosAcceptMessage, Become, prepared, vote, count, voted, counted, leaders
<1>11. /\ Moves(p, s, s) /\ Moves(p, s, prepared)
       /\ Moves(p, s, Panic(voted, leaders)) /\ Moves(p, s, counted)
  BY <1>2, <1>4, <1>5, <1>6, <1>7, <1>9 DEF Moves
<1>12. CASE Decide(p, counted, m.v, FALSE, chan, Nothing)
  <2> DEFINE ok == CommitAsserts(counted, m.v) /\ MyV(counted, p) = m.v
             t == Panic(CommitSlot(counted, m.v), ok)
  <2>1. t.round_state = ClearRound /\ Slot(t) = Slot(s) + 1
    BY <1>1, <1>7, CommitMoves
  <2>2. shard' = [shard EXCEPT ![p] = t]
    BY <1>12 DEF Decide, Become
  <2> HIDE DEF t
  <2> QED BY <2>1, <2>2 DEF Moves
<1> QED BY <1>10, <1>11, <1>12

\* So does any message.
LEMMA ProcessMoves ==
  ASSUME NEW p \in Proc, NEW m \in MessageTo(p), NEW s, ShardTypeOK(p, s),
         ReadyToProcess(s, m), NEW chan, Process(p, m, s, chan)
  PROVE  \E t : shard' = [shard EXCEPT ![p] = t] /\ Moves(p, s, t)
<1>1. CASE StaleMessage(p, m, s, chan) \/ ValueOnly(p, m, s, chan)
  <2>1. shard' = [shard EXCEPT ![p] = s]
    BY <1>1 DEF StaleMessage, ValueOnly, Become
  <2> QED BY <2>1 DEF Moves
<1>2. CASE CommitMessage(p, m, s, chan)
  <2> DEFINE t == Panic(CommitSlot(s, m.v), CommitAsserts(s, m.v))
  <2>1. m.v \in Uid
    BY MessageToIsMessage, MessageKinds
  <2>2. t.round_state = ClearRound /\ Slot(t) = Slot(s) + 1
    BY <2>1, CommitMoves DEF CommitAsserts
  <2>3. shard' = [shard EXCEPT ![p] = t]
    BY <1>2 DEF CommitMessage, Become
  <2> HIDE DEF t
  <2> QED BY <2>2, <2>3 DEF Moves
<1>3. CASE Spread(p, m, s, chan)
  BY <1>3, SpreadMoves
<1>4. CASE PaxosAcceptMessage(p, m, s, chan)
  BY <1>4, PaxosAcceptMoves
<1> QED BY <1>1, <1>2, <1>3, <1>4 DEF Process

-----------------------------------------------------------------------------
(* What the main loop does to a round *)

\* Storing a value, holding a message back or moving the scan along leaves the
\* round alone.
SameRound(s, w) ==
  /\ w.round_state = s.round_state
  /\ s.queued_commands \subseteq w.queued_commands
  /\ Slot(w) = Slot(s)

\* What was queued or held before a move does not matter to it.
LEMMA MovesFromSameRound ==
  ASSUME NEW p, NEW s, NEW w, NEW t, SameRound(s, w), Moves(p, w, t)
  PROVE  Moves(p, s, t)
BY DEF SameRound, Moves

\* Proposing moves the shard as required.
LEMMA ProposeMoves ==
  ASSUME NEW p \in Proc, NEW s, ShardTypeOK(p, s), NEW v \in s.queued_commands,
         NEW newValue, ProposeAndSpread(p, s, v, newValue)
  PROVE  \E t : shard' = [shard EXCEPT ![p] = t] /\ Moves(p, s, t)
<1> DEFINE r == KCensusTryAccept(s.round_state, p, v, p)
           w == [s EXCEPT !.round_state = r]
           ok == Accepts(s.round_state, p) /\ TryAcceptAsserts(s.round_state, p, p)
           stopped == Panic(s, FALSE)
<1>1. v \in Uid /\ s.round_state \in RoundStates
  BY DEF ShardTypeOK, Shards
<1>2. r \in RoundStates /\ (ok => Keeps(p, s.round_state, r))
  BY <1>1, TryAcceptType, TryAcceptKeeps
<1>3. shard' = [shard EXCEPT ![p] = IF ok THEN w ELSE stopped]
  BY DEF ProposeAndSpread, Become
<1> HIDE DEF r, ok
<1>4. w \in Shards /\ w.round_state = r /\ w.queued_commands = s.queued_commands /\ Slot(w) = Slot(s)
  BY <1>2, RoundOnly, ShardUpdate DEF ShardTypeOK
<1>5. ok => Moves(p, s, w)
  BY <1>2, <1>4 DEF Moves
<1>6. Moves(p, s, stopped)
  BY PanicKeeps DEF Moves, ShardTypeOK
<1> HIDE DEF w, stopped
<1> QED BY <1>3, <1>5, <1>6

\* So does taking a message from a connection.
LEMMA ReceiveMoves ==
  ASSUME HandlersTypeOK, NEW p \in Proc, NEW q \in Proc, Receive(p, q)
  PROVE  \E t : shard' = [shard EXCEPT ![p] = t] /\ Moves(p, shard[p], t)
<1> DEFINE m      == Head(net[q][p])
           chan   == [net EXCEPT ![q][p] = Tail(@)]
           stored == StoreRemoteCommand(shard[p], m)
           ok     == StoreAsserts(shard[p], m) /\ ReadyAsserts(stored, m)
           s      == Panic(stored, ok)
           more   == IF CarriesValue(m) THEN 1 ELSE 0
           w      == [s EXCEPT !.scan = more]
           held   == [s EXCEPT !.queued_messages = Append(@, m)]
<1>1. m \in MessageTo(p) /\ ShardTypeOK(p, shard[p])
  <2>1. net[q][p] \in Seq(MessageTo(p)) /\ net[q][p] # <<>>
    BY DEF Receive, HandlersTypeOK, ChannelsTypeOK, Outgoing
  <2> QED BY <2>1 DEF HandlersTypeOK, ShardsTypeOK
<1> HIDE DEF m, chan
<1>2. ShardTypeOK(p, stored) /\ SameRound(shard[p], stored)
  <2>1. ShardTypeOK(p, stored)
    BY <1>1, MessageToIsMessage, StoreRemoteCommandType
  <2>2. SameRound(shard[p], stored)
    BY <1>1 DEF StoreRemoteCommand, SameRound, Slot, ShardTypeOK, Shards
  <2> QED BY <2>1, <2>2
<1> HIDE DEF stored
<1>3. ok \in BOOLEAN
  OBVIOUS
<1> HIDE DEF ok
<1>4. ShardTypeOK(p, s) /\ SameRound(shard[p], s)
  BY <1>2, <1>3, PanicType, PanicKeeps DEF SameRound, ShardTypeOK
<1>5. more \in Nat
  OBVIOUS
<1> HIDE DEF s, more
<1>6. ShardTypeOK(p, w) /\ SameRound(shard[p], w) /\ w.queued_commands = s.queued_commands /\ Slot(w) = Slot(s)
  <2>1. ShardTypeOK(p, w)
    BY <1>4, <1>5, ShardUpdate
  <2>2. w.round_state = s.round_state /\ w.queued_commands = s.queued_commands /\ w.log = s.log
    BY <1>4 DEF ShardTypeOK, Shards
  <2> QED BY <1>4, <2>1, <2>2 DEF SameRound, Slot
<1>7. SameRound(shard[p], held)
  BY <1>4 DEF SameRound, Slot, ShardTypeOK, Shards
<1> HIDE DEF w, held
<1>8. \/ ReadyToProcess(s, m) /\ Process(p, m, w, chan)
      \/ shard' = [shard EXCEPT ![p] = held]
  BY DEF Receive, Become, m, chan, stored, ok, s, more, w, held
<1>9. CASE ReadyToProcess(s, m) /\ Process(p, m, w, chan)
  <2>1. ReadyToProcess(w, m)
    BY <1>6, <1>9 DEF ReadyToProcess
  <2>2. PICK t : shard' = [shard EXCEPT ![p] = t] /\ Moves(p, w, t)
    BY <1>1, <1>6, <1>9, <2>1, ProcessMoves
  <2> QED BY <1>6, <2>2, MovesFromSameRound
<1>10. CASE shard' = [shard EXCEPT ![p] = held]
  <2>1. Moves(p, shard[p], held)
    BY <1>7 DEF Moves, SameRound
  <2> QED BY <1>10, <2>1
<1> QED BY <1>8, <1>9, <1>10

\* So does a client's command.
LEMMA ClientCommandMoves ==
  ASSUME HandlersTypeOK, NEW p \in Proc, ClientCommand(p)
  PROVE  \E t : shard' = [shard EXCEPT ![p] = t] /\ Moves(p, shard[p], t)
<1> DEFINE v == NewCommand(p, shard[p].next_uid)
           k == Len(shard[p].queued_messages) + 1
           stored == StoreNewCommand(shard[p], v)
           s == [stored EXCEPT !.scan = k]
<1>1. ShardTypeOK(p, shard[p])
  BY DEF HandlersTypeOK, ShardsTypeOK
<1>2. v \in Uid /\ k \in Nat
  BY <1>1, NewCommandType DEF ShardTypeOK, Shards
<1> HIDE DEF v, k
<1>3. ShardTypeOK(p, stored) /\ v \in stored.queued_commands /\ SameRound(shard[p], stored)
  <2>1. shard[p].queued_commands \subseteq stored.queued_commands /\ stored.log = shard[p].log
    BY <1>1 DEF StoreNewCommand, ShardTypeOK, Shards
  <2> QED BY <1>1, <1>2, <2>1, StoreNewCommandType DEF SameRound, Slot
<1> HIDE DEF stored
<1>4. ShardTypeOK(p, s) /\ v \in s.queued_commands /\ SameRound(shard[p], s)
  <2>1. ShardTypeOK(p, s)
    BY <1>2, <1>3, ShardUpdate
  <2>2. /\ s.round_state = stored.round_state /\ s.log = stored.log
        /\ s.queued_commands = stored.queued_commands
    BY <1>3 DEF ShardTypeOK, Shards
  <2> QED BY <1>3, <2>1, <2>2 DEF SameRound, Slot
<1> HIDE DEF s
<1>5. shard' = [shard EXCEPT ![p] = s] \/ ProposeAndSpread(p, s, v, TRUE)
  BY DEF ClientCommand, Become, v, k, stored, s
<1>6. CASE shard' = [shard EXCEPT ![p] = s]
  <2>1. Moves(p, shard[p], s)
    BY <1>4 DEF Moves, SameRound
  <2> QED BY <1>6, <2>1
<1>7. CASE ProposeAndSpread(p, s, v, TRUE)
  BY <1>4, <1>7, ProposeMoves, MovesFromSameRound
<1> QED BY <1>5, <1>6, <1>7

\* So does handling a held message.
LEMMA ProcessHeldMoves ==
  ASSUME HandlersTypeOK, NEW p \in Proc, ProcessHeld(p)
  PROVE  \E t : shard' = [shard EXCEPT ![p] = t] /\ Moves(p, shard[p], t)
<1>1. PICK i \in ReadyHeld(p) :
        Process(p, shard[p].queued_messages[i],
                [shard[p] EXCEPT !.queued_messages = RemoveAt(@, i), !.scan = i], net)
  BY DEF ProcessHeld
<1> DEFINE h == shard[p].queued_messages
           rest == RemoveAt(h, i)
           s == [shard[p] EXCEPT !.queued_messages = RemoveAt(@, i), !.scan = i]
<1>2. ShardTypeOK(p, shard[p]) /\ h \in Seq(MessageTo(p))
  BY DEF HandlersTypeOK, ShardsTypeOK, ShardTypeOK
<1>3. i \in 1 .. Len(h) /\ h[i] \in MessageTo(p) /\ ReadyToProcess(shard[p], h[i])
  BY <1>2 DEF ReadyHeld
<1>4. rest \in Seq(MessageTo(p))
  <2>1. SubSeq(h, 1, i - 1) \in Seq(MessageTo(p)) /\ SubSeq(h, i + 1, Len(h)) \in Seq(MessageTo(p))
    BY <1>2, <1>3
  <2> QED BY <2>1 DEF RemoveAt
<1>5. s = [shard[p] EXCEPT !.queued_messages = rest, !.scan = i]
  OBVIOUS
<1> HIDE DEF rest, s
<1>6. rest \in Seq(Message) /\ i \in Nat
  BY <1>2, <1>3, <1>4, MessageToIsMessage
<1>7. ShardTypeOK(p, s) /\ SameRound(shard[p], s) /\ s.queued_commands = shard[p].queued_commands
  BY <1>2, <1>4, <1>5, <1>6 DEF SameRound, Slot, ShardTypeOK, Shards
<1>8. ReadyToProcess(s, h[i])
  BY <1>3, <1>7 DEF ReadyToProcess, SameRound
<1>9. PICK t : shard' = [shard EXCEPT ![p] = t] /\ Moves(p, s, t)
  BY <1>1, <1>3, <1>7, <1>8, ProcessMoves DEF s
<1> QED BY <1>7, <1>9, MovesFromSameRound

\* So does the end of the loop's body.
LEMMA ReproposeMoves ==
  ASSUME HandlersTypeOK, NEW p \in Proc, Repropose(p)
  PROVE  \E t : shard' = [shard EXCEPT ![p] = t] /\ Moves(p, shard[p], t)
<1> DEFINE s == [shard[p] EXCEPT !.scan = 0]
           batch == BatchOf(s, p)
           stored == StoreNewCommand(s, batch)
<1>1. ShardTypeOK(p, s) /\ SameRound(shard[p], s)
  <2>1. ShardTypeOK(p, shard[p])
    BY DEF HandlersTypeOK, ShardsTypeOK
  <2>2. /\ s.round_state = shard[p].round_state /\ s.log = shard[p].log
        /\ s.queued_commands = shard[p].queued_commands
    BY <2>1 DEF ShardTypeOK, Shards
  <2> QED BY <2>1, <2>2, ShardUpdate DEF SameRound, Slot
<1> HIDE DEF s
<1>2. batch \in Uid
  BY <1>1, BatchOfType DEF ShardTypeOK
<1> HIDE DEF batch
<1>3. ShardTypeOK(p, stored) /\ batch \in stored.queued_commands /\ SameRound(s, stored)
  <2>1. s.queued_commands \subseteq stored.queued_commands /\ stored.log = s.log
    BY <1>1 DEF StoreNewCommand, ShardTypeOK, Shards
  <2> QED BY <1>1, <1>2, <2>1, StoreNewCommandType DEF SameRound, Slot
<1> HIDE DEF stored
<1>4. \/ ProposeAndSpread(p, stored, batch, TRUE)
      \/ \E v \in QueuedSingles(s) : ProposeAndSpread(p, s, v, FALSE)
      \/ shard' = [shard EXCEPT ![p] = s]
  BY DEF Repropose, Become, s, batch, stored
<1>5. CASE ProposeAndSpread(p, stored, batch, TRUE)
  BY <1>1, <1>3, <1>5, ProposeMoves, MovesFromSameRound
<1>6. CASE \E v \in QueuedSingles(s) : ProposeAndSpread(p, s, v, FALSE)
  <2>1. PICK v \in s.queued_commands : ProposeAndSpread(p, s, v, FALSE)
    BY <1>6 DEF QueuedSingles
  <2> QED BY <1>1, <2>1, ProposeMoves, MovesFromSameRound
<1>7. CASE shard' = [shard EXCEPT ![p] = s]
  <2>1. Moves(p, shard[p], s)
    BY <1>1 DEF Moves, SameRound
  <2> QED BY <1>7, <2>1
<1> QED BY <1>4, <1>5, <1>6, <1>7

\* So does any step, and it leaves the other shards alone.
LEMMA StepMoves ==
  ASSUME HandlersTypeOK, NEW p \in Proc, Step(p)
  PROVE  \E t : shard' = [shard EXCEPT ![p] = t] /\ Moves(p, shard[p], t)
BY ReceiveMoves, ClientCommandMoves, ProcessHeldMoves, ReproposeMoves DEF Step

-----------------------------------------------------------------------------
(* An idle shard has nothing to lose *)

\* What makes IdleIsClear inductive: a round that holds anything is about a
\* command that is queued here, because a handler runs only once the command it
\* names is here, and a command leaves the queue only with its slot.
RoundsHaveCommands ==
  \A p \in Proc : Round(p) # ClearRound => shard[p].queued_commands # {}

\* At first no process has a trace of a round.
LEMMA InitHasCommands == Init => RoundsHaveCommands
BY DEF Init, NewShard, RoundsHaveCommands, Round

\* RoundsHaveCommands is inductive, given Typed.
LEMMA NextHasCommands == Typed /\ RoundsHaveCommands /\ [Next]_vars => RoundsHaveCommands'
<1> SUFFICES ASSUME Typed, RoundsHaveCommands, [Next]_vars PROVE RoundsHaveCommands'
  OBVIOUS
<1>1. CASE \E p \in Proc : Step(p)
  <2>1. PICK p \in Proc : Step(p)
    BY <1>1
  <2>2. PICK t : shard' = [shard EXCEPT ![p] = t] /\ Moves(p, shard[p], t)
    BY <2>1, StepMoves DEF Typed
  <2>3. t.round_state # ClearRound => t.queued_commands # {}
    BY <2>2 DEF Moves, RoundsHaveCommands, Round
  <2>4. \A q \in Proc : shard'[q] = IF q = p THEN t ELSE shard[q]
    BY <2>2 DEF Typed, HandlersTypeOK, ShardsTypeOK
  <2> QED BY <2>3, <2>4 DEF RoundsHaveCommands, Round
<1>2. CASE UNCHANGED vars
  BY <1>2 DEF RoundsHaveCommands, Round, vars
<1> QED BY <1>1, <1>2 DEF Next, Terminated

\* A shard with nothing under way and nothing queued has an empty round, so
\* dropping the round when the shard is put to sleep loses no promise, vote or
\* message.
THEOREM IdleShardIsClear == Spec => []IdleIsClear
<1>1. RoundsHaveCommands => IdleIsClear
  BY DEF RoundsHaveCommands, IdleIsClear, Idle
<1> QED BY <1>1, AlwaysTyped, InitHasCommands, NextHasCommands, PTL DEF Spec

-----------------------------------------------------------------------------
(* Promises are kept *)

\* Every step keeps every process's promises.
LEMMA NextKeepsPromises ==
  Typed /\ [Next]_vars =>
    [\A p \in Proc :
       Slot(shard'[p]) = Slot(shard[p]) =>
       KeepsPromise(Mine(Round(p), p), Mine(Round(p)', p))]_vars
<1> SUFFICES ASSUME Typed, \E x \in Proc : Step(x), NEW p \in Proc,
                    Slot(shard'[p]) = Slot(shard[p])
             PROVE  KeepsPromise(Mine(Round(p), p), Mine(Round(p)', p))
  BY DEF Next, Terminated
<1>1. PICK x \in Proc : Step(x)
  OBVIOUS
<1>2. PICK t : shard' = [shard EXCEPT ![x] = t] /\ Moves(x, shard[x], t)
  BY <1>1, StepMoves DEF Typed
<1>3. shard'[p] = IF p = x THEN t ELSE shard[p]
  BY <1>2 DEF Typed, HandlersTypeOK, ShardsTypeOK
<1>4. shard[p] \in Shards /\ Mine(Round(p), p) \in NodeStates
  BY MineType DEF Typed, HandlersTypeOK, ShardsTypeOK, Shards, Round
<1>5. CASE p # x
  BY <1>3, <1>4, <1>5, KeepsPromiseReflexive DEF Round
<1>6. CASE p = x
  <2>1. Slot(t) = Slot(shard[p]) /\ Slot(shard[p]) \in Nat
    BY <1>3, <1>4, <1>6, SlotType
  <2>2. \/ t.round_state = Round(p)
        \/ Keeps(p, Round(p), t.round_state)
    BY <1>2, <1>6, <2>1 DEF Moves, Round
  <2> QED BY <1>3, <1>4, <1>6, <2>2, KeepsPromiseReflexive DEF Keeps, Round
<1> QED BY <1>5, <1>6

\* Within a slot no process takes back a promise or a vote, changes what it
\* accepted other than by a later vote, or learns once it is frozen.
THEOREM PromisesAreKept == Spec => PromisesKept
BY AlwaysTyped, NextKeepsPromises, PTL DEF Spec, PromisesKept
=============================================================================
