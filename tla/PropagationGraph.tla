-------------------------- MODULE PropagationGraph --------------------------
(***************************************************************************)
(* The plan every process computes from the latency matrix before the run: *)
(* for each proposer, the leader that may fast-commit its command, and for *)
(* each process the states it goes through in the proposer's schedule.  A   *)
(* state is named by its time; it lists the messages that must have arrived *)
(* (dependencies), those it emits (needed_by), what the process then knows  *)
(* (knowledge[q] = the acceptors q is known to have witnessed) and how far  *)
(* it knows every other process to have come (remote_states).               *)
(*                                                                         *)
(* This module holds the queries on a plan and what the protocol needs of   *)
(* one; KCensusPlan computes plans.                                        *)
(***************************************************************************)
EXTENDS Requirements

CONSTANT Graph    \* Graph[proposer] = [leader, states, should_include_value]

MessageId == [proposer : Proc, src : Proc, dest : Proc, time : Nat]

KnowledgeState ==
  [knowledge     : [Proc -> SUBSET Proc],
   remote_states : [Proc -> Nat],
   dependencies  : SUBSET MessageId,
   needed_by     : SUBSET MessageId]

Leader(a)        == Graph[a].leader
StateIds(a, p)   == DOMAIN Graph[a].states[p]
State(a, p, t)   == Graph[a].states[p][t]

\* The last state of p in a's schedule.
FinalStateId(a, p) == CHOOSE t \in StateIds(a, p) : \A u \in StateIds(a, p) : u <= t

\* What p itself witnesses at t, and what a's leader holds when it may commit.
Knowledge(a, p, t) == State(a, p, t).knowledge[p]
FinalKnowledge(a)  == State(a, Leader(a), FinalStateId(a, Leader(a))).knowledge
VQuorum(a)         == FinalKnowledge(a)[Leader(a)]

\* The messages p emits in the states T of a's schedule, one sequence per
\* destination in the order the states are reached.
Emitted(a, p, T, d) == {id \in UNION {State(a, p, t).needed_by : t \in T} : id.dest = d}
IsInTimeOrder(seq)  == \A i, j \in DOMAIN seq : i < j => seq[i].time < seq[j].time
InTimeOrder(ids)    == CHOOSE seq \in [1 .. Cardinality(ids) -> ids] : IsInTimeOrder(seq)

MsgArrivalStateId(id) == id.time + LinkLatency[id.src][id.dest]
ShouldIncludeValue(id) == id \in Graph[id.proposer].should_include_value

-----------------------------------------------------------------------------
\* A plan is well formed: schedules that start at time 0 and end, messages
\* filed under the state that emits them and the states that wait for them.
GraphWellFormed ==
  /\ DOMAIN Graph = Proc
  /\ \A a \in Proc :
       /\ Leader(a) \in Proc
       /\ DOMAIN Graph[a].states = Proc
       /\ \A p \in Proc :
            /\ 0 \in StateIds(a, p)
            /\ StateIds(a, p) \subseteq Nat
            /\ \E last \in StateIds(a, p) : \A t \in StateIds(a, p) : t <= last
            /\ \A t \in StateIds(a, p) :
                 /\ State(a, p, t) \in KnowledgeState
                 /\ \A q \in Proc : State(a, p, t).remote_states[q] \in StateIds(a, q)
                 /\ \A id \in State(a, p, t).needed_by :
                      id.proposer = a /\ id.src = p /\ id.time = t /\ id.dest # p
                 /\ \A id \in State(a, p, t).dependencies :
                      id.proposer = a /\ id.dest = p /\ id.time \in StateIds(a, id.src)

\* What a process sends another can be put in order, and a value-carrying
\* message arrives in a state of the receiver.
GraphMessages ==
  \A a, p \in Proc :
    /\ \A d \in Proc : \A ids \in SUBSET Emitted(a, p, StateIds(a, p), d) :
         IsFiniteSet(ids) /\ \E seq \in [1 .. Cardinality(ids) -> ids] : IsInTimeOrder(seq)
    /\ \A id \in Graph[a].should_include_value :
         id \in MessageId /\ MsgArrivalStateId(id) \in StateIds(a, id.dest)

ASSUME GraphAssumption == GraphWellFormed /\ GraphMessages

\* What the planner guarantees of any two proposers: what their leaders hold
\* when they may commit is valid, and enough processes can tell which won.
GraphRequirements ==
  /\ \A a \in Proc : IsValidKnowledge(Leader(a), FinalKnowledge(a))
  /\ \A a, b \in Proc : a # b =>
       AreCompatible(Leader(a), FinalKnowledge(a), Leader(b), FinalKnowledge(b))

ASSUME RequirementsAssumption == GraphRequirements

\* p's schedule of a has one step, and any message of it that p gets brings it about.
OneStep(a, p) ==
  \A src \in Proc : \A t0 \in StateIds(a, src) : \A id \in State(a, src, t0).needed_by :
    id.dest = p =>
      \E t \in StateIds(a, p) : /\ t > 0 /\ StateIds(a, p) = {0, t}
                               /\ State(a, p, t).dependencies \subseteq {id}

\* A schedule starts from nothing.
StartsFromNothing(a, p) ==
  /\ State(a, p, 0).dependencies = {}
  /\ \A q \in Proc : State(a, p, 0).remote_states[q] = 0

\* p knows where it is itself, where others are from the messages it waited for, and
\* whom it witnessed from both.
LearnsFromMessages(a, p) ==
  \A t \in StateIds(a, p) :
    /\ State(a, p, t).remote_states[p] = t
    /\ \A q \in Proc \ {p} : State(a, p, t).remote_states[q] > 0 =>
         \E u \in StateIds(a, p) : u <= t /\ \E id \in State(a, p, u).dependencies :
           State(a, p, t).remote_states[q] <= State(a, id.src, id.time).remote_states[q]
    /\ \A q \in Knowledge(a, p, t) : q \in {p, a} \/ State(a, p, t).remote_states[q] > 0
    /\ t > 0 \/ p = a => p \in Knowledge(a, p, t)

\* When the leader may commit, every other process has come to the end of its schedule,
\* the ones apart that take no part in the commit and need one message to get there.
LeaderKnowsTheEnd(a, p) ==
  LET reached == State(a, Leader(a), FinalStateId(a, Leader(a))).remote_states[p]
  IN  \/ p = Leader(a)
      \/ reached = FinalStateId(a, p) /\ (p = a \/ reached > 0)
      \/ p \notin VQuorum(a) /\ p # a /\ OneStep(a, p)

\* How knowledge spreads along a plan.
GraphKnowledge ==
  \A a \in Proc :
    /\ Leader(a) \in AliveReplicas
    /\ Cardinality(VQuorum(a) \cap AliveReplicas) >= MinQuorum
    /\ \A p \in Proc :
         /\ StartsFromNothing(a, p)
         /\ LearnsFromMessages(a, p)
         /\ LeaderKnowsTheEnd(a, p)
         /\ p \in VQuorum(a) => FinalKnowledge(a)[p] \subseteq Knowledge(a, p, FinalStateId(a, p))

ASSUME KnowledgeAssumption == GraphKnowledge

\* q, frozen while the commands of a and of b compete, tells which of the two can have
\* met its requirements: whatever q accepted rules out a, or else rules out b.
Settles(a, b, q) ==
  \/ q \in VQuorum(b) /\ VQuorum(a) \cap FinalKnowledge(b)[q] # {}
  \/ /\ q \in VQuorum(a) /\ VQuorum(b) \cap FinalKnowledge(a)[q] # {}
     /\ \/ q \in VQuorum(b)
        \/ \A c \in Proc \ {a, q} : OneStep(c, q) \/ c \in VQuorum(b) \ {b}

\* What adoption in the fallback needs of a plan, and what the planner does not check:
\* of any two commands, at most one can pass for the one that was fast-committed.
GraphSeparates ==
  \A a, b \in Proc : a # b =>
    \/ a \in VQuorum(b)
    \/ Cardinality({q \in AliveReplicas : Settles(a, b, q)}) >= Majority

=============================================================================
