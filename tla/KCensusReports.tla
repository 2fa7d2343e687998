--------------------------- MODULE KCensusReports ---------------------------
(***************************************************************************)
(* Why adoption in KCensus' fallback is safe, as an inductive invariant.    *)
(* The invariant speaks of the reports every process has ever held of        *)
(* itself in a slot, R[q], although the processes only keep the last: views  *)
(* in a census, in a message or implied by a plan are among them, and what   *)
(* was decided can be read off them.  Nothing here is part of the system.   *)
(***************************************************************************)
EXTENDS KCensusProperties

\* The reports of every process in one slot, and in all of them.
Reports   == [Proc -> SUBSET NodeStates]
Histories == [Nat -> Reports]

-----------------------------------------------------------------------------
(* One report *)

\* q in state t of a's schedule, following v; and having voted for v in l's round.
At(v, a, q, t) == AcceptWithKState(EmptyNode, q, v, a, t)
VoteOf(l, v) ==
  [v |-> v, k_proposer |-> None, k_state |-> 0, prepared_for |-> l, accept_round |-> l]

\* A process can come from h to n.
Precedes(h, n) ==
  /\ h.prepared_for <= n.prepared_for
  /\ h.accept_round <= n.accept_round
  /\ h.accept_round < n.accept_round => h.prepared_for <= n.accept_round
  /\ h.accept_round = n.accept_round =>
       /\ h.k_state <= n.k_state
       /\ h.v # NoV => n.v = h.v /\ n.k_proposer = h.k_proposer
       /\ IsFrozen(h) => n.v = h.v /\ n.k_proposer = h.k_proposer /\ n.k_state = h.k_state

\* A report is about a schedule, about a vote, or about nothing yet.
Sound(q, h) ==
  /\ h \in NodeStates
  /\ h.prepared_for \in AliveReplicas \cup {None}
  /\ h.accept_round <= h.prepared_for
  /\ h.accept_round # None => h.v # NoV /\ h.k_proposer = None
  /\ h.v = NoV => h.k_proposer = None
  /\ h.k_proposer = None => h.k_state = 0
  /\ h.k_proposer # None =>
       /\ h.k_state \in StateIds(h.k_proposer, q)
       /\ h.k_state = FinalStateId(h.k_proposer, q) => IsFrozen(h)

\* What must have happened for q to report h: the leader voted before q did; the
\* proposer accepted first, q went through every state of its schedule, and whoever q
\* witnessed accepted too.
Justified(R, q, h) ==
  /\ Sound(q, h)
  /\ h.accept_round # None =>
       VoteOf(h.accept_round, h.v) \in R[q] \cap R[h.accept_round]
  /\ h.k_proposer # None =>
       LET a == h.k_proposer
       IN  /\ At(h.v, a, a, 0) \in R[a]
           /\ \A w \in Knowledge(a, q, h.k_state) : \E x \in R[w] : x.k_proposer = a
           /\ OneStep(a, q) /\ a # q => h.k_state > 0 /\ h.k_state = FinalStateId(a, q)
           /\ \A u \in StateIds(a, q) :
                u <= h.k_state /\ (u > 0 \/ q = a) => At(h.v, a, q, u) \in R[q]

-----------------------------------------------------------------------------
(* What the reports leave possible *)

\* The fallback of l may choose v: a majority voted for it, or can.
MayVote(R, q, l, v) == \A h \in R[q] : h.prepared_for > l => VoteOf(l, v) \in R[q]
MayChoose(R, l, v) ==
  Cardinality({q \in AliveReplicas : MayVote(R, q, l, v)}) >= Majority

\* Voting for v in l's round contradicts no lower round.
Safe(R, l, v) ==
  \A k \in Proc : \A w \in Uid : k < l /\ MayChoose(R, k, w) => w = v

\* A report that keeps b's command from ever meeting its requirements.
Blocks(b, q, h) ==
  /\ h.accept_round = None
  /\ \/ h.k_proposer # b /\ q \in VQuorum(b) /\ (IsFrozen(h) \/ h.k_proposer # None)
     \/ h.k_proposer = b /\ IsFrozen(h) /\ h.k_state # FinalStateId(b, q)
Dead(R, b) == \E q \in Proc : \E h \in R[q] : Blocks(b, q, h)

\* Voting for v contradicts no fast decision.
FastSafe(R, v) == \A b \in Proc : Dead(R, b) \/ At(v, b, b, 0) \in R[b]

\* The reports of a slot: each process's are ordered, each is justified, and a leader's
\* vote in its own round is safe.
ReportsOK(R) ==
  \A q \in Proc :
    /\ EmptyNode \in R[q]
    /\ \A h, g \in R[q] : Precedes(h, g) \/ Precedes(g, h)
    /\ \A h \in R[q] : Justified(R, q, h)
    /\ \A h \in R[q] : h.accept_round = q =>
         Safe(R, q, h.v) /\ (GraphSeparates => FastSafe(R, h.v))

-----------------------------------------------------------------------------
(* What a process knows *)

\* Without a conflict the process follows one proposer, whose messages carry no census.
Plain(R, p, r) ==
  ~HasConflict(r, p) =>
    \/ r = ClearRound
    \/ \E a \in Proc : \E v \in Uid :
         /\ r.proposers = {a}
         /\ Mine(r, p) = At(v, a, p, r.propagation_states[a])
         /\ \A q \in Proc : /\ r.node_states[q].accept_round = None
                            /\ r.node_states[q].k_proposer \in {None, a}
         /\ \A id \in r.received_msgs : \A q \in Proc : BuildRemoteState(v, id, q) \in R[q]

\* Whoever follows a proposer is known to, and of every proposer a command is known.
Known(R, r) ==
  /\ \A q \in Proc : r.node_states[q].k_proposer \in r.proposers \cup {None}
  /\ \A a \in r.proposers : r.node_states[a].v # NoV /\ \E h \in R[a] : h.k_proposer = a

\* The votes p can have counted in its own round.
Counted(R, p, r) ==
  {q \in AliveReplicas : r.node_states[q].accept_round >= p /\ \E h \in R[q] : h.accept_round = p}

RoundOK(R, p, r) ==
  /\ \A q \in Proc : r.node_states[q] \in R[q]
  /\ \A h \in R[p] : Precedes(h, Mine(r, p))
  /\ \A a \in Proc : \A u \in StateIds(a, p) :
       u <= r.propagation_states[a] => State(a, p, u).dependencies \subseteq r.received_msgs
  /\ Known(R, r)
  /\ Plain(R, p, r)
  /\ r.paxos_accept_count <= Cardinality(Counted(R, p, r))

-----------------------------------------------------------------------------
(* Decisions and messages *)

\* b's command met its requirements, with everyone that could tell.
Full(R, b, v) ==
  /\ At(v, b, b, 0) \in R[b]
  /\ \A q \in Proc : q \in VQuorum(b) \/ q = b \/ ~OneStep(b, q) =>
       At(v, b, q, FinalStateId(b, q)) \in R[q]
FastDecided(R, v) == \E b \in Proc : Full(R, b, v)

\* A majority voted for v in l's round.
Chosen(R, l, v) ==
  Cardinality({q \in AliveReplicas : VoteOf(l, v) \in R[q]}) >= Majority
SlowDecided(R, v) == \E l \in Proc : VoteOf(l, v) \in R[l] /\ Chosen(R, l, v)

Decided(R, v) == FastDecided(R, v) \/ SlowDecided(R, v)

MsgOK(H, m) ==
  /\ m.type = "Spread" =>
       /\ m.id \in State(m.id.proposer, m.id.src, m.id.time).needed_by
       /\ \A q \in Proc : Incoming(m)[q] \in H[m.slot][q]
       /\ \A q, a \in Proc : Incoming(m)[q].k_proposer = a => Incoming(m)[a].v # NoV
  /\ m.type = "PaxosAccept" =>
       /\ m.src \in AliveReplicas
       /\ VoteOf(m.leader, m.v) \in H[m.slot][m.src] \cap H[m.slot][m.leader]
  /\ m.type = "Commit" => Decided(H[m.slot], m.v)

\* What a census obliged a leader to propose is safe.
FallbackOK(R, choices) ==
  GraphSeparates =>
    \A b \in Proc : Dead(R, b) \/ \E v \in choices : choices = {v} /\ At(v, b, b, 0) \in R[b]
=============================================================================
