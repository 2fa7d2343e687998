------------------------ MODULE KCensusReportProofs ------------------------
(***************************************************************************)
(* What follows from the reports of a slot: facts about KCensusReports, no  *)
(* step of the system yet.                                                  *)
(***************************************************************************)
EXTENDS KCensusReports, KCensusProofs

-----------------------------------------------------------------------------
(* The order of reports *)

\* The ranks of a report.
LEMMA Ranks ==
  \A n \in NodeStates :
    /\ n.prepared_for \in Int /\ n.prepared_for >= None
    /\ n.accept_round \in Int /\ n.accept_round >= None
    /\ n.k_state \in Nat
    /\ n.prepared_for \in OptProc /\ n.accept_round \in OptProc /\ n.k_proposer \in OptProc
    /\ n.v \in Uid \cup {NoV}
    /\ n = [v |-> n.v, k_proposer |-> n.k_proposer, k_state |-> n.k_state,
            prepared_for |-> n.prepared_for, accept_round |-> n.accept_round]
<1> SUFFICES ASSUME NEW n \in NodeStates
             PROVE  /\ n.prepared_for \in Int /\ n.prepared_for >= None
                    /\ n.accept_round \in Int /\ n.accept_round >= None
                    /\ n.k_state \in Nat
                    /\ n.prepared_for \in OptProc /\ n.accept_round \in OptProc /\ n.k_proposer \in OptProc
                    /\ n.v \in Uid \cup {NoV}
                    /\ n = [v |-> n.v, k_proposer |-> n.k_proposer, k_state |-> n.k_state,
                            prepared_for |-> n.prepared_for, accept_round |-> n.accept_round]
  OBVIOUS
<1>1. n \in [v : Uid \cup {NoV}, k_proposer : OptProc, k_state : Nat,
             prepared_for : OptProc, accept_round : OptProc]
  BY DEF NodeStates
<1>2. \A x \in OptProc : x \in Int /\ x >= None
  BY ProcIsNat DEF OptProc, None
<1>3. n = [v |-> n.v, k_proposer |-> n.k_proposer, k_state |-> n.k_state,
           prepared_for |-> n.prepared_for, accept_round |-> n.accept_round]
  BY <1>1
<1> QED BY <1>1, <1>2, <1>3

\* No command is nothing, and no process is nobody.
LEMMA NoneIsNobody == None \notin Proc /\ NoV \notin Uid
<1>1. None \notin Proc
  BY ProcIsNat DEF None
<1>2. \A v \in Uid : v.pid \in Proc
  BY DEF Uid, Command, Batch
<1>3. NoV.pid \notin Proc
  BY ProcIsNat DEF NoV
<1> QED BY <1>1, <1>2, <1>3

\* A report comes no later than itself.
LEMMA PrecedesReflexive == \A n \in NodeStates : Precedes(n, n)
BY Ranks DEF Precedes

\* The order of reports is transitive.
LEMMA PrecedesTransitive ==
  ASSUME NEW h \in NodeStates, NEW n \in NodeStates, NEW g \in NodeStates,
         Precedes(h, n), Precedes(n, g)
  PROVE  Precedes(h, g)
<1>1. h.prepared_for <= g.prepared_for /\ h.accept_round <= g.accept_round
  BY Ranks DEF Precedes
<1>2. h.accept_round < g.accept_round => h.prepared_for <= g.accept_round
  BY Ranks DEF Precedes
<1>3. ASSUME h.accept_round = g.accept_round
      PROVE  /\ h.k_state <= g.k_state
             /\ h.v # NoV => g.v = h.v /\ g.k_proposer = h.k_proposer
             /\ IsFrozen(h) => g.v = h.v /\ g.k_proposer = h.k_proposer /\ g.k_state = h.k_state
  <2>1. h.accept_round = n.accept_round /\ n.accept_round = g.accept_round
    BY <1>3, Ranks DEF Precedes
  <2>2. IsFrozen(h) => IsFrozen(n)
    BY Ranks DEF Precedes, IsFrozen, None
  <2>3. h.k_state <= g.k_state
    BY <2>1, Ranks DEF Precedes
  <2> QED BY <2>1, <2>2, <2>3 DEF Precedes
<1> QED BY <1>1, <1>2, <1>3 DEF Precedes

\* A report that precedes another is not the newer one.
LEMMA PrecedesNotNewer ==
  ASSUME NEW h \in NodeStates, NEW n \in NodeStates, Precedes(h, n)
  PROVE  ~Newer(h, n)
BY Ranks DEF Precedes, Newer

\* Of two ordered reports, the newer is the later.
LEMMA NewerIsLater ==
  ASSUME NEW h \in NodeStates, NEW n \in NodeStates, Precedes(h, n) \/ Precedes(n, h),
         Newer(n, h)
  PROVE  Precedes(h, n)
BY PrecedesNotNewer

\* Of two ordered reports, one that is not newer is the earlier, or the same.
LEMMA NotNewerIsEarlier ==
  ASSUME NEW q \in Proc, NEW h \in NodeStates, NEW n \in NodeStates, Sound(q, h), Sound(q, n),
         Precedes(h, n) \/ Precedes(n, h), ~Newer(n, h)
  PROVE  Precedes(n, h)
<1> SUFFICES ASSUME Precedes(h, n) PROVE n = h
  BY PrecedesReflexive
<1>1. n.accept_round = h.accept_round
  BY Ranks DEF Precedes, Newer
<1>2. n.prepared_for = h.prepared_for
  BY <1>1, Ranks DEF Precedes, Newer
<1>3. n.k_state = h.k_state
  BY <1>1, <1>2, Ranks DEF Precedes, Newer
<1>4. n.v = h.v /\ n.k_proposer = h.k_proposer
  <2>1. CASE h.v # NoV
    BY <2>1, <1>1 DEF Precedes
  <2>2. CASE h.v = NoV
    <3>1. n.v = NoV
      BY <2>2, <1>1, <1>2, <1>3 DEF Newer
    <3> QED BY <2>2, <3>1 DEF Sound
  <2> QED BY <2>1, <2>2
<1> QED BY <1>1, <1>2, <1>3, <1>4, Ranks

\* Whatever has a command keeps having one.
LEMMA CommandStays ==
  ASSUME NEW q \in Proc, NEW h \in NodeStates, NEW n \in NodeStates, Sound(q, n),
         Precedes(h, n), h.v # NoV
  PROVE  n.v # NoV
<1>1. CASE h.accept_round = n.accept_round
  BY <1>1 DEF Precedes
<1>2. CASE h.accept_round # n.accept_round
  <2>1. n.accept_round # None
    BY <1>2, Ranks DEF Precedes, None
  <2> QED BY <2>1 DEF Sound
<1> QED BY <1>1, <1>2

-----------------------------------------------------------------------------
(* Reports that are written down *)

\* A report about a schedule.
LEMMA AtFields ==
  ASSUME NEW v \in Uid, NEW a \in Proc, NEW q \in Proc, NEW t \in Nat
  PROVE  /\ At(v, a, q, t) \in NodeStates
         /\ At(v, a, q, t).v = v
         /\ At(v, a, q, t).k_proposer = a
         /\ At(v, a, q, t).k_state = t
         /\ At(v, a, q, t).accept_round = None
         /\ At(v, a, q, t).prepared_for = IF t = FinalStateId(a, q) THEN Leader(a) ELSE None
         /\ IsFrozen(At(v, a, q, t)) <=> t = FinalStateId(a, q)
<1>1. EmptyNode \in NodeStates /\ EmptyNode.prepared_for = None /\ EmptyNode.accept_round = None
  BY EmptyNodeType DEF EmptyNode
<1> DEFINE e == [EmptyNode EXCEPT !.v = v, !.k_proposer = a]
<1>2. /\ e \in [v : Uid \cup {NoV}, k_proposer : OptProc, k_state : Nat,
               prepared_for : OptProc, accept_round : OptProc]
      /\ e.v = v /\ e.k_proposer = a /\ e.prepared_for = None /\ e.accept_round = None
  BY <1>1 DEF NodeStates, OptProc
<1>3. At(v, a, q, t) = UpdateKState(e, q, t)
  BY DEF At, AcceptWithKState
<1> HIDE DEF e
<1>4. /\ UpdateKState(e, q, t).v = v /\ UpdateKState(e, q, t).k_proposer = a
      /\ UpdateKState(e, q, t).k_state = t /\ UpdateKState(e, q, t).accept_round = None
      /\ UpdateKState(e, q, t).prepared_for = IF t = FinalStateId(a, q) THEN Leader(a) ELSE None
  BY <1>2 DEF UpdateKState
<1>5. Leader(a) # None
  BY LeaderIsProc, NoneIsNobody
<1> QED BY <1>1, <1>3, <1>4, <1>5, AcceptWithKStateType DEF At, IsFrozen

\* A vote is a view.
LEMMA VoteOfType ==
  ASSUME NEW v \in Uid, NEW l \in Proc
  PROVE  VoteOf(l, v) \in NodeStates
BY NoneIsNobody DEF VoteOf, NodeStates, OptProc

\* What a vote says.
LEMMA VoteOfFields ==
  \A l, v : /\ VoteOf(l, v).v = v /\ VoteOf(l, v).k_proposer = None
            /\ VoteOf(l, v).prepared_for = l /\ VoteOf(l, v).accept_round = l
            /\ VoteOf(l, v).k_state = 0
BY DEF VoteOf

\* A process that has done nothing says nothing.
LEMMA EmptyNodeFields ==
  /\ EmptyNode.v = NoV /\ EmptyNode.k_proposer = None /\ EmptyNode.k_state = 0
  /\ EmptyNode.prepared_for = None /\ EmptyNode.accept_round = None
  /\ ~IsFrozen(EmptyNode)
BY DEF EmptyNode, IsFrozen

\* Replicas can be counted.
LEMMA ReplicasFinite ==
  /\ IsFiniteSet(AliveReplicas) /\ Cardinality(AliveReplicas) \in Nat
  /\ Cardinality(AliveReplicas) <= NbReplicas /\ NbReplicas \in Nat
  /\ AliveReplicas \subseteq Proc
<1>1. IsFiniteSet(Proc)
  BY TopologyAssumption, FS_Interval
<1> QED BY <1>1, TopologyAssumption, FS_Subset, FS_CardinalityType

\* A leader is a replica, and every plan has the facts it needs.
LEMMA PlanFacts ==
  ASSUME NEW a \in Proc, NEW p \in Proc
  PROVE  /\ Leader(a) \in AliveReplicas /\ Leader(a) \in Proc
         /\ StateIds(a, p) \subseteq Nat /\ 0 \in StateIds(a, p)
         /\ Cardinality(VQuorum(a) \cap AliveReplicas) >= Majority
         /\ StartsFromNothing(a, p) /\ LearnsFromMessages(a, p) /\ LeaderKnowsTheEnd(a, p)
         /\ p \in VQuorum(a) => FinalKnowledge(a)[p] \subseteq Knowledge(a, p, FinalStateId(a, p))
<1>1. MinQuorum \in Int /\ MinQuorum >= Majority /\ Majority \in Int
  BY TopologyAssumption DEF MinQuorum, MaxFaults, Majority
<1>2. Cardinality(VQuorum(a) \cap AliveReplicas) \in Nat
  BY ReplicasFinite, FS_Subset, FS_CardinalityType
<1>3. Cardinality(VQuorum(a) \cap AliveReplicas) >= MinQuorum
  BY KnowledgeAssumption DEF GraphKnowledge
<1>4. Cardinality(VQuorum(a) \cap AliveReplicas) >= Majority
  BY <1>1, <1>2, <1>3
<1> QED BY <1>4, GraphAssumption, KnowledgeAssumption DEF GraphWellFormed, GraphKnowledge

\* A schedule is followed in order.
LEMMA AtOrder ==
  ASSUME NEW v \in Uid, NEW a \in Proc, NEW q \in Proc, NEW t \in StateIds(a, q),
         NEW u \in StateIds(a, q), t <= u
  PROVE  Precedes(At(v, a, q, t), At(v, a, q, u))
<1>1. t \in Nat /\ u \in Nat
  BY PlanFacts
<1>2. CASE t = u
  BY <1>1, <1>2, AtFields, PrecedesReflexive
<1>3. CASE t < u
  <2>1. u <= FinalStateId(a, q) /\ FinalStateId(a, q) \in Nat
    BY FinalStateExists, PlanFacts
  <2>2. t # FinalStateId(a, q)
    BY <2>1, <1>1, <1>3
  <2>3. At(v, a, q, t).prepared_for = None /\ ~IsFrozen(At(v, a, q, t))
    BY <2>2, <1>1, AtFields
  <2> DEFINE h == At(v, a, q, t)
             n == At(v, a, q, u)
  <2>4. /\ h \in NodeStates /\ n \in NodeStates /\ h.v = v /\ n.v = v
        /\ h.k_proposer = a /\ n.k_proposer = a /\ h.k_state = t /\ n.k_state = u
        /\ h.accept_round = None /\ n.accept_round = None
    BY <1>1, AtFields
  <2>5. h.prepared_for = None /\ ~IsFrozen(h)
    BY <2>3
  <2> HIDE DEF h, n
  <2>6. Precedes(h, n)
    BY <2>4, <2>5, <1>1, <1>3, Ranks DEF Precedes, None
  <2> QED BY <2>6 DEF h, n
<1> QED BY <1>1, <1>2, <1>3

\* Every schedule ends.
LEMMA LastState ==
  \A a, q \in Proc : FinalStateId(a, q) \in StateIds(a, q) /\ FinalStateId(a, q) \in Nat
BY FinalStateExists, PlanFacts

\* Everything starts from nothing.
LEMMA EmptyPrecedes == \A n \in NodeStates : Precedes(EmptyNode, n)
BY Ranks, EmptyNodeFields DEF Precedes

-----------------------------------------------------------------------------
(* The reports of a slot *)

Good(R) == R \in Reports /\ ReportsOK(R)

\* A report is a view, sound and justified.
LEMMA ReportFacts ==
  ASSUME NEW R, Good(R), NEW q \in Proc, NEW h \in R[q]
  PROVE  h \in NodeStates /\ Sound(q, h) /\ Justified(R, q, h)
BY DEF Good, Reports, ReportsOK, Justified

\* Of two reports of a process, one came first.
LEMMA ReportsOrdered ==
  ASSUME NEW R, Good(R), NEW q \in Proc, NEW h \in R[q], NEW g \in R[q]
  PROVE  Precedes(h, g) \/ Precedes(g, h)
BY DEF Good, ReportsOK

\* In one round, and on the fast path, a process reports one command.
LEMMA SameCommand ==
  ASSUME NEW R, Good(R), NEW q \in Proc, NEW h \in R[q], NEW g \in R[q],
         h.accept_round = g.accept_round, h.v # NoV, g.v # NoV
  PROVE  h.v = g.v /\ h.k_proposer = g.k_proposer
BY ReportsOrdered DEF Precedes

\* What a report of a vote says.
LEMMA VoteFacts ==
  ASSUME NEW R, Good(R), NEW q \in Proc, NEW h \in R[q], h.accept_round # None
  PROVE  /\ h.v \in Uid /\ h.accept_round \in Proc
         /\ VoteOf(h.accept_round, h.v) \in R[q]
         /\ VoteOf(h.accept_round, h.v) \in R[h.accept_round]
<1>1. h \in NodeStates /\ Sound(q, h) /\ Justified(R, q, h)
  BY ReportFacts
<1>2. h.v # NoV
  BY <1>1 DEF Sound
<1> QED BY <1>1, <1>2, Ranks DEF Justified, OptProc

\* All votes of a round are for the same command.
LEMMA OneVotePerRound ==
  ASSUME NEW R, Good(R), NEW q \in Proc, NEW h \in R[q], NEW s \in Proc, NEW g \in R[s],
         h.accept_round = g.accept_round, h.accept_round # None
  PROVE  h.v = g.v
<1> DEFINE l == h.accept_round
           x == VoteOf(l, h.v)
           y == VoteOf(l, g.v)
<1>1. l \in Proc /\ h.v \in Uid /\ g.v \in Uid /\ x \in R[l] /\ y \in R[l]
  BY VoteFacts
<1>2. x.accept_round = y.accept_round /\ x.v = h.v /\ y.v = g.v
  BY VoteOfFields
<1> HIDE DEF x, y
<1> QED BY <1>1, <1>2, SameCommand, NoneIsNobody

\* What a report about a schedule says.
LEMMA AcceptedFacts ==
  ASSUME NEW R, Good(R), NEW q \in Proc, NEW h \in R[q], h.k_proposer # None
  PROVE  /\ h.k_proposer \in Proc /\ h.v \in Uid /\ h.accept_round = None
         /\ At(h.v, h.k_proposer, h.k_proposer, 0) \in R[h.k_proposer]
         /\ h.k_state \in StateIds(h.k_proposer, q)
         /\ \A w \in Knowledge(h.k_proposer, q, h.k_state) : \E x \in R[w] : x.k_proposer = h.k_proposer
         /\ OneStep(h.k_proposer, q) /\ h.k_proposer # q =>
              h.k_state > 0 /\ h.k_state = FinalStateId(h.k_proposer, q)
         /\ \A u \in StateIds(h.k_proposer, q) :
              u <= h.k_state /\ (u > 0 \/ q = h.k_proposer) => At(h.v, h.k_proposer, q, u) \in R[q]
<1>1. h \in NodeStates /\ Sound(q, h) /\ Justified(R, q, h)
  BY ReportFacts
<1>2. h.v # NoV /\ h.accept_round = None
  BY <1>1 DEF Sound
<1>3. h.k_proposer \in Proc /\ h.v \in Uid
  BY <1>1, <1>2, Ranks DEF OptProc
<1> QED BY <1>1, <1>2, <1>3 DEF Justified, Sound

-----------------------------------------------------------------------------
(* Decisions *)

\* What blocks a command is not there when the command was fast-committed.
LEMMA DeadIsNotFull ==
  ASSUME NEW R, Good(R), NEW b \in Proc, NEW v \in Uid, Full(R, b, v)
  PROVE  ~Dead(R, b)
<1> SUFFICES ASSUME NEW q \in Proc, NEW h \in R[q], Blocks(b, q, h)
             PROVE  FALSE
  BY DEF Dead
<1> DEFINE e == At(v, b, q, FinalStateId(b, q))
<1>1. /\ FinalStateId(b, q) \in StateIds(b, q) /\ FinalStateId(b, q) \in Nat
  BY FinalStateExists, PlanFacts
<1>2. /\ e \in NodeStates /\ e.v = v /\ e.k_proposer = b /\ e.k_state = FinalStateId(b, q)
      /\ e.accept_round = None /\ IsFrozen(e)
  BY <1>1, AtFields
<1>3. h \in NodeStates /\ Sound(q, h)
  BY ReportFacts
<1>4. ASSUME e \in R[q] PROVE h.k_proposer = b /\ IsFrozen(h) => h.k_state = FinalStateId(b, q)
  <2>1. Precedes(h, e) \/ Precedes(e, h)
    BY <1>4, ReportsOrdered
  <2> QED BY <2>1, <1>2, NoneIsNobody DEF Blocks, Precedes
<1>5. ASSUME e \in R[q], h.k_proposer # b PROVE ~IsFrozen(h) /\ h.k_proposer = None
  <2>1. Precedes(h, e) \/ Precedes(e, h)
    BY <1>5, ReportsOrdered
  <2>2. ~Precedes(e, h)
    BY <1>2, <1>5 DEF Blocks, Precedes
  <2>3. ~IsFrozen(h)
    BY <2>1, <2>2, <1>2, <1>5 DEF Blocks, Precedes
  <2>4. h.v = NoV
    BY <2>1, <2>2, <1>2, <1>5 DEF Blocks, Precedes
  <2> QED BY <2>3, <2>4, <1>3 DEF Sound
<1>6. CASE q \in VQuorum(b) \/ q = b \/ ~OneStep(b, q)
  <2>1. e \in R[q]
    BY <1>6 DEF Full
  <2> QED BY <2>1, <1>4, <1>5 DEF Blocks
<1>7. CASE q \notin VQuorum(b) /\ q # b /\ OneStep(b, q)
  <2>1. h.k_proposer = b /\ h.k_state # FinalStateId(b, q)
    BY <1>7 DEF Blocks
  <2> QED BY <2>1, <1>7, AcceptedFacts, NoneIsNobody
<1> QED BY <1>6, <1>7

\* Two majorities are more than all the replicas.
LEMMA MajorityIsNat == Majority \in Nat /\ 2 * Majority > NbReplicas /\ Majority > 0
BY TopologyAssumption DEF Majority

\* Any two majorities of the replicas meet.
LEMMA MajoritiesMeet ==
  ASSUME NEW A \in SUBSET AliveReplicas, NEW B \in SUBSET AliveReplicas,
         Cardinality(A) >= Majority, Cardinality(B) >= Majority
  PROVE  \E q \in A : q \in B
<1>2. IsFiniteSet(A) /\ IsFiniteSet(B) /\ IsFiniteSet(A \cup B)
  BY ReplicasFinite, FS_Subset
<1>3. Cardinality(A \cup B) <= Cardinality(AliveReplicas)
  BY ReplicasFinite, FS_Subset
<1>4. Cardinality(A \cup B) = Cardinality(A) + Cardinality(B) - Cardinality(A \cap B)
  BY <1>2, FS_Union
<1>5. Cardinality(A) \in Nat /\ Cardinality(B) \in Nat /\ Cardinality(A \cap B) \in Nat
  BY <1>2, FS_CardinalityType, FS_Intersection
<1>6. Cardinality(A \cap B) # 0
  BY ReplicasFinite, MajorityIsNat, <1>3, <1>4, <1>5
<1> QED BY <1>2, <1>6, FS_EmptySet

\* Two fast decisions of a slot are the same: the quorums meet, and a process that
\* accepted one command accepted no other.
LEMMA FastDecisionsAgree ==
  ASSUME NEW R, Good(R), NEW a \in Proc, NEW v \in Uid, NEW b \in Proc, NEW w \in Uid,
         Full(R, a, v), Full(R, b, w)
  PROVE  v = w
<1>1. PICK q \in VQuorum(a) \cap AliveReplicas : q \in VQuorum(b)
  BY PlanFacts, MajoritiesMeet
<1>2. q \in Proc
  BY TopologyAssumption
<1> DEFINE x == At(v, a, q, FinalStateId(a, q))
           y == At(w, b, q, FinalStateId(b, q))
<1>3. x \in R[q] /\ y \in R[q]
  BY <1>1, <1>2 DEF Full
<1>4. x.v = v /\ y.v = w /\ x.accept_round = y.accept_round
  BY <1>2, LastState, AtFields
<1> HIDE DEF x, y
<1> QED BY <1>2, <1>3, <1>4, SameCommand, NoneIsNobody

\* A leader whose vote is safe voted for what was decided on the fast path.
LEMMA FastAndSlowAgree ==
  ASSUME GraphSeparates, NEW R, Good(R), NEW b \in Proc, NEW v \in Uid, Full(R, b, v),
         NEW l \in Proc, NEW w \in Uid, VoteOf(l, w) \in R[l]
  PROVE  v = w
<1>1. FastSafe(R, w)
  BY VoteOfFields DEF Good, ReportsOK
<1>2. ~Dead(R, b)
  BY DeadIsNotFull
<1> DEFINE x == At(v, b, b, 0)
           y == At(w, b, b, 0)
<1>3. x \in R[b] /\ y \in R[b]
  BY <1>1, <1>2 DEF FastSafe, Full
<1>4. x.v = v /\ y.v = w /\ x.accept_round = y.accept_round
  BY AtFields
<1> HIDE DEF x, y
<1> QED BY <1>3, <1>4, SameCommand, NoneIsNobody

\* A leader votes for what a majority chose in a lower round.
LEMMA SlowDecisionsAgree ==
  ASSUME NEW R, Good(R), NEW k \in Proc, NEW v \in Uid, NEW l \in Proc, NEW w \in Uid,
         k < l, Chosen(R, k, v), VoteOf(l, w) \in R[l]
  PROVE  v = w
<1>1. Safe(R, l, w)
  BY VoteOfFields DEF Good, ReportsOK
<1>2. ASSUME NEW q \in AliveReplicas, VoteOf(k, v) \in R[q] PROVE MayVote(R, q, k, v)
  BY <1>2 DEF MayVote
<1> DEFINE A == {q \in AliveReplicas : VoteOf(k, v) \in R[q]}
           B == {q \in AliveReplicas : MayVote(R, q, k, v)}
<1>3. A \subseteq B /\ IsFiniteSet(B)
  BY <1>2, ReplicasFinite, FS_Subset
<1>4. Cardinality(A) <= Cardinality(B) /\ Cardinality(A) \in Nat /\ Cardinality(B) \in Nat
  BY <1>3, FS_Subset, FS_CardinalityType
<1>5. MayChoose(R, k, v)
  BY <1>4, MajorityIsNat DEF MayChoose, Chosen
<1> QED BY <1>1, <1>5 DEF Safe

\* A slot is decided once.
LEMMA DecisionsAgree ==
  ASSUME GraphSeparates, NEW R, Good(R), NEW v \in Uid, NEW w \in Uid, Decided(R, v), Decided(R, w)
  PROVE  v = w
<1>1. CASE FastDecided(R, v) /\ FastDecided(R, w)
  BY <1>1, FastDecisionsAgree DEF FastDecided
<1>2. CASE FastDecided(R, v) /\ SlowDecided(R, w)
  BY <1>2, FastAndSlowAgree DEF FastDecided, SlowDecided
<1>3. CASE SlowDecided(R, v) /\ FastDecided(R, w)
  BY <1>3, FastAndSlowAgree DEF FastDecided, SlowDecided
<1>4. CASE SlowDecided(R, v) /\ SlowDecided(R, w)
  <2>1. PICK k \in Proc : VoteOf(k, v) \in R[k] /\ Chosen(R, k, v)
    BY <1>4 DEF SlowDecided
  <2>2. PICK l \in Proc : VoteOf(l, w) \in R[l] /\ Chosen(R, l, w)
    BY <1>4 DEF SlowDecided
  <2>3. CASE k < l
    BY <2>1, <2>2, <2>3, SlowDecisionsAgree
  <2>4. CASE l < k
    BY <2>1, <2>2, <2>4, SlowDecisionsAgree
  <2>5. CASE l = k
    <3> DEFINE x == VoteOf(k, v)
               y == VoteOf(l, w)
    <3>1. x \in R[k] /\ y \in R[k] /\ x.accept_round = y.accept_round /\ x.v = v /\ y.v = w
      BY <2>1, <2>2, <2>5, VoteOfFields
    <3> HIDE DEF x, y
    <3> QED BY <3>1, SameCommand, NoneIsNobody
  <2>6. k \in Int /\ l \in Int
    BY ProcIsNat
  <2> QED BY <2>3, <2>4, <2>5, <2>6
<1> QED BY <1>1, <1>2, <1>3, <1>4 DEF Decided

-----------------------------------------------------------------------------
(* More reports: what p adds to a slot comes after what it had reported *)

Extends(R, S, p) ==
  /\ R \in Reports /\ S \in Reports
  /\ \A q \in Proc : R[q] \subseteq S[q]
  /\ \A q \in Proc \ {p} : S[q] = R[q]
  /\ \A h \in R[p] : \A g \in S[p] \ R[p] : Precedes(h, g)

\* What is decided on the fast path remains so.
LEMMA FullGrows ==
  ASSUME NEW R, NEW S, NEW p \in Proc, Extends(R, S, p), NEW b \in Proc, NEW v, Full(R, b, v)
  PROVE  Full(S, b, v)
BY DEF Extends, Full

\* So does what can no longer be.
LEMMA DeadGrows ==
  ASSUME NEW R, NEW S, NEW p \in Proc, Extends(R, S, p), NEW b \in Proc, Dead(R, b)
  PROVE  Dead(S, b)
BY DEF Extends, Dead

\* So does a safe vote, as far as the fast path goes.
LEMMA FastSafeGrows ==
  ASSUME NEW R, NEW S, NEW p \in Proc, Extends(R, S, p), NEW v, FastSafe(R, v)
  PROVE  FastSafe(S, v)
BY DeadGrows DEF Extends, FastSafe

\* What a majority voted for remains chosen.
LEMMA ChosenGrows ==
  ASSUME NEW R, NEW S, NEW p \in Proc, Extends(R, S, p), NEW l, NEW v, Chosen(R, l, v)
  PROVE  Chosen(S, l, v)
<1> DEFINE A == {q \in AliveReplicas : VoteOf(l, v) \in R[q]}
           B == {q \in AliveReplicas : VoteOf(l, v) \in S[q]}
<1>1. A \subseteq B /\ IsFiniteSet(B)
  BY ReplicasFinite, FS_Subset DEF Extends
<1>2. Cardinality(A) <= Cardinality(B) /\ Cardinality(A) \in Nat /\ Cardinality(B) \in Nat
  BY <1>1, FS_Subset, FS_CardinalityType
<1> QED BY <1>2, MajorityIsNat DEF Chosen

\* A fast decision stands.
LEMMA FastDecidedGrows ==
  ASSUME NEW R, NEW S, NEW p \in Proc, Extends(R, S, p), NEW v, FastDecided(R, v)
  PROVE  FastDecided(S, v)
BY FullGrows DEF FastDecided

\* A slow decision stands.
LEMMA SlowDecidedGrows ==
  ASSUME NEW R, NEW S, NEW p \in Proc, Extends(R, S, p), NEW v, SlowDecided(R, v)
  PROVE  SlowDecided(S, v)
<1>1. PICK l \in Proc : VoteOf(l, v) \in R[l] /\ Chosen(R, l, v)
  BY DEF SlowDecided
<1> QED BY <1>1, ChosenGrows DEF SlowDecided, Extends

\* A decision stands.
LEMMA DecidedGrows ==
  ASSUME NEW R, NEW S, NEW p \in Proc, Extends(R, S, p), NEW v, Decided(R, v)
  PROVE  Decided(S, v)
BY FastDecidedGrows, SlowDecidedGrows DEF Decided

\* What a fallback was obliged to propose remains safe.
LEMMA FallbackGrows ==
  ASSUME NEW R, NEW S, NEW p \in Proc, Extends(R, S, p), NEW choices, FallbackOK(R, choices)
  PROVE  FallbackOK(S, choices)
BY DeadGrows DEF FallbackOK, Extends

\* A report stays justified.
LEMMA JustifiedGrows ==
  ASSUME NEW R, NEW S, NEW p \in Proc, Extends(R, S, p), NEW q \in Proc, NEW h, Justified(R, q, h)
  PROVE  Justified(S, q, h)
<1>1. Sound(q, h)
  BY DEF Justified
<1>2. ASSUME h.accept_round # None
      PROVE  VoteOf(h.accept_round, h.v) \in S[q] \cap S[h.accept_round]
  <2>1. h.accept_round \in Proc
    BY <1>1, <1>2, Ranks DEF Sound, OptProc
  <2> QED BY <2>1, <1>2 DEF Justified, Extends
<1>3. ASSUME h.k_proposer # None
      PROVE  LET a == h.k_proposer
             IN  /\ At(h.v, a, a, 0) \in S[a]
                 /\ \A w \in Knowledge(a, q, h.k_state) : \E x \in S[w] : x.k_proposer = a
                 /\ OneStep(a, q) /\ a # q => h.k_state > 0 /\ h.k_state = FinalStateId(a, q)
                 /\ \A u \in StateIds(a, q) :
                      u <= h.k_state /\ (u > 0 \/ q = a) => At(h.v, a, q, u) \in S[q]
  <2> DEFINE a == h.k_proposer
  <2>1. a \in Proc /\ h.k_state \in StateIds(a, q)
    BY <1>1, <1>3, Ranks DEF Sound, OptProc
  <2>2. Knowledge(a, q, h.k_state) \subseteq Proc
    BY <2>1, StateType DEF Knowledge, KnowledgeState
  <2>3. \A w \in Knowledge(a, q, h.k_state) : \E x \in R[w] : x.k_proposer = a
    BY <1>3 DEF Justified
  <2>4. At(h.v, a, a, 0) \in R[a]
    BY <1>3 DEF Justified
  <2>5. \A u \in StateIds(a, q) : u <= h.k_state /\ (u > 0 \/ q = a) => At(h.v, a, q, u) \in R[q]
    BY <1>3 DEF Justified
  <2>6. OneStep(a, q) /\ a # q => h.k_state > 0 /\ h.k_state = FinalStateId(a, q)
    BY <1>3 DEF Justified
  <2> QED BY <2>1, <2>2, <2>3, <2>4, <2>5, <2>6 DEF Extends
<1> QED BY <1>1, <1>2, <1>3 DEF Justified

\* Who has promised a later leader will not vote in an earlier round any more.
LEMMA MayVoteShrinks ==
  ASSUME NEW R, NEW S, NEW p \in Proc, Extends(R, S, p), NEW q \in Proc, NEW l \in Proc,
         NEW v \in Uid, MayVote(S, q, l, v)
  PROVE  MayVote(R, q, l, v)
<1> SUFFICES ASSUME NEW h \in R[q], h.prepared_for > l PROVE VoteOf(l, v) \in R[q]
  BY DEF MayVote
<1> DEFINE x == VoteOf(l, v)
<1>1. x \in S[q]
  BY DEF MayVote, Extends
<1>2. CASE q # p
  BY <1>1, <1>2 DEF Extends
<1>3. CASE q = p
  <2> SUFFICES ASSUME x \notin R[p] PROVE FALSE
    BY <1>3
  <2>1. Precedes(h, x)
    BY <1>1, <1>3 DEF Extends
  <2>2. x.prepared_for = l
    BY VoteOfFields
  <2>3. h \in NodeStates
    BY DEF Extends, Reports
  <2> HIDE DEF x
  <2>4. h.prepared_for \in Int /\ l \in Int
    BY <2>3, Ranks, ProcIsNat
  <2> QED BY <2>1, <2>2, <2>4 DEF Precedes
<1> QED BY <1>2, <1>3

\* And no other value can come to be chosen in a round.
LEMMA MayChooseShrinks ==
  ASSUME NEW R, NEW S, NEW p \in Proc, Extends(R, S, p), NEW l \in Proc,
         NEW v \in Uid, MayChoose(S, l, v)
  PROVE  MayChoose(R, l, v)
<1> DEFINE A == {q \in AliveReplicas : MayVote(S, q, l, v)}
           B == {q \in AliveReplicas : MayVote(R, q, l, v)}
<1>1. A \subseteq B /\ IsFiniteSet(B)
  BY ReplicasFinite, FS_Subset, MayVoteShrinks
<1>2. Cardinality(A) <= Cardinality(B) /\ Cardinality(A) \in Nat /\ Cardinality(B) \in Nat
  BY <1>1, FS_Subset, FS_CardinalityType
<1> QED BY <1>2, MajorityIsNat DEF MayChoose

\* A safe vote remains safe.
LEMMA SafeGrows ==
  ASSUME NEW R, NEW S, NEW p \in Proc, Extends(R, S, p), NEW l \in Proc, NEW v, Safe(R, l, v)
  PROVE  Safe(S, l, v)
BY MayChooseShrinks DEF Safe

\* Good reports stay good with more reports that are ordered, justified and safe.
LEMMA ExtendsGood ==
  ASSUME NEW R, NEW S, NEW p \in Proc, Good(R), Extends(R, S, p),
         \A g, h \in S[p] \ R[p] : Precedes(g, h) \/ Precedes(h, g),
         \A g \in S[p] \ R[p] : Justified(S, p, g),
         \A g \in S[p] \ R[p] : g.accept_round = p =>
           Safe(S, p, g.v) /\ (GraphSeparates => FastSafe(S, g.v))
  PROVE  Good(S)
<1>1. S \in Reports
  BY DEF Extends
<1>2. ASSUME NEW q \in Proc
      PROVE  EmptyNode \in S[q]
  BY <1>2 DEF Good, ReportsOK, Extends
<1>3. ASSUME NEW q \in Proc, NEW h \in S[q], NEW g \in S[q]
      PROVE  Precedes(h, g) \/ Precedes(g, h)
  BY <1>3 DEF Good, ReportsOK, Extends
<1>4. ASSUME NEW q \in Proc, NEW h \in S[q]
      PROVE  Justified(S, q, h)
  <2>1. CASE h \in R[q]
    BY <2>1, ReportFacts, JustifiedGrows
  <2>2. CASE h \notin R[q]
    BY <2>2 DEF Extends
  <2> QED BY <2>1, <2>2
<1>5. ASSUME NEW q \in Proc, NEW h \in S[q], h.accept_round = q
      PROVE  Safe(S, q, h.v) /\ (GraphSeparates => FastSafe(S, h.v))
  <2>1. CASE h \in R[q]
    <3>1. Safe(R, q, h.v) /\ (GraphSeparates => FastSafe(R, h.v))
      BY <2>1, <1>5 DEF Good, ReportsOK
    <3> QED BY <3>1, SafeGrows, FastSafeGrows
  <2>2. CASE h \notin R[q]
    BY <2>2, <1>5 DEF Extends
  <2> QED BY <2>1, <2>2
<1> QED BY <1>1, <1>2, <1>3, <1>4, <1>5 DEF Good, ReportsOK

\* p adds the reports G, all of them after the last one it had.
LEMMA AddingExtends ==
  ASSUME NEW R, Good(R), NEW p \in Proc, NEW m \in NodeStates, \A h \in R[p] : Precedes(h, m),
         NEW G \in SUBSET NodeStates, \A g \in G : Precedes(m, g),
         NEW S, S = [R EXCEPT ![p] = @ \cup G]
  PROVE  Extends(R, S, p) /\ S[p] = R[p] \cup G
<1>1. S \in Reports /\ S[p] = R[p] \cup G /\ \A q \in Proc \ {p} : S[q] = R[q]
  BY DEF Good, Reports
<1>2. R \in Reports /\ R[p] \subseteq NodeStates
  BY DEF Good, Reports
<1>3. \A h \in R[p] : \A g \in G : Precedes(h, g)
  BY <1>2, PrecedesTransitive
<1>4. Extends(R, S, p)
  BY <1>1, <1>2, <1>3 DEF Extends
<1> QED BY <1>1, <1>4

\* Nothing new is an extension.
LEMMA NothingExtends ==
  ASSUME NEW R, Good(R), NEW p \in Proc
  PROVE  Extends(R, R, p)
BY DEF Good, Extends

\* As reports and the views of a census grow, no counted vote is lost.
LEMMA CountedGrows ==
  ASSUME NEW R, NEW S, NEW p \in Proc, Extends(R, S, p), NEW q \in Proc, NEW r \in RoundStates,
         NEW o \in RoundStates,
         \A s \in Proc : r.node_states[s].accept_round <= o.node_states[s].accept_round
  PROVE  /\ Counted(R, q, r) \subseteq Counted(S, q, o)
         /\ IsFiniteSet(Counted(R, q, r)) /\ IsFiniteSet(Counted(S, q, o))
         /\ Cardinality(Counted(R, q, r)) <= Cardinality(Counted(S, q, o))
         /\ Cardinality(Counted(R, q, r)) \in Nat /\ Cardinality(Counted(S, q, o)) \in Nat
<1>1. \A s \in Proc : /\ r.node_states[s].accept_round \in Int
                      /\ o.node_states[s].accept_round \in Int
  <2>1. \A s \in Proc : r.node_states[s] \in NodeStates /\ o.node_states[s] \in NodeStates
    BY DEF RoundStates
  <2> QED BY <2>1, Ranks
<1>2. q \in Int
  BY ProcIsNat
<1>3. Counted(R, q, r) \subseteq Counted(S, q, o)
  <2> SUFFICES ASSUME NEW s \in Counted(R, q, r) PROVE s \in Counted(S, q, o)
    OBVIOUS
  <2>1. s \in AliveReplicas /\ s \in Proc /\ r.node_states[s].accept_round >= q
        /\ \E h \in R[s] : h.accept_round = q
    BY ReplicasFinite DEF Counted
  <2>2. o.node_states[s].accept_round >= q
    BY <2>1, <1>1, <1>2
  <2> QED BY <2>1, <2>2 DEF Counted, Extends
<1>4. IsFiniteSet(Counted(S, q, o))
  BY ReplicasFinite, FS_Subset DEF Counted
<1> QED BY <1>3, <1>4, FS_Subset, FS_CardinalityType

\* A round without a conflict is as good with more reports.
LEMMA PlainGrows ==
  ASSUME NEW R, NEW S, NEW p \in Proc, Extends(R, S, p), NEW q \in Proc, NEW r, Plain(R, q, r)
  PROVE  Plain(S, q, r)
<1> SUFFICES ASSUME ~HasConflict(r, q), r # ClearRound
             PROVE  \E a \in Proc : \E v \in Uid :
                      /\ r.proposers = {a}
                      /\ Mine(r, q) = At(v, a, q, r.propagation_states[a])
                      /\ \A s \in Proc : /\ r.node_states[s].accept_round = None
                                         /\ r.node_states[s].k_proposer \in {None, a}
                      /\ \A id \in r.received_msgs : \A s \in Proc : BuildRemoteState(v, id, s) \in S[s]
  BY DEF Plain
<1>1. PICK a \in Proc : \E v \in Uid :
         /\ r.proposers = {a}
         /\ Mine(r, q) = At(v, a, q, r.propagation_states[a])
         /\ \A s \in Proc : /\ r.node_states[s].accept_round = None
                            /\ r.node_states[s].k_proposer \in {None, a}
         /\ \A id \in r.received_msgs : \A s \in Proc : BuildRemoteState(v, id, s) \in R[s]
  BY DEF Plain
<1>2. PICK v \in Uid :
         /\ r.proposers = {a}
         /\ Mine(r, q) = At(v, a, q, r.propagation_states[a])
         /\ \A s \in Proc : /\ r.node_states[s].accept_round = None
                            /\ r.node_states[s].k_proposer \in {None, a}
         /\ \A id \in r.received_msgs : \A s \in Proc : BuildRemoteState(v, id, s) \in R[s]
  BY <1>1
<1>3. \A id \in r.received_msgs : \A s \in Proc : BuildRemoteState(v, id, s) \in S[s]
  BY <1>2 DEF Extends
<1> QED BY <1>2, <1>3

\* What is known of the proposers remains known.
LEMMA KnownGrows ==
  ASSUME NEW R, NEW S, NEW p \in Proc, Extends(R, S, p), NEW r \in RoundStates, Known(R, r)
  PROVE  Known(S, r)
<1>1. r.proposers \subseteq Proc
  BY DEF RoundStates
<1> QED BY <1>1 DEF Known, Extends

\* What p adds changes nothing for the others.
LEMMA OthersRoundOK ==
  ASSUME NEW R, NEW S, NEW p \in Proc, Extends(R, S, p), NEW q \in Proc, q # p,
         NEW r \in RoundStates, RoundOK(R, q, r)
  PROVE  RoundOK(S, q, r)
<1>1. \A s \in Proc : r.node_states[s].accept_round <= r.node_states[s].accept_round
  <2>1. \A s \in Proc : r.node_states[s] \in NodeStates
    BY DEF RoundStates
  <2> QED BY <2>1, Ranks
<1>2. r.paxos_accept_count \in Nat
  BY DEF RoundStates
<1>3. r.paxos_accept_count <= Cardinality(Counted(S, q, r))
  <2>1. r.paxos_accept_count <= Cardinality(Counted(R, q, r))
    BY DEF RoundOK
  <2> QED BY <2>1, <1>1, <1>2, CountedGrows
<1>4. S[q] = R[q] /\ \A s \in Proc : R[s] \subseteq S[s]
  BY DEF Extends
<1> QED BY <1>3, <1>4, PlainGrows, KnownGrows DEF RoundOK

-----------------------------------------------------------------------------
(* Rounds *)

\* A round that starts.
LEMMA ClearRoundOK ==
  ASSUME NEW R, Good(R), NEW p \in Proc, R[p] = {EmptyNode}
  PROVE  RoundOK(R, p, ClearRound)
<1>1. \A q \in Proc : ClearRound.node_states[q] = EmptyNode
  BY DEF ClearRound
<1>2. /\ ClearRound.proposers = {} /\ ClearRound.received_msgs = {}
      /\ ClearRound.paxos_accept_count = 0
      /\ \A a \in Proc : ClearRound.propagation_states[a] = 0
  BY DEF ClearRound
<1>3. \A q \in Proc : EmptyNode \in R[q]
  BY DEF Good, ReportsOK
<1>4. Precedes(EmptyNode, EmptyNode)
  BY EmptyNodeType, PrecedesReflexive
<1>5. ASSUME NEW a \in Proc, NEW u \in StateIds(a, p), u <= 0
      PROVE  State(a, p, u).dependencies = {}
  <2>1. u \in Nat
    BY PlanFacts
  <2>2. u = 0
    BY <1>5, <2>1
  <2>3. StartsFromNothing(a, p)
    BY PlanFacts
  <2> QED BY <2>2, <2>3 DEF StartsFromNothing
<1>6. Known(R, ClearRound)
  BY <1>1, <1>2, EmptyNodeFields DEF Known
<1>7. Plain(R, p, ClearRound)
  BY DEF Plain
<1>8. 0 <= Cardinality(Counted(R, p, ClearRound))
  <2>1. IsFiniteSet(Counted(R, p, ClearRound))
    BY ReplicasFinite, FS_Subset DEF Counted
  <2> QED BY <2>1, FS_CardinalityType
<1> QED BY <1>1, <1>2, <1>3, <1>4, <1>5, <1>6, <1>7, <1>8 DEF RoundOK, Mine

\* Promising a later leader.
LEMMA PromisedReport ==
  ASSUME NEW R, Good(R), NEW q \in Proc, NEW h \in R[q], NEW x \in AliveReplicas \cup {None},
         x >= h.prepared_for, NEW n, n = [h EXCEPT !.prepared_for = x]
  PROVE  /\ n \in NodeStates /\ Precedes(h, n) /\ Justified(R, q, n)
         /\ n.prepared_for = x /\ n.v = h.v /\ n.k_proposer = h.k_proposer
         /\ n.k_state = h.k_state /\ n.accept_round = h.accept_round
         /\ n.accept_round = q => Safe(R, q, n.v) /\ (GraphSeparates => FastSafe(R, n.v))
<1>1. h \in NodeStates /\ Sound(q, h) /\ Justified(R, q, h)
  BY ReportFacts
<1>2. x \in OptProc /\ x \in Int
  BY ReplicasFinite, ProcIsNat DEF OptProc, None
<1>3. /\ n \in NodeStates
      /\ n.prepared_for = x /\ n.v = h.v /\ n.k_proposer = h.k_proposer
      /\ n.k_state = h.k_state /\ n.accept_round = h.accept_round
  BY <1>1, <1>2 DEF NodeStates
<1>4. Precedes(h, n)
  <2>1. h.accept_round \in Int /\ h.prepared_for \in Int /\ h.k_state \in Nat
    BY <1>1, Ranks
  <2> QED BY <2>1, <1>2, <1>3 DEF Precedes
<1>5. IsFrozen(h) => IsFrozen(n)
  <2>1. h.prepared_for \in Int /\ h.prepared_for >= None
    BY <1>1, Ranks
  <2> QED BY <2>1, <1>2, <1>3 DEF IsFrozen, None
<1>6. Sound(q, n)
  <2>1. h.accept_round \in Int /\ h.prepared_for \in Int
    BY <1>1, Ranks
  <2>2. n.accept_round <= n.prepared_for
    BY <2>1, <1>1, <1>2, <1>3 DEF Sound
  <2> QED BY <2>2, <1>1, <1>3, <1>5 DEF Sound
<1>7. Justified(R, q, n)
  BY <1>1, <1>3, <1>6 DEF Justified
<1>8. n.accept_round = q => Safe(R, q, n.v) /\ (GraphSeparates => FastSafe(R, n.v))
  BY <1>3 DEF Good, ReportsOK
<1> QED BY <1>3, <1>4, <1>7, <1>8

\* Adding one report.
LEMMA AddLast ==
  ASSUME NEW R, Good(R), NEW p \in Proc, NEW n \in NodeStates, \A h \in R[p] : Precedes(h, n),
         NEW S, S = [R EXCEPT ![p] = @ \cup {n}],
         Extends(R, S, p) => Justified(S, p, n),
         Extends(R, S, p) /\ n.accept_round = p =>
           Safe(S, p, n.v) /\ (GraphSeparates => FastSafe(S, n.v))
  PROVE  Extends(R, S, p) /\ S[p] = R[p] \cup {n} /\ Good(S) /\ \A h \in S[p] : Precedes(h, n)
<1>1. Extends(R, S, p) /\ S[p] = R[p] \cup {n}
  <2>1. R \in Reports /\ S \in Reports /\ S[p] = R[p] \cup {n} /\ \A q \in Proc \ {p} : S[q] = R[q]
    BY DEF Good, Reports
  <2> QED BY <2>1 DEF Extends
<1>2. \A h \in S[p] : Precedes(h, n)
  BY <1>1, PrecedesReflexive
<1>3. Good(S)
  <2>1. \A g \in S[p] \ R[p] : g = n
    BY <1>1
  <2>2. \A g, h \in S[p] \ R[p] : Precedes(g, h) \/ Precedes(h, g)
    BY <2>1, PrecedesReflexive
  <2>3. \A g \in S[p] \ R[p] : Justified(S, p, g)
    BY <1>1, <2>1
  <2>4. \A g \in S[p] \ R[p] : g.accept_round = p =>
           Safe(S, p, g.v) /\ (GraphSeparates => FastSafe(S, g.v))
    BY <1>1, <2>1
  <2> QED BY <1>1, <2>2, <2>3, <2>4, ExtendsGood
<1> QED BY <1>1, <1>2, <1>3

\* One more report, not before a view that nothing reported comes after.
LEMMA AddOne ==
  ASSUME NEW R, Good(R), NEW p \in Proc, NEW m \in NodeStates, \A h \in R[p] : Precedes(h, m),
         NEW n \in NodeStates, Precedes(m, n), NEW S, S = [R EXCEPT ![p] = @ \cup {n}],
         Extends(R, S, p) => Justified(S, p, n),
         Extends(R, S, p) /\ n.accept_round = p =>
           Safe(S, p, n.v) /\ (GraphSeparates => FastSafe(S, n.v))
  PROVE  Extends(R, S, p) /\ S[p] = R[p] \cup {n} /\ Good(S) /\ \A h \in S[p] : Precedes(h, n)
<1>1. \A h \in R[p] : h \in NodeStates
  BY DEF Good, Reports
<1>2. \A h \in R[p] : Precedes(h, n)
  BY <1>1, PrecedesTransitive
<1>3. Extends(R, S, p)
  BY <1>2, AddLast
<1>4. S[p] = R[p] \cup {n}
  BY DEF Good, Reports
<1>5. Good(S)
  BY <1>2, AddLast
<1>6. \A h \in S[p] : Precedes(h, n)
  BY <1>2, AddLast
<1> QED BY <1>3, <1>4, <1>5, <1>6

-----------------------------------------------------------------------------
(* Taking in a census *)

\* Taking in views that were reported keeps a round sound, and brings it up to date.
LEMMA MergeOK ==
  ASSUME NEW R, Good(R), NEW p \in Proc, NEW r \in RoundStates, RoundOK(R, p, r),
         NEW incoming \in [Proc -> NodeStates], \A q \in Proc : incoming[q] \in R[q],
         \A q, a \in Proc : incoming[q].k_proposer = a => incoming[a].v # NoV,
         NEW o, o = UpdateRemoteStates(r, incoming)
  PROVE  /\ o \in RoundStates /\ Mine(o, p) = Mine(r, p) /\ Known(R, o)
         /\ p \notin NewerThanOurs(r, incoming)
         /\ r.proposers \subseteq o.proposers
         /\ o.propagation_states = r.propagation_states
         /\ o.received_msgs = r.received_msgs
         /\ o.paxos_accept_count = r.paxos_accept_count
         /\ \A q \in Proc : /\ o.node_states[q] \in R[q]
                            /\ o.node_states[q] \in {r.node_states[q], incoming[q]}
                            /\ Precedes(r.node_states[q], o.node_states[q])
                            /\ Precedes(incoming[q], o.node_states[q])
                            /\ incoming[q].k_proposer \in o.proposers \cup {None}
                                 \/ o.node_states[q] = r.node_states[q]
<1> DEFINE newer == NewerThanOurs(r, incoming)
<1>1. o \in RoundStates
  BY UpdateRemoteStatesType
<1>2. /\ o.node_states = [q \in Proc |-> IF q \in newer THEN incoming[q] ELSE r.node_states[q]]
      /\ o.proposers = r.proposers \cup ({incoming[q].k_proposer : q \in newer} \ {None})
      /\ o.propagation_states = r.propagation_states
      /\ o.received_msgs = r.received_msgs
      /\ o.paxos_accept_count = r.paxos_accept_count
  BY DEF UpdateRemoteStates, RoundStates
<1>3. \A q \in Proc : r.node_states[q] \in R[q] /\ r.node_states[q] \in NodeStates
  BY DEF RoundOK, RoundStates
<1>4. newer \subseteq Proc /\ \A q \in Proc : q \in newer <=> Newer(incoming[q], r.node_states[q])
  BY DEF NewerThanOurs
<1>5. p \notin newer
  BY <1>3, <1>4, PrecedesNotNewer DEF RoundOK, Mine
<1> HIDE DEF newer
<1>6. ASSUME NEW q \in Proc
      PROVE  /\ o.node_states[q] \in R[q]
             /\ o.node_states[q] \in {r.node_states[q], incoming[q]}
             /\ Precedes(r.node_states[q], o.node_states[q])
             /\ Precedes(incoming[q], o.node_states[q])
             /\ incoming[q].k_proposer \in o.proposers \cup {None}
                  \/ o.node_states[q] = r.node_states[q]
  <2>1. Precedes(r.node_states[q], incoming[q]) \/ Precedes(incoming[q], r.node_states[q])
    BY <1>3, ReportsOrdered
  <2>2. CASE q \in newer
    <3>1. o.node_states[q] = incoming[q]
      BY <2>2, <1>2
    <3>2. Precedes(r.node_states[q], incoming[q])
      BY <2>1, <2>2, <1>3, <1>4, NewerIsLater
    <3>3. incoming[q].k_proposer \in o.proposers \cup {None}
      BY <2>2, <1>2
    <3> QED BY <3>1, <3>2, <3>3, PrecedesReflexive
  <2>3. CASE q \notin newer
    <3>1. o.node_states[q] = r.node_states[q]
      BY <2>3, <1>2
    <3>2. Sound(q, incoming[q]) /\ Sound(q, r.node_states[q])
      BY <1>3, ReportFacts
    <3>3. Precedes(incoming[q], r.node_states[q])
      BY <2>1, <2>3, <3>2, <1>3, <1>4, NotNewerIsEarlier
    <3> QED BY <3>1, <3>3, <1>3, PrecedesReflexive
  <2> QED BY <2>2, <2>3
<1>7. Known(R, o)
  <2>1. ASSUME NEW q \in Proc PROVE o.node_states[q].k_proposer \in o.proposers \cup {None}
    <3>1. r.node_states[q].k_proposer \in r.proposers \cup {None}
      BY DEF RoundOK, Known
    <3>2. q \in newer => incoming[q].k_proposer \in o.proposers \cup {None}
      BY <1>2
    <3> QED BY <3>1, <3>2, <1>2
  <2>2. ASSUME NEW a \in o.proposers
        PROVE  o.node_states[a].v # NoV /\ \E h \in R[a] : h.k_proposer = a
    <3>0. a \in Proc
      BY <1>1 DEF RoundStates
    <3>1. Sound(a, o.node_states[a]) /\ o.node_states[a] \in NodeStates
      BY <3>0, <1>6, ReportFacts
    <3>2. CASE a \in r.proposers
      <4>1. r.node_states[a].v # NoV /\ \E h \in R[a] : h.k_proposer = a
        BY <3>2 DEF RoundOK, Known
      <4> QED BY <4>1, <3>0, <3>1, <1>3, <1>6, CommandStays
    <3>3. CASE a \notin r.proposers
      <4>1. PICK q \in newer : a = incoming[q].k_proposer /\ a # None
        BY <3>3, <1>2
      <4>2. q \in Proc
        BY <4>1, <1>4
      <4>3. incoming[a].v # NoV
        BY <4>1, <4>2, <3>0
      <4>4. o.node_states[a].v # NoV
        BY <4>3, <3>0, <3>1, <1>6, CommandStays
      <4>5. At(incoming[q].v, a, a, 0) \in R[a] /\ incoming[q].v \in Uid
        BY <4>1, <4>2, AcceptedFacts
      <4>6. At(incoming[q].v, a, a, 0).k_proposer = a
        BY <3>0, <4>5, AtFields
      <4> QED BY <4>4, <4>5, <4>6
    <3> QED BY <3>2, <3>3
  <2> QED BY <2>1, <2>2 DEF Known
<1>8. Mine(o, p) = Mine(r, p)
  BY <1>2, <1>5 DEF Mine
<1> QED BY <1>1, <1>2, <1>5, <1>6, <1>7, <1>8 DEF newer

-----------------------------------------------------------------------------
(* Walking a schedule *)

\* The states reached are those past the last one, up to the highest.
LEMMA ReachedFacts ==
  ASSUME NEW r \in RoundStates, NEW p \in Proc, NEW a \in Proc, Reached(r, p, a) # {}
  PROVE  /\ Highest(Reached(r, p, a)) \in Reached(r, p, a)
         /\ Highest(Reached(r, p, a)) \in StateIds(a, p) /\ Highest(Reached(r, p, a)) \in Nat
         /\ r.propagation_states[a] < Highest(Reached(r, p, a))
         /\ Highest(Reached(r, p, a)) > 0
         /\ \A t \in Reached(r, p, a) : t \in StateIds(a, p) /\ t > 0 /\ t <= Highest(Reached(r, p, a))
         /\ \A u \in StateIds(a, p) :
              u <= Highest(Reached(r, p, a)) =>
                u \in Reached(r, p, a) \/ u <= r.propagation_states[a]
<1> DEFINE T == Reached(r, p, a)
<1>1. T \subseteq StateIds(a, p) /\ T \subseteq Nat /\ StateIds(a, p) \subseteq Nat
  BY ReachedType, PlanFacts
<1>2. \A x \in T : x <= FinalStateId(a, p)
  BY <1>1, FinalStateExists
<1>3. FinalStateId(a, p) \in Int /\ T \subseteq Int
  BY <1>1, LastState
<1>4. T # {}
  OBVIOUS
<1>5. r.propagation_states[a] \in Nat
  BY DEF RoundStates
<1>6. \A t \in T : t > r.propagation_states[a] /\ \A u \in StateIds(a, p) :
        (r.propagation_states[a] < u /\ u <= t) => State(a, p, u).dependencies \subseteq r.received_msgs
  BY DEF Reached
<1>7. \A t \in StateIds(a, p) :
        (t > r.propagation_states[a] /\ \A u \in StateIds(a, p) :
          (r.propagation_states[a] < u /\ u <= t) => State(a, p, u).dependencies \subseteq r.received_msgs)
        => t \in T
  BY DEF Reached
<1> HIDE DEF T
<1>8. Highest(T) \in T /\ \A y \in T : y <= Highest(T)
  BY <1>2, <1>3, <1>4, BoundedHasHighest
<1>9. ASSUME NEW u \in StateIds(a, p), u <= Highest(T), ~(u <= r.propagation_states[a])
      PROVE  u \in T
  <2>0. u \in Nat /\ Highest(T) \in Nat
    BY <1>1, <1>8
  <2>1. u \in Nat /\ Highest(T) \in Nat /\ u > r.propagation_states[a]
    BY <2>0, <1>5, <1>9
  <2>2. ASSUME NEW w \in StateIds(a, p), r.propagation_states[a] < w, w <= u
        PROVE  State(a, p, w).dependencies \subseteq r.received_msgs
    <3>1. w \in Nat
      BY <1>1
    <3>2. w <= Highest(T)
      BY <2>1, <2>2, <1>9, <3>1
    <3> QED BY <3>2, <2>2, <1>6, <1>8
  <2> QED BY <2>1, <2>2, <1>7
<1>10. \A t \in T : t \in StateIds(a, p) /\ t > 0 /\ t <= Highest(T)
  BY <1>1, <1>5, <1>6, <1>8
<1>11. Highest(T) > 0 /\ r.propagation_states[a] < Highest(T) /\ Highest(T) \in StateIds(a, p) /\ Highest(T) \in Nat
  BY <1>1, <1>6, <1>8, <1>10
<1> QED BY <1>8, <1>9, <1>10, <1>11 DEF T

\* What was waited for in the states entered has been received.
LEMMA ReachedDeps ==
  ASSUME NEW r \in RoundStates, NEW p \in Proc, NEW a \in Proc, Reached(r, p, a) # {},
         \A c \in Proc : \A u \in StateIds(c, p) :
           u <= r.propagation_states[c] => State(c, p, u).dependencies \subseteq r.received_msgs
  PROVE  \A c \in Proc : \A u \in StateIds(c, p) :
           u <= Replace(r.propagation_states, a, Highest(Reached(r, p, a)))[c] =>
             State(c, p, u).dependencies \subseteq r.received_msgs
<1> SUFFICES ASSUME NEW c \in Proc, NEW u \in StateIds(c, p),
                    u <= Replace(r.propagation_states, a, Highest(Reached(r, p, a)))[c]
             PROVE  State(c, p, u).dependencies \subseteq r.received_msgs
  OBVIOUS
<1>1. CASE c # a
  BY <1>1 DEF Replace
<1>2. CASE c = a
  <2>1. u <= Highest(Reached(r, p, a))
    BY <1>2 DEF Replace
  <2>2. CASE u <= r.propagation_states[a]
    BY <1>2, <2>2
  <2>3. CASE u \in Reached(r, p, a)
    <3>0. u \in Nat
      BY PlanFacts
    <3>1. u > r.propagation_states[a] /\ u <= u
      BY <3>0, <2>3 DEF Reached
    <3> QED BY <1>2, <2>3, <3>1 DEF Reached
  <2> QED BY <1>2, <2>1, <2>2, <2>3, ReachedFacts
<1> QED BY <1>1, <1>2

-----------------------------------------------------------------------------
(* Noting a message *)

\* A process that reports more stays right about what it counted.
LEMMA RoundUpdated ==
  ASSUME NEW R, NEW S, NEW p \in Proc, Extends(R, S, p), NEW r \in RoundStates, RoundOK(R, p, r),
         NEW n \in RoundStates,
         \A q \in Proc : n.node_states[q] \in S[q],
         \A q \in Proc : Precedes(r.node_states[q], n.node_states[q]),
         \A h \in S[p] : Precedes(h, Mine(n, p)),
         \A c \in Proc : \A u \in StateIds(c, p) :
           u <= n.propagation_states[c] => State(c, p, u).dependencies \subseteq n.received_msgs,
         Known(S, n), Plain(S, p, n), n.paxos_accept_count = r.paxos_accept_count
  PROVE  RoundOK(S, p, n)
<1>1. \A q \in Proc : r.node_states[q].accept_round <= n.node_states[q].accept_round
  BY DEF Precedes
<1>2. r.paxos_accept_count \in Nat /\ r.paxos_accept_count <= Cardinality(Counted(R, p, r))
  BY DEF RoundOK, RoundStates
<1>3. /\ Cardinality(Counted(R, p, r)) <= Cardinality(Counted(S, p, n))
      /\ Cardinality(Counted(R, p, r)) \in Nat /\ Cardinality(Counted(S, p, n)) \in Nat
  BY <1>1, CountedGrows
<1>4. n.paxos_accept_count <= Cardinality(Counted(S, p, n))
  BY <1>2, <1>3
<1> QED BY <1>4 DEF RoundOK

\* What a census leaves of the round it came to.
Merged(R, p, r, o) ==
  /\ o \in RoundStates /\ Mine(o, p) = Mine(r, p) /\ Known(R, o)
  /\ o.propagation_states = r.propagation_states
  /\ o.received_msgs = r.received_msgs
  /\ o.paxos_accept_count = r.paxos_accept_count
  /\ \A q \in Proc : o.node_states[q] \in R[q] /\ Precedes(r.node_states[q], o.node_states[q])

\* The promise that a conflict brings about.
LEMMA PromisesHighest ==
  ASSUME NEW R, Good(R), NEW p \in Proc, NEW o \in RoundStates, Mine(o, p) \in R[p],
         NEW x, x = Highest(Leaders(o) \cup {Mine(o, p).prepared_for})
  PROVE  x \in AliveReplicas \cup {None} /\ x >= Mine(o, p).prepared_for
<1> DEFINE L == Leaders(o) \cup {Mine(o, p).prepared_for}
<1>1. Mine(o, p).prepared_for \in AliveReplicas \cup {None}
  BY ReportFacts DEF Sound
<1>2. Leaders(o) \subseteq AliveReplicas
  BY PlanFacts DEF Leaders, RoundStates
<1>3. L \subseteq AliveReplicas \cup {None} /\ L \subseteq OptProc /\ L # {}
  BY <1>1, <1>2, ReplicasFinite DEF OptProc
<1>4. x = Highest(L) /\ Mine(o, p).prepared_for \in L
  OBVIOUS
<1> HIDE DEF L
<1>5. x \in L /\ \A y \in L : y <= x
  BY <1>3, <1>4, HighestLeader
<1>6. x \in Int /\ Mine(o, p).prepared_for \in Int
  BY <1>3, <1>4, <1>5, ProcIsNat DEF OptProc, None
<1> QED BY <1>3, <1>4, <1>5, <1>6

\* Freezing for the leaders of the proposers in conflict adds one report.
LEMMA NotedInConflict ==
  ASSUME NEW R, Good(R), NEW p \in Proc, NEW r \in RoundStates, RoundOK(R, p, r),
         NEW o, Merged(R, p, r, o), HasConflict(o, p), NEW id \in MessageId,
         NEW n, n = [FreezeAndPrepareForLeaders(o, p) EXCEPT !.received_msgs = @ \cup {id}],
         NEW S, S = [R EXCEPT ![p] = @ \cup {Mine(n, p)}]
  PROVE  /\ Extends(R, S, p) /\ Good(S)
         /\ n \in RoundStates /\ RoundOK(S, p, n) /\ HasConflict(n, p)
         /\ n.propagation_states = r.propagation_states
         /\ n.received_msgs = r.received_msgs \cup {id}
<1> DEFINE x == Highest(Leaders(o) \cup {Mine(o, p).prepared_for})
           z == [Mine(o, p) EXCEPT !.prepared_for = x]
<1>1. /\ o \in RoundStates /\ Mine(o, p) = Mine(r, p) /\ Mine(o, p) \in R[p] /\ Mine(o, p) \in NodeStates
      /\ \A h \in R[p] : Precedes(h, Mine(o, p))
  BY MineType DEF Merged, RoundOK, Mine
<1>2. x \in AliveReplicas \cup {None} /\ x >= Mine(o, p).prepared_for
  BY <1>1, PromisesHighest
<1>3. /\ z \in NodeStates /\ Precedes(Mine(o, p), z) /\ Justified(R, p, z)
      /\ z.v = Mine(o, p).v /\ z.k_proposer = Mine(o, p).k_proposer
      /\ z.accept_round = Mine(o, p).accept_round
      /\ z.accept_round = p => Safe(R, p, z.v) /\ (GraphSeparates => FastSafe(R, z.v))
  <2> HIDE DEF x
  <2> QED BY <1>1, <1>2, PromisedReport
<1>4. n = [SetMine(o, p, z) EXCEPT !.received_msgs = @ \cup {id}]
  BY DEF FreezeAndPrepareForLeaders
<1> HIDE DEF x, z
<1>5. /\ SetMine(o, p, z) \in RoundStates
      /\ SetMine(o, p, z).node_states = Replace(o.node_states, p, z)
      /\ SetMine(o, p, z).paxos_accept_count = o.paxos_accept_count
      /\ SetMine(o, p, z).proposers = o.proposers
      /\ SetMine(o, p, z).propagation_states = o.propagation_states
      /\ SetMine(o, p, z).received_msgs = o.received_msgs
  BY <1>1, <1>3, SetMineType DEF SetMine, RoundStates
<1>6. /\ n \in RoundStates
      /\ n.node_states = Replace(o.node_states, p, z)
      /\ n.paxos_accept_count = o.paxos_accept_count
      /\ n.proposers = o.proposers
      /\ n.propagation_states = o.propagation_states
      /\ n.received_msgs = o.received_msgs \cup {id}
  <2> DEFINE y == SetMine(o, p, z)
  <2>1. y \in RoundStates /\ n = [y EXCEPT !.received_msgs = @ \cup {id}]
    BY <1>4, <1>5
  <2> HIDE DEF y
  <2>0. y.received_msgs \cup {id} \in SUBSET MessageId
    BY <2>1 DEF RoundStates
  <2>2. /\ n \in RoundStates /\ n.node_states = y.node_states /\ n.proposers = y.proposers
        /\ n.paxos_accept_count = y.paxos_accept_count
        /\ n.propagation_states = y.propagation_states
        /\ n.received_msgs = y.received_msgs \cup {id}
    BY <2>0, <2>1 DEF RoundStates
  <2> QED BY <2>2, <1>5 DEF y
<1>7. /\ Mine(n, p) = z
      /\ \A q \in Proc : n.node_states[q] = IF q = p THEN z ELSE o.node_states[q]
  BY <1>6 DEF Mine, Replace
<1>8. Extends(R, S, p) /\ S[p] = R[p] \cup {z} /\ Good(S) /\ \A h \in S[p] : Precedes(h, z)
  <2>1. Extends(R, S, p) => Justified(S, p, z)
    BY <1>3, JustifiedGrows
  <2>2. Extends(R, S, p) /\ z.accept_round = p =>
          Safe(S, p, z.v) /\ (GraphSeparates => FastSafe(S, z.v))
    BY <1>3, SafeGrows, FastSafeGrows
  <2>3. S = [R EXCEPT ![p] = @ \cup {z}]
    BY <1>7
  <2> QED BY <1>1, <1>3, <2>1, <2>2, <2>3, AddOne
<1>9. HasConflict(n, p)
  BY <1>3, <1>6, <1>7 DEF HasConflict
<1>10. Known(S, n)
  <2>1. Known(S, o)
    BY <1>1, <1>8, KnownGrows DEF Merged
  <2>2. n.proposers \subseteq Proc /\ n.proposers = o.proposers
    BY <1>6 DEF RoundStates
  <2>3. \A q \in Proc : /\ n.node_states[q].v = o.node_states[q].v
                       /\ n.node_states[q].k_proposer = o.node_states[q].k_proposer
    BY <1>3, <1>7 DEF Mine
  <2> QED BY <2>1, <2>2, <2>3 DEF Known
<1>11. \A q \in Proc : n.node_states[q] \in S[q] /\ Precedes(r.node_states[q], n.node_states[q])
  <2>1. \A q \in Proc : o.node_states[q] \in S[q] /\ Precedes(r.node_states[q], o.node_states[q])
    BY <1>8 DEF Merged, Extends
  <2>2. Precedes(r.node_states[p], z)
    BY <1>1, <1>3 DEF Mine
  <2> QED BY <2>1, <2>2, <1>7, <1>8
<1>12. \A c \in Proc : \A u \in StateIds(c, p) :
         u <= n.propagation_states[c] => State(c, p, u).dependencies \subseteq n.received_msgs
  BY <1>6 DEF Merged, RoundOK
<1>13. Plain(S, p, n)
  BY <1>9 DEF Plain
<1>14. n.paxos_accept_count = r.paxos_accept_count
  BY <1>6 DEF Merged
<1>15. RoundOK(S, p, n)
  <2>1. \A q \in Proc : n.node_states[q] \in S[q]
    BY <1>11
  <2>2. \A q \in Proc : Precedes(r.node_states[q], n.node_states[q])
    BY <1>11
  <2>3. \A h \in S[p] : Precedes(h, Mine(n, p))
    BY <1>7, <1>8
  <2>4. Extends(R, S, p) /\ n \in RoundStates
    BY <1>6, <1>8
  <2>5. S = S /\ Extends(R, S, p) /\ RoundOK(R, p, r) /\ r \in RoundStates /\ n \in RoundStates
    BY <2>4
  <2> QED BY ONLY <2>1, <2>2, <2>3, <2>5, <1>10, <1>12, <1>13, <1>14, RoundUpdated, p \in Proc
<1> QED BY <1>6, <1>8, <1>9, <1>15 DEF Merged

-----------------------------------------------------------------------------
(* Following one proposer *)

\* What a plan says of q when it says nothing else.
Remote(id, q) == State(id.proposer, id.src, id.time).remote_states[q]

\* What a conflict-free message implies of q.
LEMMA BuildFacts ==
  ASSUME NEW v \in Uid, NEW id \in SpreadId, NEW q \in Proc
  PROVE  /\ Remote(id, q) \in StateIds(id.proposer, q) /\ Remote(id, q) \in Nat
         /\ id.proposer \in Proc /\ id.src \in Proc /\ id.dest \in Proc
         /\ BuildRemoteState(v, id, q) =
              IF Remote(id, q) > 0 \/ q = id.proposer
              THEN At(v, id.proposer, q, Remote(id, q)) ELSE EmptyNode
         /\ BuildRemoteState(v, id, q).accept_round = None
         /\ BuildRemoteState(v, id, q).k_proposer \in {None, id.proposer}
<1>1. /\ id.proposer \in Proc /\ id.src \in Proc /\ id.dest \in Proc
      /\ id.time \in StateIds(id.proposer, id.src)
  BY DEF SpreadId, MessageId
<1>2. Remote(id, q) \in StateIds(id.proposer, q)
  BY <1>1, GraphAssumption DEF GraphWellFormed, Remote
<1>3. Remote(id, q) \in Nat
  BY <1>1, <1>2, PlanFacts
<1>4. BuildRemoteState(v, id, q) =
        IF Remote(id, q) > 0 \/ q = id.proposer
        THEN At(v, id.proposer, q, Remote(id, q)) ELSE EmptyNode
  BY <1>3 DEF BuildRemoteState, Remote, At
<1>5. /\ At(v, id.proposer, q, Remote(id, q)).accept_round = None
      /\ At(v, id.proposer, q, Remote(id, q)).k_proposer = id.proposer
  BY <1>1, <1>3, AtFields
<1> QED BY <1>1, <1>2, <1>3, <1>4, <1>5, EmptyNodeFields

\* The views that the plan implies for a conflict-free Spread id of v.
Implied(v, id, incoming) == \A q \in Proc : incoming[q] = BuildRemoteState(v, id, q)

\* p follows a, and nobody else is known to do anything else.
Following(R, p, a, v, n) ==
  /\ n \in RoundStates /\ n.proposers = {a}
  /\ n.propagation_states[a] \in StateIds(a, p)
  /\ Mine(n, p) = At(v, a, p, n.propagation_states[a])
  /\ ~IsFrozen(Mine(n, p))
  /\ At(v, a, a, 0) \in R[a] /\ n.node_states[a].v # NoV
  /\ \A q \in Proc : /\ q # p => n.node_states[q] \in R[q]
                     /\ n.node_states[q].accept_round = None
                     /\ n.node_states[q].k_proposer \in {None, a}
  /\ \A id \in n.received_msgs : \A q \in Proc : BuildRemoteState(v, id, q) \in R[q]
  /\ \A c \in Proc : \A u \in StateIds(c, p) :
       u <= n.propagation_states[c] => State(c, p, u).dependencies \subseteq n.received_msgs
  /\ \A h \in R[p] : Precedes(h, Mine(n, p))
  /\ \/ Mine(n, p) \in R[p]
     \/ /\ p # a /\ n.propagation_states[a] = 0
        /\ \A h \in R[p] : Precedes(h, EmptyNode)
        /\ \E id \in n.received_msgs :
             /\ id \in SpreadId /\ id.proposer = a /\ id.dest = p
             /\ id \in State(id.proposer, id.src, id.time).needed_by

\* From round r.
Follows(R, p, r, a, v, n) ==
  /\ Following(R, p, a, v, n)
  /\ \A q \in Proc : Precedes(r.node_states[q], n.node_states[q])
  /\ n.paxos_accept_count = r.paxos_accept_count

\* Accepting v in o, and noting id.
FirstNoted(p, o, v, id) ==
  [[SetMine(o, p, At(v, id.proposer, p, 0)) EXCEPT !.proposers = @ \cup {id.proposer}]
     EXCEPT !.received_msgs = @ \cup {id}]

\* The first message of a slot.
LEMMA FollowsFirst ==
  ASSUME NEW R, Good(R), NEW p \in Proc, RoundOK(R, p, ClearRound),
         NEW v \in Uid, NEW id \in SpreadId, id.dest = p,
         id \in State(id.proposer, id.src, id.time).needed_by,
         NEW incoming, Implied(v, id, incoming),
         \A q \in Proc : incoming[q] \in R[q],
         NEW o, Merged(R, p, ClearRound, o),
         \A q \in Proc : /\ o.node_states[q] \in {EmptyNode, incoming[q]}
                         /\ Precedes(incoming[q], o.node_states[q]),
         o.proposers \subseteq {id.proposer},
         NEW n, n = FirstNoted(p, o, v, id), ~IsFrozen(Mine(n, p))
  PROVE  Follows(R, p, ClearRound, id.proposer, v, n)
<1> USE DEF FirstNoted
<1> DEFINE a == id.proposer
           e == At(v, a, p, 0)
<1>0. a \in Proc /\ 0 \in StateIds(a, p) /\ id \in MessageId
  BY BuildFacts, PlanFacts DEF SpreadId
<1>1. e \in NodeStates /\ e.v = v /\ e.k_proposer = a /\ e.accept_round = None
  BY <1>0, AtFields
<1>2. /\ ClearRound.propagation_states = [c \in Proc |-> 0]
      /\ ClearRound.received_msgs = {} /\ ClearRound.paxos_accept_count = 0
      /\ ClearRound.node_states = [c \in Proc |-> EmptyNode]
  BY DEF ClearRound
<1>3. /\ o \in RoundStates /\ Mine(o, p) = EmptyNode
      /\ o.propagation_states = [c \in Proc |-> 0]
      /\ o.received_msgs = {} /\ o.paxos_accept_count = 0
      /\ \A q \in Proc : o.node_states[q] \in R[q]
  BY <1>2 DEF Merged, Mine
<1>4. /\ SetMine(o, p, e) \in RoundStates
      /\ SetMine(o, p, e).node_states = Replace(o.node_states, p, e)
      /\ SetMine(o, p, e).paxos_accept_count = o.paxos_accept_count
      /\ SetMine(o, p, e).proposers = o.proposers
      /\ SetMine(o, p, e).propagation_states = o.propagation_states
      /\ SetMine(o, p, e).received_msgs = o.received_msgs
  BY <1>1, <1>3, SetMineType DEF SetMine, RoundStates
<1>5. /\ n \in RoundStates
      /\ n.node_states = Replace(o.node_states, p, e)
      /\ n.paxos_accept_count = 0 /\ n.proposers = {a}
      /\ n.propagation_states = [c \in Proc |-> 0]
      /\ n.received_msgs = {id}
  <2> DEFINE y == SetMine(o, p, e)
  <2>1. y \in RoundStates /\ n = [[y EXCEPT !.proposers = @ \cup {a}] EXCEPT !.received_msgs = @ \cup {id}]
    BY <1>4
  <2> HIDE DEF y, a
  <2>2. y.proposers \cup {a} \in SUBSET Proc /\ y.received_msgs \cup {id} \in SUBSET MessageId
    BY <1>0, <2>1 DEF RoundStates
  <2>3. /\ n \in RoundStates /\ n.node_states = y.node_states
        /\ n.proposers = y.proposers \cup {a}
        /\ n.paxos_accept_count = y.paxos_accept_count
        /\ n.propagation_states = y.propagation_states
        /\ n.received_msgs = y.received_msgs \cup {id}
    BY <2>1, <2>2 DEF RoundStates
  <2> QED BY <2>3, <1>3, <1>4 DEF y, a
<1>6. incoming[a] = At(v, a, a, Remote(id, a)) /\ Remote(id, a) \in Nat /\ incoming[a] \in R[a]
  BY <1>0, BuildFacts DEF Implied
<1>7. incoming[a].v = v /\ incoming[a].k_proposer = a /\ incoming[a].accept_round = None
      /\ incoming[a] \in NodeStates
  BY <1>0, <1>6, AtFields
<1>8. At(v, a, a, 0) \in R[a]
  BY <1>0, <1>6, <1>7, AcceptedFacts, NoneIsNobody
<1>9. \A h \in R[p] : Precedes(h, EmptyNode)
  BY <1>2 DEF RoundOK, Mine
<1>10. p # a
  <2> SUFFICES ASSUME p = a PROVE FALSE
    OBVIOUS
  <2>1. Precedes(incoming[a], EmptyNode)
    BY <1>6, <1>9
  <2> QED BY <2>1, <1>7, EmptyNodeFields, NoneIsNobody DEF Precedes
<1>11. \A q \in Proc : n.node_states[q] = IF q = p THEN e ELSE o.node_states[q]
  BY <1>5 DEF Replace
<1>12. Mine(n, p) = e
  BY <1>11 DEF Mine
<1>13. n.node_states[a].v # NoV
  <2>1. Sound(a, o.node_states[a]) /\ o.node_states[a] \in NodeStates
    BY <1>0, <1>3, ReportFacts
  <2> QED BY <1>0, <2>1, <1>7, <1>10, <1>11, CommandStays, NoneIsNobody
<1>14. ASSUME NEW q \in Proc
       PROVE  /\ q # p => n.node_states[q] \in R[q]
              /\ n.node_states[q].accept_round = None
              /\ n.node_states[q].k_proposer \in {None, a}
              /\ Precedes(EmptyNode, n.node_states[q])
  <2>1. incoming[q] = BuildRemoteState(v, id, q)
    BY DEF Implied
  <2>2. incoming[q].accept_round = None /\ incoming[q].k_proposer \in {None, a}
    BY <2>1, BuildFacts
  <2>3. n.node_states[q] \in NodeStates
    BY <1>5 DEF RoundStates
  <2>4. o.node_states[q] \in {EmptyNode, incoming[q]} /\ o.node_states[q] \in R[q]
    BY <1>3
  <2> QED BY <2>2, <2>3, <2>4, <1>1, <1>11, EmptyNodeFields, EmptyPrecedes
<1>15. \A s \in n.received_msgs : \A q \in Proc : BuildRemoteState(v, s, q) \in R[q]
  BY <1>5 DEF Implied
<1>16. ASSUME NEW c \in Proc, NEW u \in StateIds(c, p), u <= n.propagation_states[c]
       PROVE  State(c, p, u).dependencies \subseteq n.received_msgs
  BY <1>2, <1>5, <1>16 DEF RoundOK
<1>17. \A h \in R[p] : Precedes(h, e)
  <2>1. R[p] \subseteq NodeStates /\ EmptyNode \in NodeStates /\ Precedes(EmptyNode, e)
    BY <1>1, EmptyPrecedes, EmptyNodeType DEF Good, Reports
  <2> QED BY <2>1, <1>1, <1>9, PrecedesTransitive
<1>18. n.propagation_states[a] = 0
  BY <1>0, <1>5
<1>19. \E s \in n.received_msgs :
             /\ s \in SpreadId /\ s.proposer = a /\ s.dest = p
             /\ s \in State(s.proposer, s.src, s.time).needed_by
  BY <1>5
<1> HIDE DEF a
<1>20. Following(R, p, a, v, n)
  BY <1>0, <1>5, <1>8, <1>9, <1>10, <1>12, <1>13, <1>14, <1>15, <1>16, <1>17, <1>18, <1>19
     DEF Following
<1>21. \A q \in Proc : ClearRound.node_states[q] = EmptyNode
  BY <1>2
<1> QED BY <1>2, <1>5, <1>14, <1>20, <1>21 DEF a, Follows

\* A later message of the same proposer.
LEMMA FollowsOn ==
  ASSUME NEW R, Good(R), NEW p \in Proc, NEW r \in RoundStates, RoundOK(R, p, r),
         NEW v \in Uid, NEW id \in SpreadId,
         NEW incoming, Implied(v, id, incoming),
         \A q \in Proc : incoming[q] \in R[q],
         NEW o, Merged(R, p, r, o), r.proposers \subseteq o.proposers,
         \A q \in Proc : /\ o.node_states[q] \in {r.node_states[q], incoming[q]}
                         /\ Precedes(incoming[q], o.node_states[q])
                         /\ incoming[q].k_proposer \in o.proposers \cup {None}
                              \/ o.node_states[q] = r.node_states[q],
         ~HasConflict(o, p), ~IsFrozen(Mine(o, p)), Mine(o, p).v # NoV,
         NEW n, n = [o EXCEPT !.received_msgs = @ \cup {id}]
  PROVE  Follows(R, p, r, id.proposer, v, n)
<1> DEFINE a == id.proposer
<1>0. a \in Proc /\ id \in MessageId
  BY BuildFacts DEF SpreadId
<1>1. /\ o \in RoundStates /\ Mine(o, p) = Mine(r, p) /\ Known(R, o)
      /\ \A q \in Proc : o.node_states[q] \in R[q] /\ Precedes(r.node_states[q], o.node_states[q])
  BY DEF Merged
<1>2. /\ n \in RoundStates /\ n.node_states = o.node_states /\ n.proposers = o.proposers
      /\ n.paxos_accept_count = r.paxos_accept_count
      /\ n.propagation_states = r.propagation_states
      /\ n.received_msgs = r.received_msgs \cup {id}
  <2>1. o.received_msgs \cup {id} \in SUBSET MessageId
    BY <1>0, <1>1 DEF RoundStates
  <2>2. /\ n \in RoundStates /\ n.node_states = o.node_states /\ n.proposers = o.proposers
        /\ n.paxos_accept_count = o.paxos_accept_count
        /\ n.propagation_states = o.propagation_states
        /\ n.received_msgs = o.received_msgs \cup {id}
    BY <1>1, <2>1 DEF RoundStates
  <2> QED BY <2>2 DEF Merged
<1>3. ~HasConflict(r, p)
  BY <1>1 DEF HasConflict
<1>4. r # ClearRound
  BY <1>1, EmptyNodeFields DEF ClearRound, Mine
<1>5. PICK b \in Proc : \E w \in Uid :
         /\ r.proposers = {b}
         /\ Mine(r, p) = At(w, b, p, r.propagation_states[b])
         /\ \A q \in Proc : /\ r.node_states[q].accept_round = None
                            /\ r.node_states[q].k_proposer \in {None, b}
         /\ \A s \in r.received_msgs : \A q \in Proc : BuildRemoteState(w, s, q) \in R[q]
  BY <1>3, <1>4 DEF RoundOK, Plain
<1>6. PICK w \in Uid :
         /\ r.proposers = {b}
         /\ Mine(r, p) = At(w, b, p, r.propagation_states[b])
         /\ \A q \in Proc : /\ r.node_states[q].accept_round = None
                            /\ r.node_states[q].k_proposer \in {None, b}
         /\ \A s \in r.received_msgs : \A q \in Proc : BuildRemoteState(w, s, q) \in R[q]
  BY <1>5
<1>7. o.proposers = {b}
  BY <1>6 DEF HasConflict
<1>8. incoming[a] = At(v, a, a, Remote(id, a)) /\ Remote(id, a) \in Nat /\ incoming[a] \in R[a]
  BY <1>0, BuildFacts DEF Implied
<1>9. incoming[a].v = v /\ incoming[a].k_proposer = a /\ incoming[a].accept_round = None
      /\ incoming[a] \in NodeStates
  BY <1>0, <1>8, AtFields
<1>10. a = b
  <2>1. CASE incoming[a].k_proposer \in o.proposers \cup {None}
    BY <2>1, <1>0, <1>7, <1>9, NoneIsNobody
  <2>2. CASE o.node_states[a] = r.node_states[a]
    <3>1. Precedes(incoming[a], r.node_states[a]) /\ r.node_states[a].accept_round = None
      BY <2>2, <1>0, <1>6
    <3>2. r.node_states[a].k_proposer = a
      BY <3>1, <1>9, NoneIsNobody DEF Precedes
    <3> QED BY <3>2, <1>0, <1>6, NoneIsNobody
  <2> QED BY <1>0, <2>1, <2>2
<1>11. /\ Mine(r, p) \in R[p] /\ r.propagation_states[a] \in Nat
       /\ \A h \in R[p] : Precedes(h, Mine(r, p))
  BY <1>0 DEF RoundOK, Mine, RoundStates
<1>12. /\ Mine(r, p).v = w /\ Mine(r, p).k_proposer = a /\ Mine(r, p).k_state = r.propagation_states[a]
  BY <1>0, <1>6, <1>10, <1>11, AtFields
<1>13. At(v, a, a, 0) \in R[a] /\ At(w, a, a, 0) \in R[a]
       /\ r.propagation_states[a] \in StateIds(a, p)
  BY <1>0, <1>8, <1>9, <1>11, <1>12, AcceptedFacts, NoneIsNobody
<1>14. v = w
  <2> DEFINE x == At(v, a, a, 0)
             y == At(w, a, a, 0)
  <2>1. x.v = v /\ y.v = w /\ x.accept_round = y.accept_round /\ x \in R[a] /\ y \in R[a]
    BY <1>0, <1>13, AtFields
  <2> HIDE DEF x, y
  <2> QED BY <1>0, <2>1, SameCommand, NoneIsNobody
<1>15. Mine(n, p) = Mine(r, p)
  BY <1>1, <1>2 DEF Mine
<1>16. n.node_states[a].v # NoV
  BY <1>0, <1>1, <1>2, <1>7, <1>10 DEF Known
<1>17. ASSUME NEW q \in Proc
       PROVE  /\ n.node_states[q] \in R[q]
              /\ n.node_states[q].accept_round = None
              /\ n.node_states[q].k_proposer \in {None, a}
  <2>1. incoming[q] = BuildRemoteState(v, id, q)
    BY DEF Implied
  <2>2. incoming[q].accept_round = None /\ incoming[q].k_proposer \in {None, a}
    BY <2>1, BuildFacts
  <2>3. o.node_states[q] \in {r.node_states[q], incoming[q]} /\ o.node_states[q] \in R[q]
    BY <1>1
  <2> QED BY <2>2, <2>3, <1>2, <1>6, <1>10
<1>18. \A s \in n.received_msgs : \A q \in Proc : BuildRemoteState(v, s, q) \in R[q]
  BY <1>2, <1>6, <1>14 DEF Implied
<1>19. ASSUME NEW c \in Proc, NEW u \in StateIds(c, p), u <= n.propagation_states[c]
       PROVE  State(c, p, u).dependencies \subseteq n.received_msgs
  BY <1>2, <1>19 DEF RoundOK
<1> HIDE DEF a
<1>20. Following(R, p, a, v, n)
  BY <1>0, <1>1, <1>2, <1>6, <1>7, <1>10, <1>11, <1>13, <1>14, <1>15, <1>16, <1>17, <1>18, <1>19
     DEF Following
<1> QED BY <1>1, <1>2, <1>20 DEF a, Follows

\* Where a plan puts z when p is in state w, z has been.
LEMMA LearntReports ==
  ASSUME NEW R, Good(R), NEW p \in Proc, NEW a \in Proc, NEW v \in Uid, NEW z \in Proc, z # p,
         NEW w \in StateIds(a, p), State(a, p, w).remote_states[z] > 0,
         NEW msgs, \A u \in StateIds(a, p) : u <= w => State(a, p, u).dependencies \subseteq msgs,
         \A id \in msgs : \A q \in Proc : BuildRemoteState(v, id, q) \in R[q]
  PROVE  At(v, a, z, State(a, p, w).remote_states[z]) \in R[z]
<1>1. PICK u \in StateIds(a, p) : u <= w /\ \E id \in State(a, p, u).dependencies :
        State(a, p, w).remote_states[z] <= State(a, id.src, id.time).remote_states[z]
  BY PlanFacts DEF LearnsFromMessages
<1>2. PICK id \in State(a, p, u).dependencies :
        State(a, p, w).remote_states[z] <= State(a, id.src, id.time).remote_states[z]
  BY <1>1
<1>3. id \in msgs
  BY <1>1, <1>2
<1>4. id.proposer = a /\ id.time \in StateIds(a, id.src) /\ id \in MessageId
  <2>1. State(a, p, u).dependencies \subseteq MessageId
    BY StateType DEF KnowledgeState
  <2>2. \A s \in State(a, p, u).dependencies : s.proposer = a /\ s.time \in StateIds(a, s.src)
    BY GraphAssumption DEF GraphWellFormed
  <2> QED BY <2>1, <2>2
<1>5. id \in SpreadId
  BY <1>4 DEF SpreadId
<1>6. State(a, p, w).remote_states[z] \in StateIds(a, z) /\ State(a, p, w).remote_states[z] \in Nat
  <2>1. State(a, p, w).remote_states[z] \in StateIds(a, z)
    BY GraphAssumption DEF GraphWellFormed
  <2> QED BY <2>1, PlanFacts
<1>7. State(a, p, w).remote_states[z] <= Remote(id, z) /\ Remote(id, z) \in Nat
  BY <1>2, <1>4, <1>5, BuildFacts DEF Remote
<1> DEFINE h == At(v, a, z, Remote(id, z))
<1>8. h \in R[z]
  <2>1. Remote(id, z) > 0
    BY <1>6, <1>7
  <2>2. BuildRemoteState(v, id, z) = h
    BY <2>1, <1>4, <1>5, BuildFacts
  <2> QED BY <2>2, <1>3
<1>9. h.v = v /\ h.k_proposer = a /\ h.k_state = Remote(id, z)
  BY <1>7, AtFields
<1> HIDE DEF h
<1> QED BY <1>6, <1>7, <1>8, <1>9, AcceptedFacts, NoneIsNobody

\* A state of the schedule that p follows is justified, and so are those before.
LEMMA StateJustified ==
  ASSUME NEW R, Good(R), NEW p \in Proc, NEW a \in Proc, NEW v \in Uid, At(v, a, a, 0) \in R[a],
         NEW S, Extends(R, S, p), NEW w \in StateIds(a, p),
         NEW msgs, \A u \in StateIds(a, p) : u <= w => State(a, p, u).dependencies \subseteq msgs,
         \A id \in msgs : \A q \in Proc : BuildRemoteState(v, id, q) \in R[q],
         At(v, a, p, w) \in S[p],
         \A u \in StateIds(a, p) : u <= w /\ (u > 0 \/ p = a) => At(v, a, p, u) \in S[p],
         OneStep(a, p) /\ a # p => w > 0 /\ w = FinalStateId(a, p)
  PROVE  Justified(S, p, At(v, a, p, w))
<1> DEFINE h == At(v, a, p, w)
<1>1. w \in Nat
  BY PlanFacts
<1>2. /\ h \in NodeStates /\ h.v = v /\ h.k_proposer = a /\ h.k_state = w /\ h.accept_round = None
      /\ h.prepared_for = IF w = FinalStateId(a, p) THEN Leader(a) ELSE None
      /\ IsFrozen(h) <=> w = FinalStateId(a, p)
  BY <1>1, AtFields
<1>3. Sound(p, h)
  <2>1. h.prepared_for \in AliveReplicas \cup {None}
    BY <1>2, PlanFacts
  <2>2. h.accept_round <= h.prepared_for
    BY <1>2, Ranks
  <2> HIDE DEF h
  <2> QED BY <1>2, <2>1, <2>2, NoneIsNobody DEF Sound
<1>4. \A q \in Proc : R[q] \subseteq S[q]
  BY DEF Extends
<1>5. ASSUME NEW q \in Knowledge(a, p, w)
      PROVE  \E x \in S[q] : x.k_proposer = a
  <2>0. q \in Proc
    BY StateType DEF Knowledge, KnowledgeState
  <2>1. CASE q = p
    BY <2>1, <1>2
  <2>2. CASE q = a
    <3>1. At(v, a, a, 0).k_proposer = a
      BY AtFields
    <3> QED BY <2>2, <3>1, <1>4
  <2>3. CASE q # p /\ q # a
    <3>1. State(a, p, w).remote_states[q] > 0
      BY <2>3, PlanFacts DEF LearnsFromMessages
    <3>2. At(v, a, q, State(a, p, w).remote_states[q]) \in R[q]
      BY <2>0, <2>3, <3>1, LearntReports
    <3>3. State(a, p, w).remote_states[q] \in Nat
      BY <2>0, StateType DEF KnowledgeState
    <3>4. At(v, a, q, State(a, p, w).remote_states[q]).k_proposer = a
      BY <2>0, <3>3, AtFields
    <3> QED BY <2>0, <3>2, <3>4, <1>4
  <2> QED BY <2>1, <2>2, <2>3
<1>6. At(h.v, a, a, 0) \in S[a]
  BY <1>2, <1>4
<1>7. \A u \in StateIds(a, p) : u <= h.k_state /\ (u > 0 \/ p = a) => At(h.v, a, p, u) \in S[p]
  BY <1>2
<1> HIDE DEF h
<1>8. Justified(S, p, h)
  BY <1>2, <1>3, <1>5, <1>6, <1>7 DEF Justified
<1> QED BY <1>8 DEF h

\* How far the walk takes p.
WalksTo(n, p, a) ==
  IF Reached(n, p, a) = {} THEN n.propagation_states[a] ELSE Highest(Reached(n, p, a))

\* Where a walk of the schedule starts and ends.
LEMMA WalkBounds ==
  ASSUME NEW R, Good(R), NEW p \in Proc, NEW a \in Proc, NEW v \in Uid, NEW n,
         Following(R, p, a, v, n)
  PROVE  LET t == WalksTo(n, p, a)
             W == Reached(n, p, a) \cup {t}
         IN  /\ t \in W /\ W \subseteq StateIds(a, p) /\ W \subseteq Nat
             /\ n.propagation_states[a] \in Nat /\ n.propagation_states[a] <= t
             /\ \A w \in W : w <= t /\ n.propagation_states[a] <= w
             /\ \A u \in StateIds(a, p) : u <= t => u \in W \/ u <= n.propagation_states[a]
             /\ \A u \in StateIds(a, p) : u <= t => State(a, p, u).dependencies \subseteq n.received_msgs
<1> DEFINE T == Reached(n, p, a)
           t == WalksTo(n, p, a)
           b == n.propagation_states[a]
<1>1. n \in RoundStates /\ b \in Nat /\ b \in StateIds(a, p)
  BY DEF Following, RoundStates
<1>2. \A c \in Proc : \A u \in StateIds(c, p) :
       u <= n.propagation_states[c] => State(c, p, u).dependencies \subseteq n.received_msgs
  BY DEF Following
<1>3. CASE T = {}
  <2>1. t = b
    BY <1>3 DEF WalksTo
  <2> QED BY <2>1, <1>1, <1>2, <1>3
<1>4. CASE T # {}
  <2>1. t = Highest(T)
    BY <1>4 DEF WalksTo
  <2>2. /\ t \in T /\ t \in StateIds(a, p) /\ t \in Nat /\ b < t
        /\ \A u \in T : u \in StateIds(a, p) /\ u > 0 /\ u <= t
        /\ \A u \in StateIds(a, p) : u <= t => u \in T \/ u <= b
    BY <1>1, <1>4, <2>1, ReachedFacts
  <2>3. ASSUME NEW u \in T PROVE u \in Nat /\ b <= u
    <3>1. u \in Nat
      BY <2>2, <2>3, PlanFacts
    <3>2. u > b
      BY <2>3 DEF Reached
    <3> QED BY <1>1, <3>1, <3>2
  <2>4. ASSUME NEW u \in StateIds(a, p), u <= t
        PROVE  State(a, p, u).dependencies \subseteq n.received_msgs
    <3>1. \A c \in Proc : \A y \in StateIds(c, p) :
           y <= Replace(n.propagation_states, a, Highest(Reached(n, p, a)))[c] =>
             State(c, p, y).dependencies \subseteq n.received_msgs
      BY <1>1, <1>2, <1>4, ReachedDeps
    <3>2. Replace(n.propagation_states, a, Highest(Reached(n, p, a)))[a] = t
      BY <2>1 DEF Replace
    <3> QED BY <3>1, <3>2, <2>4
  <2> QED BY <1>1, <2>2, <2>3, <2>4
<1> QED BY <1>3, <1>4

\* A schedule of one step is walked at once.
LEMMA OneStepWalk ==
  ASSUME NEW R, Good(R), NEW p \in Proc, NEW a \in Proc, NEW v \in Uid, NEW n,
         Following(R, p, a, v, n), OneStep(a, p), a # p,
         NEW w \in Reached(n, p, a) \cup {WalksTo(n, p, a)}
  PROVE  w > 0 /\ w = FinalStateId(a, p)
<1> DEFINE T == Reached(n, p, a)
           t == WalksTo(n, p, a)
           b == n.propagation_states[a]
<1>1. /\ t \in T \cup {t} /\ T \cup {t} \subseteq StateIds(a, p) /\ T \cup {t} \subseteq Nat
      /\ b \in Nat /\ b <= t
      /\ \A u \in T \cup {t} : u <= t /\ b <= u
  BY WalkBounds
<1>2. FinalStateId(a, p) \in StateIds(a, p) /\ FinalStateId(a, p) \in Nat
      /\ \A u \in StateIds(a, p) : u <= FinalStateId(a, p)
  BY LastState, FinalStateExists
<1>3. CASE Mine(n, p) \in R[p]
  <2>1. Mine(n, p).k_proposer = a /\ Mine(n, p).k_state = b
    BY <1>1, AtFields DEF Following
  <2>2. b > 0 /\ b = FinalStateId(a, p)
    BY <1>3, <2>1, AcceptedFacts, NoneIsNobody
  <2>3. w \in Nat /\ w <= FinalStateId(a, p) /\ b <= w
    BY <1>1, <1>2
  <2>4. b \in Nat /\ FinalStateId(a, p) \in Nat
    BY <1>1, <1>2
  <2> HIDE DEF b, t, T
  <2> QED BY <2>2, <2>3, <2>4
<1>4. CASE Mine(n, p) \notin R[p]
  <2>1. PICK id \in n.received_msgs :
             /\ id \in SpreadId /\ id.proposer = a /\ id.dest = p
             /\ id \in State(id.proposer, id.src, id.time).needed_by
    BY <1>4 DEF Following
  <2>2. b = 0
    BY <1>4 DEF Following
  <2>3. id.src \in Proc /\ id.time \in StateIds(a, id.src)
    BY <2>1 DEF SpreadId, MessageId
  <2>4. PICK u \in StateIds(a, p) : u > 0 /\ StateIds(a, p) = {0, u}
                                    /\ State(a, p, u).dependencies \subseteq {id}
    BY <2>1, <2>3 DEF OneStep
  <2>5. u \in Nat
    BY PlanFacts
  <2>6. u \in T
    BY <2>1, <2>2, <2>4, <2>5 DEF Reached
  <2>7. u <= t
    BY <1>1, <2>6
  <2>8. FinalStateId(a, p) = u /\ t = u
    BY <1>1, <1>2, <2>4, <2>5, <2>7
  <2>9. w > 0
    <3>1. CASE w \in T
      <4>1. w > b
        BY <3>1 DEF Reached
      <4> QED BY <4>1, <2>2
    <3> QED BY <3>1, <2>4, <2>8
  <2>10. w = u
    BY <1>1, <2>4, <2>9
  <2> QED BY <2>8, <2>9, <2>10
<1> QED BY <1>3, <1>4

\* Advancing leaves all but the state.
LEMMA AtAdvances ==
  ASSUME NEW v \in Uid, NEW a \in Proc, NEW p \in Proc, NEW b \in Nat, NEW t \in Nat,
         ~IsFrozen(At(v, a, p, b))
  PROVE  UpdateKState(At(v, a, p, b), p, t) = At(v, a, p, t)
<1> DEFINE h == At(v, a, p, b)
           n == UpdateKState(h, p, t)
           g == At(v, a, p, t)
<1>1. /\ h \in NodeStates /\ h.v = v /\ h.k_proposer = a /\ h.accept_round = None
      /\ h.prepared_for = None
  BY AtFields DEF IsFrozen
<1>2. /\ g \in NodeStates /\ g.v = v /\ g.k_proposer = a /\ g.k_state = t /\ g.accept_round = None
      /\ g.prepared_for = IF t = FinalStateId(a, p) THEN Leader(a) ELSE None
  BY AtFields
<1>3. h.k_proposer # None
  BY <1>1, NoneIsNobody
<1> HIDE DEF h, g
<1>4. n \in NodeStates
  BY <1>1, <1>3, UpdateKStateType
<1>5. /\ n.v = v /\ n.k_proposer = a /\ n.k_state = t /\ n.accept_round = None
      /\ n.prepared_for = IF t = FinalStateId(a, p) THEN Leader(a) ELSE None
  BY <1>1 DEF UpdateKState, NodeStates
<1> HIDE DEF n
<1>6. n = g
  BY <1>2, <1>4, <1>5, Ranks
<1> QED BY <1>6 DEF n, g, h

\* The round after the walk.
LEMMA WalkedRound ==
  ASSUME NEW R, Good(R), NEW p \in Proc, NEW a \in Proc, NEW v \in Uid, NEW n,
         Following(R, p, a, v, n),
         NEW conflict \in BOOLEAN, ~conflict, NEW o, o = Advance(n, p, a, conflict)
  PROVE  /\ o \in RoundStates /\ o.proposers = {a}
         /\ o.propagation_states[a] = WalksTo(n, p, a)
         /\ Mine(o, p) = At(v, a, p, WalksTo(n, p, a))
         /\ \A q \in Proc \ {p} : o.node_states[q] = n.node_states[q]
         /\ o.received_msgs = n.received_msgs
         /\ o.paxos_accept_count = n.paxos_accept_count
         /\ \A c \in Proc : \A u \in StateIds(c, p) :
              u <= o.propagation_states[c] => State(c, p, u).dependencies \subseteq o.received_msgs
<1> DEFINE T == Reached(n, p, a)
           t == WalksTo(n, p, a)
<1>1. /\ n \in RoundStates /\ n.proposers = {a} /\ n.propagation_states[a] \in Nat
      /\ Mine(n, p) = At(v, a, p, n.propagation_states[a]) /\ ~IsFrozen(Mine(n, p))
      /\ \A c \in Proc : \A u \in StateIds(c, p) :
           u <= n.propagation_states[c] => State(c, p, u).dependencies \subseteq n.received_msgs
  BY DEF Following, RoundStates
<1>2. CASE T = {}
  <2>1. o = n
    BY <1>2 DEF Advance
  <2>2. t = n.propagation_states[a]
    BY <1>2 DEF WalksTo
  <2> QED BY <2>1, <2>2, <1>1
<1>3. CASE T # {}
  <2> DEFINE m == [n EXCEPT !.propagation_states = Replace(@, a, t)]
             e == At(v, a, p, t)
  <2>1. t = Highest(T) /\ t \in Nat
    BY <1>1, <1>3, ReachedFacts DEF WalksTo
  <2>2. UpdateKState(Mine(n, p), p, t) = e
    BY <1>1, <2>1, AtAdvances
  <2>3. o = SetMine(m, p, e)
    BY <1>3, <2>1, <2>2 DEF Advance
  <2>4. Replace(n.propagation_states, a, t) \in [Proc -> Nat]
        /\ Replace(n.propagation_states, a, t)[a] = t
    <3>1. n.propagation_states \in [Proc -> Nat]
      BY <1>1 DEF RoundStates
    <3> HIDE DEF t
    <3> QED BY <2>1, <3>1 DEF Replace
  <2>5. /\ m \in RoundStates /\ m.node_states = n.node_states /\ m.proposers = n.proposers
        /\ m.propagation_states = Replace(n.propagation_states, a, t)
        /\ m.received_msgs = n.received_msgs /\ m.paxos_accept_count = n.paxos_accept_count
    BY <1>1, <2>4 DEF RoundStates
  <2>6. e \in NodeStates
    BY <2>1, AtFields
  <2>7. \A c \in Proc : \A u \in StateIds(c, p) :
              u <= Replace(n.propagation_states, a, t)[c] => State(c, p, u).dependencies \subseteq n.received_msgs
    BY <1>1, <1>3, <2>1, ReachedDeps
  <2> HIDE DEF m, e
  <2>s. SetMine(m, p, e) \in RoundStates /\ Mine(SetMine(m, p, e), p) = e
    BY <2>5, <2>6, SetMineType
  <2>8. /\ SetMine(m, p, e).proposers = m.proposers
        /\ SetMine(m, p, e).propagation_states = m.propagation_states
        /\ SetMine(m, p, e).received_msgs = m.received_msgs
        /\ SetMine(m, p, e).paxos_accept_count = m.paxos_accept_count
        /\ SetMine(m, p, e).node_states = Replace(m.node_states, p, e)
    BY <2>5 DEF SetMine, RoundStates
  <2>9. \A q \in Proc \ {p} : Replace(m.node_states, p, e)[q] = n.node_states[q]
    BY <2>5 DEF Replace
  <2>10. /\ o \in RoundStates /\ Mine(o, p) = At(v, a, p, t) /\ o.proposers = {a}
         /\ o.propagation_states = Replace(n.propagation_states, a, t)
         /\ o.received_msgs = n.received_msgs
         /\ o.paxos_accept_count = n.paxos_accept_count
         /\ \A q \in Proc \ {p} : o.node_states[q] = n.node_states[q]
    BY <1>1, <2>3, <2>5, <2>s, <2>8, <2>9 DEF e
  <2> HIDE DEF t
  <2>11. \A c \in Proc : \A u \in StateIds(c, p) :
              u <= o.propagation_states[c] => State(c, p, u).dependencies \subseteq o.received_msgs
    BY <2>7, <2>10
  <2>12. o.propagation_states[a] = t
    BY <2>4, <2>10
  <2> QED BY <2>10, <2>11, <2>12 DEF t
<1> QED BY <1>2, <1>3

\* The reports after p walked a's schedule.
Walking(R, p, a, v, n) ==
  [R EXCEPT ![p] = @ \cup {At(v, a, p, u) : u \in Reached(n, p, a) \cup {WalksTo(n, p, a)}}]

\* A process that walks a's schedule without a conflict keeps its round explained.
LEMMA WalkedPlain ==
  ASSUME NEW R, Good(R), NEW p \in Proc, NEW r \in RoundStates, RoundOK(R, p, r),
         NEW a \in Proc, NEW v \in Uid, NEW n, Following(R, p, a, v, n),
         \A q \in Proc : Precedes(r.node_states[q], n.node_states[q]),
         n.paxos_accept_count = r.paxos_accept_count,
         NEW conflict \in BOOLEAN, ~conflict, NEW o, o = Advance(n, p, a, conflict),
         NEW S, S = Walking(R, p, a, v, n)
  PROVE  /\ Extends(R, S, p) /\ Good(S) /\ RoundOK(S, p, o)
         /\ \A u \in Reached(n, p, a) : At(v, a, p, u) \in S[p]
<1> DEFINE T == Reached(n, p, a)
           t == WalksTo(n, p, a)
           W == T \cup {t}
           G == {At(v, a, p, u) : u \in W}
           b == n.propagation_states[a]
           msgs == n.received_msgs
<1>1. /\ t \in W /\ W \subseteq StateIds(a, p) /\ W \subseteq Nat
      /\ b \in Nat /\ b <= t
      /\ \A w \in W : w <= t /\ b <= w
      /\ \A u \in StateIds(a, p) : u <= t => u \in W \/ u <= b
      /\ \A u \in StateIds(a, p) : u <= t => State(a, p, u).dependencies \subseteq msgs
  BY WalkBounds
<1>2. /\ o \in RoundStates /\ o.proposers = {a}
      /\ o.propagation_states[a] = t
      /\ Mine(o, p) = At(v, a, p, t)
      /\ \A q \in Proc \ {p} : o.node_states[q] = n.node_states[q]
      /\ o.received_msgs = n.received_msgs
      /\ o.paxos_accept_count = n.paxos_accept_count
      /\ \A c \in Proc : \A u \in StateIds(c, p) :
           u <= o.propagation_states[c] => State(c, p, u).dependencies \subseteq o.received_msgs
  BY WalkedRound
<1>3. /\ n \in RoundStates /\ b \in StateIds(a, p) /\ Mine(n, p) = At(v, a, p, b)
      /\ At(v, a, a, 0) \in R[a] /\ n.node_states[a].v # NoV
      /\ \A q \in Proc : /\ q # p => n.node_states[q] \in R[q]
                         /\ n.node_states[q].accept_round = None
                         /\ n.node_states[q].k_proposer \in {None, a}
      /\ \A id \in msgs : \A q \in Proc : BuildRemoteState(v, id, q) \in R[q]
      /\ \A h \in R[p] : Precedes(h, Mine(n, p))
  BY DEF Following
<1>4. \A u \in StateIds(a, p) : StateIds(a, p) \subseteq Nat
  BY PlanFacts
<1>5. \A u \in W : At(v, a, p, u) \in NodeStates /\ Precedes(At(v, a, p, b), At(v, a, p, u))
      /\ Precedes(At(v, a, p, u), At(v, a, p, t))
  <2> SUFFICES ASSUME NEW u \in W
               PROVE  At(v, a, p, u) \in NodeStates /\ Precedes(At(v, a, p, b), At(v, a, p, u))
                      /\ Precedes(At(v, a, p, u), At(v, a, p, t))
    OBVIOUS
  <2>1. u \in StateIds(a, p) /\ u \in Nat /\ b <= u /\ u <= t /\ t \in StateIds(a, p)
    BY <1>1
  <2> HIDE DEF W, T, t, b
  <2> QED BY <2>1, <1>3, AtFields, AtOrder
<1>6. G \in SUBSET NodeStates /\ \A g \in G : \E u \in W : g = At(v, a, p, u)
  BY <1>5
<1>7. /\ S = [R EXCEPT ![p] = @ \cup G]
      /\ \A u \in W : At(v, a, p, u) \in G
  BY DEF Walking
<1>m. Mine(n, p) \in NodeStates
  BY <1>3, MineType
<1> HIDE DEF W, G, T, t, b, msgs
<1>8. Extends(R, S, p) /\ S[p] = R[p] \cup G
  <2>1. \A g \in G : Precedes(Mine(n, p), g)
    BY <1>3, <1>5, <1>6
  <2>2. S \in Reports /\ S[p] = R[p] \cup G /\ \A q \in Proc \ {p} : S[q] = R[q]
    BY <1>6, <1>7 DEF Good, Reports
  <2>3. R \in Reports /\ R[p] \subseteq NodeStates
    BY DEF Good, Reports
  <2>4. \A h \in R[p] : \A g \in G : Precedes(h, g)
    BY <2>1, <2>3, <1>3, <1>6, <1>m, PrecedesTransitive
  <2> QED BY <2>2, <2>3, <2>4 DEF Extends
<1>9. \A u \in W : At(v, a, p, u) \in S[p]
  BY <1>7, <1>8
<1>10. ASSUME NEW u \in StateIds(a, p), u <= t, u > 0 \/ p = a
       PROVE  At(v, a, p, u) \in S[p]
  <2>1. CASE u \in W
    BY <1>9, <2>1
  <2>2. CASE u <= b /\ Mine(n, p) \in R[p]
    <3>1. Mine(n, p).v = v /\ Mine(n, p).k_proposer = a /\ Mine(n, p).k_state = b
      BY <1>1, <1>3, AtFields
    <3>2. At(v, a, p, u) \in R[p]
      BY <2>2, <3>1, <1>10, AcceptedFacts, NoneIsNobody
    <3> QED BY <3>2, <1>8
  <2>3. CASE u <= b /\ Mine(n, p) \notin R[p]
    <3>1. p # a /\ b = 0
      BY <2>3 DEF Following, b
    <3> QED BY <3>1, <2>3, <1>4, <1>10
  <2> QED BY <1>1, <1>10, <2>1, <2>2, <2>3
<1>11. ASSUME NEW w \in W
       PROVE  Justified(S, p, At(v, a, p, w))
  <2>1. w \in StateIds(a, p) /\ w \in Nat /\ w <= t /\ t \in Nat
    BY <1>1
  <2>2. \A u \in StateIds(a, p) : u <= w => u <= t
    BY <2>1, <1>4
  <2>3. \A u \in StateIds(a, p) : u <= w => State(a, p, u).dependencies \subseteq msgs
    BY <2>2, <1>1
  <2>4. \A u \in StateIds(a, p) : u <= w /\ (u > 0 \/ p = a) => At(v, a, p, u) \in S[p]
    BY <2>2, <1>10
  <2>5. OneStep(a, p) /\ a # p => w > 0 /\ w = FinalStateId(a, p)
    BY OneStepWalk DEF W, T, t
  <2> QED BY <2>1, <2>3, <2>4, <2>5, <1>3, <1>8, <1>9, StateJustified
<1>12. Good(S)
  <2>1. \A g \in S[p] \ R[p] : \E u \in W : g = At(v, a, p, u)
    BY <1>6, <1>8
  <2>2. \A u, w \in W : Precedes(At(v, a, p, u), At(v, a, p, w)) \/ Precedes(At(v, a, p, w), At(v, a, p, u))
    <3> SUFFICES ASSUME NEW u \in W, NEW w \in W
                 PROVE  Precedes(At(v, a, p, u), At(v, a, p, w)) \/ Precedes(At(v, a, p, w), At(v, a, p, u))
      OBVIOUS
    <3>1. u \in StateIds(a, p) /\ w \in StateIds(a, p) /\ (u <= w \/ w <= u)
      BY <1>1
    <3> QED BY <3>1, AtOrder
  <2>3. \A g, h \in S[p] \ R[p] : Precedes(g, h) \/ Precedes(h, g)
    BY <2>1, <2>2
  <2>4. \A g \in S[p] \ R[p] : Justified(S, p, g)
    BY <2>1, <1>11
  <2>5. \A g \in S[p] \ R[p] : g.accept_round # p
    <3>1. \A u \in W : At(v, a, p, u).accept_round = None
      BY <1>1, AtFields
    <3> QED BY <2>1, <3>1, NoneIsNobody
  <2> QED BY <1>8, <2>3, <2>4, <2>5, ExtendsGood
<1>13. \A q \in Proc : Precedes(r.node_states[q], o.node_states[q])
  <2>1. Precedes(r.node_states[p], Mine(o, p))
    <3>1. r.node_states[p] \in NodeStates /\ Precedes(r.node_states[p], Mine(n, p))
      BY DEF RoundStates, Mine
    <3>2. Mine(o, p) \in NodeStates /\ Precedes(Mine(n, p), Mine(o, p))
      BY <1>1, <1>2, <1>3, <1>5
    <3> QED BY <1>m, <3>1, <3>2, PrecedesTransitive
  <2> QED BY <2>1, <1>2 DEF Mine
<1>14. \A q \in Proc : o.node_states[q] \in S[q]
  <2>1. \A q \in Proc \ {p} : o.node_states[q] \in S[q]
    BY <1>2, <1>3, <1>8 DEF Extends
  <2> QED BY <2>1, <1>1, <1>2, <1>9 DEF Mine
<1>15. \A h \in S[p] : Precedes(h, Mine(o, p))
  <2>1. R[p] \subseteq NodeStates /\ Mine(o, p) \in NodeStates
    BY <1>2, MineType DEF Good, Reports
  <2>2. Precedes(Mine(n, p), Mine(o, p))
    BY <1>1, <1>2, <1>3, <1>5
  <2>3. \A h \in R[p] : Precedes(h, Mine(o, p))
    BY <2>1, <2>2, <1>3, <1>m, PrecedesTransitive
  <2>4. \A g \in G : Precedes(g, Mine(o, p))
    BY <1>2, <1>5, <1>6
  <2> QED BY <2>3, <2>4, <1>8
<1>16. \A q \in Proc : /\ o.node_states[q].accept_round = None
                       /\ o.node_states[q].k_proposer \in {None, a}
  <2>0. t \in Nat
    BY <1>1
  <2>1. Mine(o, p).accept_round = None /\ Mine(o, p).k_proposer = a
    BY <2>0, <1>2, AtFields
  <2> QED BY <2>1, <1>2, <1>3 DEF Mine
<1>17. Known(S, o)
  <2>1. At(v, a, a, 0).k_proposer = a /\ At(v, a, a, 0) \in S[a]
    BY <1>3, <1>8, AtFields DEF Extends
  <2>2. o.node_states[a].v # NoV
    <3>1. CASE a = p
      <4>1. t \in Nat
        BY <1>1
      <4>2. Mine(o, p).v = v
        BY <4>1, <1>2, AtFields
      <4> QED BY <3>1, <4>2, NoneIsNobody DEF Mine
    <3> QED BY <3>1, <1>2, <1>3
  <2> QED BY <1>2, <1>16, <2>1, <2>2 DEF Known
<1>18. Plain(S, p, o)
  <2>1. \A id \in o.received_msgs : \A q \in Proc : BuildRemoteState(v, id, q) \in S[q]
    BY <1>2, <1>3, <1>8 DEF Extends, msgs
  <2>2. /\ o.proposers = {a} /\ Mine(o, p) = At(v, a, p, o.propagation_states[a])
    BY <1>2
  <2> QED BY <2>1, <2>2, <1>16 DEF Plain
<1>19. RoundOK(S, p, o)
  <2>1. o.paxos_accept_count = r.paxos_accept_count
    BY <1>2
  <2>2. \A c \in Proc : \A u \in StateIds(c, p) :
           u <= o.propagation_states[c] => State(c, p, u).dependencies \subseteq o.received_msgs
    BY <1>2
  <2>3. p \in Proc /\ Extends(R, S, p) /\ r \in RoundStates /\ RoundOK(R, p, r) /\ o \in RoundStates
    BY <1>2, <1>8
  <2> QED BY ONLY <2>1, <2>2, <2>3, <1>13, <1>14, <1>15, <1>17, <1>18, RoundUpdated
<1>20. \A u \in Reached(n, p, a) : At(v, a, p, u) \in S[p]
  BY <1>9 DEF W, T
<1> QED BY <1>8, <1>12, <1>19, <1>20

\* In a conflict the walk changes nothing but how far it came.
LEMMA WalkedInConflict ==
  ASSUME NEW R, Good(R), NEW p \in Proc, NEW n \in RoundStates, RoundOK(R, p, n),
         HasConflict(n, p), NEW a \in Proc, NEW conflict \in BOOLEAN, conflict,
         NEW o, o = Advance(n, p, a, conflict)
  PROVE  /\ o \in RoundStates /\ RoundOK(R, p, o) /\ HasConflict(o, p)
         /\ o.node_states = n.node_states /\ o.proposers = n.proposers
         /\ o.paxos_accept_count = n.paxos_accept_count
<1> DEFINE T == Reached(n, p, a)
           t == Highest(T)
<1>1. CASE T = {}
  <2>1. o = n
    BY <1>1 DEF Advance
  <2> QED BY <2>1
<1>2. CASE T # {}
  <2> DEFINE m == [n EXCEPT !.propagation_states = Replace(@, a, t)]
  <2>1. t \in Nat
    BY <1>2, ReachedFacts
  <2>2. o = m
    BY <1>2 DEF Advance
  <2>3. Replace(n.propagation_states, a, t) \in [Proc -> Nat]
    <3>1. n.propagation_states \in [Proc -> Nat]
      BY DEF RoundStates
    <3> HIDE DEF t
    <3> QED BY <2>1, <3>1 DEF Replace
  <2>4. \A c \in Proc : \A u \in StateIds(c, p) :
              u <= Replace(n.propagation_states, a, t)[c] => State(c, p, u).dependencies \subseteq n.received_msgs
    <3>1. \A c \in Proc : \A u \in StateIds(c, p) :
            u <= n.propagation_states[c] => State(c, p, u).dependencies \subseteq n.received_msgs
      BY DEF RoundOK
    <3> QED BY <3>1, <1>2, ReachedDeps
  <2> HIDE DEF t
  <2>5. /\ m \in RoundStates /\ m.node_states = n.node_states /\ m.proposers = n.proposers
        /\ m.propagation_states = Replace(n.propagation_states, a, t)
        /\ m.received_msgs = n.received_msgs /\ m.paxos_accept_count = n.paxos_accept_count
    BY <2>3 DEF RoundStates
  <2> HIDE DEF m, T
  <2>6. Mine(m, p) = Mine(n, p) /\ HasConflict(m, p)
    BY <2>5 DEF Mine, HasConflict
  <2>7. \A q \in Proc : /\ m.node_states[q] \in R[q] /\ n.node_states[q] \in NodeStates
                        /\ Precedes(n.node_states[q], m.node_states[q])
    BY <2>5, PrecedesReflexive DEF RoundOK, RoundStates
  <2>8. Known(R, m)
    BY <2>5 DEF RoundOK, Known
  <2>9. Plain(R, p, m)
    BY <2>6 DEF Plain
  <2>10. Counted(R, p, m) = Counted(R, p, n)
    BY <2>5 DEF Counted
  <2>11. RoundOK(R, p, m)
    BY <2>4, <2>5, <2>6, <2>7, <2>8, <2>9, <2>10 DEF RoundOK
  <2> QED BY <2>2, <2>5, <2>6, <2>11
<1> QED BY <1>1, <1>2

-----------------------------------------------------------------------------
(* What is sent *)

\* What is implied by a message of the plan is what happened.
LEMMA ImpliedReports ==
  ASSUME NEW S, Good(S), NEW p \in Proc, NEW a \in Proc, NEW v \in Uid, At(v, a, a, 0) \in S[a],
         NEW u \in StateIds(a, p), At(v, a, p, u) \in S[p],
         NEW id \in State(a, p, u).needed_by,
         NEW msgs, \A w \in StateIds(a, p) : w <= u => State(a, p, w).dependencies \subseteq msgs,
         \A s \in msgs : \A q \in Proc : BuildRemoteState(v, s, q) \in S[q],
         NEW z \in Proc
  PROVE  BuildRemoteState(v, id, z) \in S[z]
<1>1. id.proposer = a /\ id.src = p /\ id.time = u /\ id \in MessageId
  BY StateType DEF KnowledgeState
<1>2. id \in SpreadId
  BY <1>1 DEF SpreadId
<1>3. Remote(id, z) = State(a, p, u).remote_states[z] /\ Remote(id, z) \in Nat
  BY <1>1, <1>2, BuildFacts DEF Remote
<1>4. BuildRemoteState(v, id, z) = IF Remote(id, z) > 0 \/ z = a THEN At(v, a, z, Remote(id, z)) ELSE EmptyNode
  BY <1>1, <1>2, BuildFacts
<1>5. CASE ~(Remote(id, z) > 0 \/ z = a)
  BY <1>4, <1>5 DEF Good, ReportsOK
<1>6. CASE z = p /\ (Remote(id, z) > 0 \/ z = a)
  <2>1. Remote(id, z) = u
    <3>1. LearnsFromMessages(a, p)
      BY PlanFacts
    <3>2. State(a, p, u).remote_states[p] = u
      BY <3>1 DEF LearnsFromMessages
    <3> QED BY <3>2, <1>3, <1>6
  <2> QED BY <2>1, <1>4, <1>6
<1>7. CASE z # p /\ Remote(id, z) > 0
  BY <1>3, <1>4, <1>7, LearntReports
<1>8. CASE z = a /\ ~(Remote(id, z) > 0)
  <2>1. Remote(id, z) = 0
    BY <1>3, <1>8
  <2> QED BY <2>1, <1>4, <1>8
<1> QED BY <1>5, <1>6, <1>7, <1>8

\* A message without a census.
LEMMA PlainMsgOK ==
  ASSUME NEW H, NEW m \in SpreadMsg, ~m.explicit, NEW S, H[m.slot] = S, Good(S),
         m.id \in State(m.id.proposer, m.id.src, m.id.time).needed_by,
         \A q \in Proc : BuildRemoteState(m.v, m.id, q) \in S[q]
  PROVE  MsgOK(H, m)
<1>1. m.type = "Spread" /\ m.v \in Uid /\ m.id \in SpreadId
  BY DEF SpreadMsg
<1>2. \A q \in Proc : Incoming(m)[q] = BuildRemoteState(m.v, m.id, q)
  BY DEF Incoming
<1>3. ASSUME NEW q \in Proc, NEW a \in Proc, Incoming(m)[q].k_proposer = a
      PROVE  Incoming(m)[a].v # NoV
  <2>1. a = m.id.proposer
    BY <1>1, <1>2, <1>3, BuildFacts, NoneIsNobody
  <2>2. Incoming(m)[a] = At(m.v, a, a, Remote(m.id, a)) /\ Remote(m.id, a) \in Nat
    BY <2>1, <1>1, <1>2, BuildFacts
  <2>3. Incoming(m)[a].v = m.v
    BY <2>2, <1>1, AtFields
  <2> QED BY <2>3, <1>1, NoneIsNobody
<1> QED BY <1>1, <1>2, <1>3 DEF MsgOK

\* A message with a census.
LEMMA CensusMsgOK ==
  ASSUME NEW H, NEW m \in SpreadMsg, m.explicit, NEW S, H[m.slot] = S,
         m.id \in State(m.id.proposer, m.id.src, m.id.time).needed_by,
         NEW p \in Proc, NEW n \in RoundStates, RoundOK(S, p, n), m.remote_states = n.node_states
  PROVE  MsgOK(H, m)
<1>1. m.type = "Spread" /\ Incoming(m) = n.node_states
  BY DEF SpreadMsg, Incoming
<1>2. \A q \in Proc : n.node_states[q] \in S[q]
  BY DEF RoundOK
<1>3. ASSUME NEW q \in Proc, NEW a \in Proc, n.node_states[q].k_proposer = a
      PROVE  n.node_states[a].v # NoV
  BY <1>3, NoneIsNobody DEF RoundOK, Known
<1> QED BY <1>1, <1>2, <1>3 DEF MsgOK

-----------------------------------------------------------------------------
(* The fast path *)

\* A leader at the end of a schedule may commit: everyone came to the end.
LEMMA EndIsFull ==
  ASSUME NEW R, Good(R), NEW p \in Proc, NEW a \in Proc, NEW v \in Uid, NEW n,
         Following(R, p, a, v, n), NEW S, Extends(R, S, p), Leader(a) = p,
         WalksTo(n, p, a) = FinalStateId(a, p), At(v, a, p, FinalStateId(a, p)) \in S[p]
  PROVE  Full(S, a, v)
<1> DEFINE t == FinalStateId(a, p)
<1>1. t \in StateIds(a, p) /\ \A q \in Proc : R[q] \subseteq S[q]
  BY LastState DEF Extends
<1>2. \A u \in StateIds(a, p) : u <= t => State(a, p, u).dependencies \subseteq n.received_msgs
  BY WalkBounds
<1>3. /\ At(v, a, a, 0) \in R[a]
      /\ \A id \in n.received_msgs : \A q \in Proc : BuildRemoteState(v, id, q) \in R[q]
  BY DEF Following
<1>4. ASSUME NEW q \in Proc, q \in VQuorum(a) \/ q = a \/ ~OneStep(a, q)
      PROVE  At(v, a, q, FinalStateId(a, q)) \in S[q]
  <2> DEFINE reached == State(a, p, t).remote_states[q]
  <2>1. \/ q = p
        \/ reached = FinalStateId(a, q) /\ (q = a \/ reached > 0)
    BY <1>4, PlanFacts DEF LeaderKnowsTheEnd
  <2>2. CASE q = p
    BY <2>2
  <2>3. CASE q # p /\ reached = FinalStateId(a, q) /\ reached > 0
    <3>1. At(v, a, q, reached) \in R[q]
      BY <2>3, <1>1, <1>2, <1>3, LearntReports
    <3> QED BY <3>1, <2>3, <1>1
  <2>4. CASE q = a /\ reached = FinalStateId(a, q) /\ ~(reached > 0)
    <3>1. FinalStateId(a, q) \in Nat
      BY LastState
    <3>2. FinalStateId(a, q) = 0
      BY <3>1, <2>4
    <3> QED BY <3>2, <2>4, <1>1, <1>3
  <2> QED BY <2>1, <2>2, <2>3, <2>4
<1> QED BY <1>1, <1>3, <1>4 DEF Full

-----------------------------------------------------------------------------
(* The fallback *)

\* A process that votes reports its vote.
LEMMA VoteJustified ==
  ASSUME NEW S, NEW p \in Proc, NEW l \in AliveReplicas, NEW v \in Uid,
         VoteOf(l, v) \in S[p], VoteOf(l, v) \in S[l]
  PROVE  Justified(S, p, VoteOf(l, v)) /\ VoteOf(l, v) \in NodeStates
<1> DEFINE h == VoteOf(l, v)
<1>1. l \in Proc /\ l \in Int
  BY ReplicasFinite, ProcIsNat
<1>2. /\ h \in NodeStates /\ h.v = v /\ h.k_proposer = None /\ h.prepared_for = l
      /\ h.accept_round = l /\ h.k_state = 0
  BY <1>1, VoteOfType, VoteOfFields
<1>3. h = VoteOf(l, v)
  OBVIOUS
<1> HIDE DEF h
<1>4. Sound(p, h)
  BY <1>1, <1>2, NoneIsNobody DEF Sound
<1>5. Justified(S, p, h)
  BY <1>2, <1>3, <1>4 DEF Justified
<1> QED BY <1>2, <1>3, <1>5

\* The census a leader starts its fallback from.
Census(S, p, o) ==
  /\ o \in RoundStates
  /\ \A q \in Proc : o.node_states[q] \in S[q]
  /\ Known(S, o)
  /\ Cardinality({q \in AliveReplicas : o.node_states[q].prepared_for = p}) >= Majority

\* A majority has one who promised p.
LEMMA PromisedMeets ==
  ASSUME NEW S, NEW p \in Proc, NEW o, Census(S, p, o), NEW Q \in SUBSET AliveReplicas,
         Cardinality(Q) >= Majority
  PROVE  \E q \in Q : /\ q \in Proc /\ o.node_states[q] \in S[q]
                      /\ o.node_states[q].prepared_for = p /\ IsFrozen(o.node_states[q])
<1> DEFINE P == {q \in AliveReplicas : o.node_states[q].prepared_for = p}
<1>1. P \in SUBSET AliveReplicas /\ Cardinality(P) >= Majority
  BY DEF Census
<1>2. \A q \in P : q \in AliveReplicas /\ o.node_states[q].prepared_for = p
  OBVIOUS
<1> HIDE DEF P
<1>3. PICK q \in P : q \in Q
  BY <1>1, MajoritiesMeet
<1>4. q \in Proc
  BY <1>2, ReplicasFinite
<1> QED BY <1>2, <1>3, <1>4, NoneIsNobody DEF Census, IsFrozen

\* Someone who accepted from another proposer, and whom b needs, kills b.
LEMMA OtherKills ==
  ASSUME NEW S, Good(S), NEW b \in Proc, NEW w \in Proc, w \in VQuorum(b),
         NEW x \in S[w], x.k_proposer # b, x.k_proposer # None
  PROVE  Dead(S, b)
<1>1. x.accept_round = None
  BY AcceptedFacts
<1>2. Blocks(b, w, x)
  BY <1>1 DEF Blocks
<1> QED BY <1>2 DEF Dead

\* A frozen process that did not vote and leaves b alive either followed b to the end, or
\* is not needed by b.
LEMMA AliveAnd ==
  ASSUME NEW S, Good(S), NEW b \in Proc, ~Dead(S, b), NEW q \in Proc, NEW n \in S[q],
         IsFrozen(n), n.accept_round = None
  PROVE  /\ q \in VQuorum(b) => n.k_proposer = b
         /\ n.k_proposer = b => n.k_state = FinalStateId(b, q)
BY DEF Dead, Blocks

\* A process that took a step of a schedule knows of itself.
LEMMA KnowsItself ==
  ASSUME NEW c \in Proc, NEW q \in Proc, NEW t \in StateIds(c, q), t > 0 \/ q = c
  PROVE  q \in Knowledge(c, q, t)
BY PlanFacts DEF LearnsFromMessages

\* Whom a leader needs knows of itself in the end.
LEMMA NeededKnowsItself ==
  ASSUME NEW b \in Proc, NEW q \in Proc, q \in VQuorum(b)
  PROVE  q \in Knowledge(b, q, FinalStateId(b, q))
<1>1. FinalStateId(b, q) \in StateIds(b, q) /\ FinalStateId(b, q) \in Nat
  BY LastState
<1>2. CASE q = Leader(b)
  BY <1>2 DEF VQuorum, FinalKnowledge, Knowledge
<1>3. CASE q # Leader(b)
  <2>1. FinalStateId(b, q) > 0 \/ q = b
    BY <1>1, <1>3, PlanFacts DEF LeaderKnowsTheEnd
  <2> QED BY <2>1, <1>1, KnowsItself
<1> QED BY <1>2, <1>3

\* A command that may have been fast-committed is in the census, and passes.
LEMMA SurvivorPasses ==
  ASSUME NEW S, Good(S), NEW p \in Proc, NEW o, Census(S, p, o), Voted(o) = {},
         NEW b \in Proc, ~Dead(S, b)
  PROVE  /\ b \in o.proposers /\ Adoptable(o, b)
         /\ At(o.node_states[b].v, b, b, 0) \in S[b]
<1>0. \A q \in Proc : o.node_states[q] \in S[q] /\ o.node_states[q].accept_round = None
  BY DEF Census, Voted
<1>1. PICK q \in VQuorum(b) \cap AliveReplicas :
        /\ q \in Proc /\ o.node_states[q] \in S[q] /\ IsFrozen(o.node_states[q])
  BY PlanFacts, PromisedMeets
<1>2. o.node_states[q].k_proposer = b
  BY <1>0, <1>1, AliveAnd
<1>3. b \in o.proposers /\ o.node_states[b].v # NoV
  BY <1>1, <1>2, NoneIsNobody DEF Census, Known
<1>4. At(o.node_states[b].v, b, b, 0) \in S[b]
  <2> DEFINE w == o.node_states[q].v
             x == At(w, b, b, 0)
  <2>1. x \in S[b] /\ w \in Uid
    BY <1>1, <1>2, AcceptedFacts, NoneIsNobody
  <2>2. x.v = w /\ x.accept_round = None
    BY <2>1, AtFields
  <2>3. x = At(w, b, b, 0)
    OBVIOUS
  <2> HIDE DEF x, w
  <2>4. o.node_states[b].v = w
    BY <2>1, <2>2, <1>0, <1>3, SameCommand, NoneIsNobody
  <2> QED BY <2>1, <2>3, <2>4
<1>5. ASSUME NEW s \in Proc, RulesOut(o, b, s)
      PROVE  FALSE
  <2> DEFINE n == o.node_states[s]
  <2>1. n \in S[s] /\ n.accept_round = None /\ IsFrozen(n)
    BY <1>0, <1>5 DEF RulesOut
  <2>2. CASE n.k_proposer = b
    BY <2>1, <2>2, <1>5, AliveAnd DEF RulesOut
  <2>3. CASE n.k_proposer # b /\ n.k_proposer = None
    BY <2>1, <2>3, <1>5, AliveAnd DEF RulesOut
  <2>4. CASE n.k_proposer # b /\ n.k_proposer # None
    <3>1. n.k_proposer \in Proc /\ n.k_state \in StateIds(n.k_proposer, s)
          /\ \A w \in Knowledge(n.k_proposer, s, n.k_state) : \E x \in S[w] : x.k_proposer = n.k_proposer
      BY <2>1, <2>4, AcceptedFacts
    <3>2. PICK w \in Knowledge(n.k_proposer, s, n.k_state) : w \in VQuorum(b)
      BY <2>4, <1>5 DEF RulesOut
    <3>3. w \in Proc
      BY <3>1, <3>2, StateType DEF Knowledge, KnowledgeState
    <3>4. PICK x \in S[w] : x.k_proposer = n.k_proposer
      BY <3>1, <3>2
    <3> HIDE DEF n
    <3> QED BY <3>2, <3>3, <3>4, <2>4, OtherKills
  <2> QED BY <2>2, <2>3, <2>4
<1> QED BY <1>3, <1>4, <1>5 DEF Adoptable

\* Nothing else passes.
LEMMA OneSurvivor ==
  ASSUME GraphSeparates, NEW S, Good(S), NEW p \in Proc, NEW o, Census(S, p, o), Voted(o) = {},
         NEW b \in Proc, ~Dead(S, b), NEW a \in o.proposers, Adoptable(o, a)
  PROVE  a = b
<1> SUFFICES ASSUME a # b PROVE FALSE
  OBVIOUS
<1>0. \A q \in Proc : o.node_states[q] \in S[q] /\ o.node_states[q].accept_round = None
  BY DEF Census, Voted
<1>1. a \in Proc /\ \E h \in S[a] : h.k_proposer = a
  BY DEF Census, Known, RoundStates
<1>2. CASE a \in VQuorum(b)
  BY <1>1, <1>2, OtherKills, NoneIsNobody
<1>3. CASE Cardinality({q \in AliveReplicas : Settles(a, b, q)}) >= Majority
  <2> DEFINE Q == {q \in AliveReplicas : Settles(a, b, q)}
  <2>1. PICK q \in Q : /\ q \in Proc /\ o.node_states[q] \in S[q]
                       /\ IsFrozen(o.node_states[q])
    BY <1>3, PromisedMeets
  <2> DEFINE n == o.node_states[q]
             c == n.k_proposer
  <2>2. /\ n \in S[q] /\ n.accept_round = None /\ IsFrozen(n) /\ ~RulesOut(o, a, q)
    BY <1>0, <2>1 DEF Adoptable
  <2>3. /\ c = None => q \notin VQuorum(a)
        /\ c = a => n.k_state = FinalStateId(a, q)
        /\ c # None /\ c # a => Knowledge(c, q, n.k_state) \cap VQuorum(a) = {}
    BY <1>1, <2>2, NoneIsNobody DEF RulesOut
  <2>4. /\ q \in VQuorum(b) => c = b
        /\ c = b => n.k_state = FinalStateId(b, q)
    BY <2>1, <2>2, AliveAnd
  <2>5. c # None =>
          /\ c \in Proc /\ n.v \in Uid /\ n.k_state \in StateIds(c, q)
          /\ At(n.v, c, c, 0) \in S[c]
          /\ \A w \in Knowledge(c, q, n.k_state) : \E x \in S[w] : x.k_proposer = c
          /\ OneStep(c, q) /\ c # q => n.k_state > 0
    BY <2>1, <2>2, AcceptedFacts
  <2>6. Settles(a, b, q)
    BY <2>1
  <2>q. q \in Proc
    BY <2>1
  <2> HIDE DEF n, c, Q
  <2>7. CASE q \in VQuorum(b) /\ VQuorum(a) \cap FinalKnowledge(b)[q] # {}
    <3>1. c = b /\ n.k_state = FinalStateId(b, q)
      BY <2>4, <2>7
    <3>2. FinalKnowledge(b)[q] \subseteq Knowledge(b, q, n.k_state)
      BY <2>7, <2>q, <3>1, PlanFacts
    <3> QED BY <3>1, <3>2, <2>3, <2>7, NoneIsNobody
  <2>8. CASE /\ q \in VQuorum(a) /\ VQuorum(b) \cap FinalKnowledge(a)[q] # {}
             /\ \/ q \in VQuorum(b)
                \/ \A d \in Proc \ {a, q} : OneStep(d, q) \/ d \in VQuorum(b) \ {b}
    <3>1. c # None
      BY <2>3, <2>8
    <3>2. CASE c = a
      <4>1. FinalKnowledge(a)[q] \subseteq Knowledge(a, q, n.k_state)
        BY <1>1, <2>3, <2>8, <2>q, <3>2, PlanFacts
      <4>2. PICK w \in VQuorum(b) : w \in Knowledge(a, q, n.k_state)
        BY <2>8, <4>1
      <4>3. n.k_state \in StateIds(a, q)
        BY <2>5, <3>1, <3>2
      <4>4. w \in Proc
        BY <1>1, <2>q, <4>2, <4>3, StateType DEF Knowledge, KnowledgeState
      <4>5. \E x \in S[w] : x.k_proposer = a
        BY <2>5, <3>1, <3>2, <4>2
      <4> QED BY <1>1, <4>2, <4>4, <4>5, OtherKills, NoneIsNobody
    <3>3. CASE c # a
      <4>1. q \notin Knowledge(c, q, n.k_state)
        BY <2>3, <2>8, <3>1, <3>3
      <4>2. c \in Proc /\ n.k_state \in StateIds(c, q)
        BY <2>5, <3>1
      <4>3. ~(n.k_state > 0) /\ q # c
        BY <2>q, <4>1, <4>2, KnowsItself
      <4>4. q \notin VQuorum(b)
        BY <2>4, <2>q, <4>1, NeededKnowsItself
      <4>5. ~OneStep(c, q)
        BY <2>5, <3>1, <4>3
      <4>6. c \in VQuorum(b) \ {b}
        BY <2>8, <3>3, <4>2, <4>3, <4>4, <4>5
      <4>7. At(n.v, c, c, 0) \in S[c] /\ At(n.v, c, c, 0).k_proposer = c
        BY <2>5, <3>1, <4>2, AtFields
      <4> QED BY <3>1, <4>2, <4>6, <4>7, OtherKills
    <3> QED BY <3>2, <3>3
  <2> QED BY <2>6, <2>7, <2>8 DEF Settles
<1> QED BY <1>1, <1>2, <1>3 DEF GraphSeparates

\* What the census obliges a leader to propose, and what it does propose, are safe.
LEMMA AdoptionSafe ==
  ASSUME GraphSeparates, NEW S, Good(S), NEW p \in Proc, NEW o, Census(S, p, o)
  PROVE  /\ FallbackOK(S, AdoptChoices(o))
         /\ \A x \in AdoptChoices(o) : FastSafe(S, x)
         /\ AdoptChoices(o) = {} => \A b \in Proc : Dead(S, b)
<1>0. o \in RoundStates
  BY DEF Census
<1>1. CASE Voted(o) # {}
  <2> DEFINE z == HighestVote(o)
             x == o.node_states[z].v
             l == o.node_states[z].accept_round
  <2>1. z \in Proc /\ l # None /\ o.node_states[z] \in S[z]
    BY <1>0, <1>1, HighestVoteExists DEF Voted, Census
  <2>2. AdoptChoices(o) = {x}
    BY <1>1 DEF AdoptChoices
  <2>3. l \in Proc /\ VoteOf(l, x) \in S[l]
    BY <2>1, VoteFacts
  <2> HIDE DEF x, l, z
  <2>4. FastSafe(S, x)
    <3>1. VoteOf(l, x).accept_round = l /\ VoteOf(l, x).v = x
      BY VoteOfFields
    <3> QED BY <2>3, <3>1 DEF Good, ReportsOK
  <2> QED BY <2>2, <2>4 DEF FallbackOK, FastSafe
<1>2. CASE Voted(o) = {}
  <2> DEFINE P == {b \in o.proposers : Adoptable(o, b)}
  <2>1. AdoptChoices(o) = {o.node_states[a].v : a \in P}
    BY <1>2 DEF AdoptChoices
  <2>2. P \subseteq o.proposers /\ \A a \in P : Adoptable(o, a)
    OBVIOUS
  <2>3. ASSUME NEW b \in Proc, ~Dead(S, b)
        PROVE  /\ P = {b} /\ At(o.node_states[b].v, b, b, 0) \in S[b]
    <3>1. b \in P /\ At(o.node_states[b].v, b, b, 0) \in S[b]
      BY <1>2, <2>3, SurvivorPasses
    <3>2. \A a \in P : a = b
      BY <1>2, <2>2, <2>3, OneSurvivor
    <3> HIDE DEF P
    <3> QED BY <3>1, <3>2
  <2> HIDE DEF P
  <2>4. ASSUME NEW b \in Proc, ~Dead(S, b)
        PROVE  AdoptChoices(o) = {o.node_states[b].v} /\ At(o.node_states[b].v, b, b, 0) \in S[b]
    BY <2>1, <2>3, <2>4
  <2>5. FallbackOK(S, AdoptChoices(o))
    BY <2>4 DEF FallbackOK
  <2>6. \A x \in AdoptChoices(o) : FastSafe(S, x)
    BY <2>4 DEF FastSafe
  <2> QED BY <2>4, <2>5, <2>6
<1> QED BY <1>1, <1>2

\* A leader's vote contradicts no lower round.
LEMMA NewVoteSafe ==
  ASSUME NEW S, Good(S), NEW p \in Proc, NEW o, Census(S, p, o), NEW x,
         Voted(o) # {} => x = o.node_states[HighestVote(o)].v
  PROVE  Safe(S, p, x)
<1> SUFFICES ASSUME NEW k \in Proc, NEW w \in Uid, k < p, MayChoose(S, k, w)
             PROVE  w = x
  BY DEF Safe
<1> DEFINE Q == {q \in AliveReplicas : MayVote(S, q, k, w)}
<1>1. Q \in SUBSET AliveReplicas /\ Cardinality(Q) >= Majority /\ \A q \in Q : MayVote(S, q, k, w)
  BY DEF MayChoose
<1> HIDE DEF Q
<1>2. PICK q \in Q : q \in Proc /\ o.node_states[q] \in S[q] /\ o.node_states[q].prepared_for = p
  BY <1>1, PromisedMeets
<1> DEFINE n == o.node_states[q]
           g == VoteOf(k, w)
<1>3. p \in Int /\ k \in Int /\ k >= 0
  BY ProcIsNat
<1>4. n.prepared_for > k /\ n \in S[q] /\ n \in NodeStates
  BY <1>2, <1>3, ReportFacts
<1>5. g \in S[q] /\ g.prepared_for = k /\ g.accept_round = k /\ g.v = w
  BY <1>1, <1>2, <1>4, VoteOfFields DEF MayVote
<1> HIDE DEF n, g
<1>6. Precedes(g, n)
  <2>1. Precedes(g, n) \/ Precedes(n, g)
    BY <1>2, <1>4, <1>5, ReportsOrdered
  <2>2. n.prepared_for \in Int
    BY <1>4, Ranks
  <2> QED BY <2>1, <2>2, <1>3, <1>4, <1>5 DEF Precedes
<1>7. n.accept_round >= k /\ n.accept_round # None
  <2>1. n.accept_round \in Int
    BY <1>4, Ranks
  <2> QED BY <2>1, <1>3, <1>5, <1>6 DEF Precedes, None
<1>8. q \in Voted(o) /\ o \in RoundStates
  BY <1>2, <1>7 DEF Voted, n, Census
<1> DEFINE z == HighestVote(o)
           y == o.node_states[z]
           l == y.accept_round
<1>9. z \in Proc /\ y \in S[z] /\ l # None /\ n.accept_round <= l /\ x = y.v
  <2>1. z \in Voted(o) /\ \A s \in Voted(o) : o.node_states[s].accept_round <= l
    BY <1>8, HighestVoteExists
  <2>2. n.accept_round <= l
    BY <1>8, <2>1 DEF n
  <2> QED BY <1>8, <2>1, <2>2 DEF Voted, Census
<1>10. l \in Proc /\ VoteOf(l, x) \in S[l] /\ x \in Uid
  BY <1>9, VoteFacts
<1> HIDE DEF z, y, l
<1>11. k <= l
  <2>1. n.accept_round \in Int /\ l \in Int
    BY <1>4, <1>10, Ranks, ProcIsNat
  <2> QED BY <2>1, <1>3, <1>7, <1>9
<1>12. CASE k = l
  <2> DEFINE u == VoteOf(l, x)
  <2>1. u.accept_round = l /\ u.v = x /\ u \in S[l]
    BY <1>10, VoteOfFields
  <2> HIDE DEF u
  <2> QED BY <2>1, <1>2, <1>5, <1>10, <1>12, NoneIsNobody, OneVotePerRound
<1>13. CASE k < l
  <2>1. VoteOf(l, x).accept_round = l /\ VoteOf(l, x).v = x
    BY VoteOfFields
  <2>2. Safe(S, l, x)
    BY <1>10, <2>1 DEF Good, ReportsOK
  <2> QED BY <2>2, <1>13 DEF Safe
<1>14. l \in Int
  BY <1>10, ProcIsNat
<1> QED BY <1>3, <1>11, <1>12, <1>13, <1>14

\* What is adopted is a command.
LEMMA AdoptedIsCommand ==
  ASSUME NEW S, Good(S), NEW p, NEW o, Census(S, p, o), NEW x \in AdoptChoices(o)
  PROVE  x \in Uid
<1>0. /\ o \in RoundStates /\ o.proposers \subseteq Proc
      /\ \A q \in Proc : o.node_states[q] \in S[q] /\ o.node_states[q] \in NodeStates
  BY DEF Census, RoundStates
<1>1. CASE Voted(o) # {}
  <2>1. HighestVote(o) \in Voted(o) /\ x = o.node_states[HighestVote(o)].v
    BY <1>0, <1>1, HighestVoteExists DEF AdoptChoices
  <2> QED BY <1>0, <2>1, VoteFacts DEF Voted
<1>2. CASE Voted(o) = {}
  <2>1. PICK a \in o.proposers : x = o.node_states[a].v
    BY <1>2 DEF AdoptChoices
  <2>2. x # NoV
    BY <2>1 DEF Census, Known
  <2> QED BY <1>0, <2>1, <2>2, Ranks
<1> QED BY <1>1, <1>2

\* The reports after p votes for x in l's round.
Voting(S, p, l, x) == [S EXCEPT ![p] = @ \cup {VoteOf(l, x)}]

\* Voting.
LEMMA VotedRound ==
  ASSUME NEW S, Good(S), NEW p \in Proc, NEW o \in RoundStates, RoundOK(S, p, o),
         NEW l \in AliveReplicas, NEW x \in Uid,
         Mine(o, p).prepared_for <= l, Mine(o, p).accept_round < l,
         l = p => Safe(S, p, x) /\ (GraphSeparates => FastSafe(S, x)),
         l # p => VoteOf(l, x) \in S[l],
         NEW n, n = VoteFor(o, p, l, x),
         NEW U, U = Voting(S, p, l, x)
  PROVE  /\ Extends(S, U, p) /\ Good(U) /\ n \in RoundStates /\ RoundOK(U, p, n)
         /\ VoteOf(l, x) \in U[p] /\ VoteOf(l, x) \in U[l]
<1> DEFINE g == VoteOf(l, x)
           h == Mine(o, p)
<1>1. l \in Proc /\ l \in Int /\ l # None
  BY ReplicasFinite, ProcIsNat, NoneIsNobody
<1>2. /\ g \in NodeStates /\ g.v = x /\ g.prepared_for = l /\ g.accept_round = l
      /\ g.k_proposer = None
  BY <1>1, VoteOfType, VoteOfFields
<1>3. h \in NodeStates /\ h \in S[p] /\ \A y \in S[p] : Precedes(y, h)
  BY MineType DEF RoundOK, Mine
<1>4. h.prepared_for <= l /\ h.accept_round < l
  OBVIOUS
<1>5. PaxosAccept(h, l, x) = g /\ Votes(h, l)
  BY <1>4 DEF PaxosAccept, Votes, VoteOf
<1>6. /\ n.node_states = Replace(o.node_states, p, g) /\ n.proposers = o.proposers
      /\ n.propagation_states = o.propagation_states /\ n.received_msgs = o.received_msgs
      /\ n.paxos_accept_count = IF l = p THEN o.paxos_accept_count + 1 ELSE o.paxos_accept_count
  <2>1. n = [SetMine(o, p, g) EXCEPT !.paxos_accept_count = IF l = p THEN @ + 1 ELSE @]
    BY <1>5 DEF VoteFor
  <2> QED BY <2>1 DEF SetMine, RoundStates
<1>7. n \in RoundStates
  BY <1>1, VoteForType
<1>8. g = VoteOf(l, x)
  OBVIOUS
<1> HIDE DEF g, h
<1>9. Precedes(h, g)
  BY <1>1, <1>2, <1>3, <1>4, Ranks DEF Precedes
<1>10. Extends(S, U, p) /\ U[p] = S[p] \cup {g} /\ Good(U) /\ \A y \in U[p] : Precedes(y, g)
  <2>1. U = [S EXCEPT ![p] = @ \cup {g}]
    BY <1>8 DEF Voting
  <2>2. g \in U[p]
    BY <2>1 DEF Good, Reports
  <2>3. Extends(S, U, p) => g \in U[l]
    BY <1>1, <1>8, <2>2 DEF Extends
  <2>4. Extends(S, U, p) => Justified(U, p, g)
    BY <1>8, <2>2, <2>3, VoteJustified
  <2>5. Extends(S, U, p) /\ g.accept_round = p =>
          Safe(U, p, g.v) /\ (GraphSeparates => FastSafe(U, g.v))
    BY <1>2, SafeGrows, FastSafeGrows
  <2> QED BY <1>2, <1>3, <1>9, <2>1, <2>4, <2>5, AddOne
<1>11. g \in U[p] /\ g \in U[l]
  BY <1>1, <1>8, <1>10 DEF Extends
<1>12. \A q \in Proc : n.node_states[q] = IF q = p THEN g ELSE o.node_states[q]
  BY <1>6 DEF Replace
<1>13. Mine(n, p) = g
  BY <1>12 DEF Mine
<1>14. \A q \in Proc : n.node_states[q] \in U[q]
  BY <1>10, <1>12 DEF RoundOK, Extends
<1>15. Known(U, n)
  <2>1. Known(U, o) /\ o.proposers \subseteq Proc
    BY <1>10, KnownGrows DEF RoundOK, RoundStates
  <2> QED BY <2>1, <1>2, <1>6, <1>12, NoneIsNobody DEF Known
<1>16. Plain(U, p, n)
  BY <1>1, <1>2, <1>13 DEF Plain, HasConflict
<1>17. n.paxos_accept_count <= Cardinality(Counted(U, p, n))
  <2>1. \A q \in Proc : o.node_states[q].accept_round <= n.node_states[q].accept_round
    <3>1. \A q \in Proc : o.node_states[q] \in NodeStates
      BY DEF RoundStates
    <3>2. h.accept_round \in Int
      BY <1>3, Ranks
    <3>3. o.node_states[p].accept_round <= g.accept_round
      BY <1>1, <1>2, <1>4, <3>2 DEF h, Mine
    <3> QED BY <1>12, <3>1, <3>3, Ranks
  <2> DEFINE A == Counted(S, p, o)
             B == Counted(U, p, n)
  <2>2. /\ A \subseteq B /\ IsFiniteSet(A) /\ IsFiniteSet(B)
        /\ Cardinality(A) <= Cardinality(B) /\ Cardinality(A) \in Nat /\ Cardinality(B) \in Nat
    BY <1>7, <1>10, <2>1, CountedGrows
  <2>3. o.paxos_accept_count \in Nat /\ o.paxos_accept_count <= Cardinality(A)
    BY DEF RoundOK, RoundStates
  <2>4. CASE l # p
    BY <2>2, <2>3, <2>4, <1>6
  <2>5. CASE l = p
    <3>1. p \notin A
      <4>1. ~(h.accept_round >= p)
        BY <1>1, <1>3, <1>4, <2>5, Ranks
      <4> QED BY <4>1 DEF Counted, h, Mine
    <3>2. p \in B
      <4>1. n.node_states[p].accept_round = p
        BY <1>2, <1>12, <2>5
      <4> QED BY <4>1, <1>1, <1>2, <1>11, <2>5 DEF Counted
    <3> HIDE DEF A, B
    <3>3. A \cup {p} \subseteq B /\ IsFiniteSet(A \cup {p})
          /\ Cardinality(A \cup {p}) = Cardinality(A) + 1
      BY <2>2, <3>1, <3>2, FS_AddElement
    <3>4. Cardinality(A \cup {p}) <= Cardinality(B)
      BY <2>2, <3>3, FS_Subset
    <3>5. n.paxos_accept_count = o.paxos_accept_count + 1
      BY <1>6, <2>5
    <3>6. n.paxos_accept_count <= Cardinality(B)
      BY <2>2, <2>3, <3>3, <3>4, <3>5
    <3> QED BY <3>6 DEF B
  <2> QED BY <2>4, <2>5
<1>18. RoundOK(U, p, n)
  <2>1. \A y \in U[p] : Precedes(y, Mine(n, p))
    BY <1>10, <1>13
  <2>2. \A a \in Proc : \A u \in StateIds(a, p) :
          u <= n.propagation_states[a] => State(a, p, u).dependencies \subseteq n.received_msgs
    BY <1>6 DEF RoundOK
  <2> QED BY <2>1, <2>2, <1>14, <1>15, <1>16, <1>17 DEF RoundOK
<1> QED BY <1>7, <1>8, <1>10, <1>11, <1>18

\* A leader hears a vote of its round.
LEMMA HeardVote ==
  ASSUME NEW S, Good(S), NEW p \in Proc, NEW o \in RoundStates, RoundOK(S, p, o),
         NEW q \in AliveReplicas, NEW v \in Uid, VoteOf(p, v) \in S[q], VoteOf(p, v) \in S[p],
         NEW n, n = RecvPaxosAccept(o, p, q, v)
  PROVE  n \in RoundStates /\ RoundOK(S, p, n)
<1> DEFINE g == VoteOf(p, v)
           h == o.node_states[q]
           y == PaxosAccept(h, p, v)
<1>1. q \in Proc /\ p \in Int /\ p # None
  BY ReplicasFinite, ProcIsNat, NoneIsNobody
<1>2. /\ g \in NodeStates /\ g.v = v /\ g.prepared_for = p /\ g.accept_round = p
      /\ g.k_proposer = None
  BY VoteOfType, VoteOfFields
<1>3. h \in NodeStates /\ h \in S[q] /\ Sound(q, h)
  BY <1>1, ReportFacts DEF RoundOK, RoundStates
<1>4. n \in RoundStates
  BY <1>1, RecvPaxosAcceptType
<1>5. /\ n.node_states = Replace(o.node_states, q, y) /\ n.proposers = o.proposers
      /\ n.propagation_states = o.propagation_states /\ n.received_msgs = o.received_msgs
      /\ n.paxos_accept_count = IF Votes(h, p) THEN o.paxos_accept_count + 1 ELSE o.paxos_accept_count
  BY DEF RecvPaxosAccept, RoundStates
<1>6. CASE ~Votes(h, p)
  <2>1. h.prepared_for \in Int /\ h.accept_round \in Int /\ h.accept_round <= h.prepared_for
    BY <1>3, Ranks DEF Sound
  <2>2. ~(h.prepared_for < p)
    BY <1>1, <1>6, <2>1 DEF Votes
  <2>3. y = h
    BY <1>6, <2>2 DEF PaxosAccept, PrepareFor
  <2>4. \A s \in Proc : n.node_states[s] = o.node_states[s]
    BY <1>5, <2>3 DEF Replace
  <2>5. n.node_states = o.node_states
    BY <1>4, <2>4 DEF RoundStates
  <2>6. n = o
    BY <1>4, <1>5, <1>6, <2>5 DEF RoundStates
  <2> QED BY <1>4, <2>6
<1>7. CASE Votes(h, p)
  <2>1. y = g
    BY <1>7 DEF PaxosAccept, VoteOf
  <2>2. h.accept_round < p
    BY <1>7 DEF Votes
  <2>3. Precedes(h, g)
    <3>1. g \in S[q]
      OBVIOUS
    <3> HIDE DEF g, h
    <3>2. Precedes(h, g) \/ Precedes(g, h)
      BY <1>1, <1>3, <3>1, ReportsOrdered
    <3>3. h.accept_round \in Int
      BY <1>3, Ranks
    <3> QED BY <3>2, <3>3, <2>2, <1>1, <1>2 DEF Precedes
  <2>g. g \in S[q] /\ g \in S[p] /\ g = VoteOf(p, v)
    OBVIOUS
  <2> HIDE DEF g, y
  <2>4. \A s \in Proc : n.node_states[s] = IF s = q THEN g ELSE o.node_states[s]
    BY <1>5, <2>1 DEF Replace
  <2>5. q # p
    <3> SUFFICES ASSUME q = p PROVE FALSE
      OBVIOUS
    <3>1. Precedes(g, h)
      BY <2>g DEF RoundOK, Mine
    <3>2. h.accept_round \in Int
      BY <1>3, Ranks
    <3> QED BY <3>1, <3>2, <2>2, <1>1, <1>2 DEF Precedes
  <2>6. Mine(n, p) = Mine(o, p)
    BY <2>4, <2>5 DEF Mine
  <2>7. HasConflict(n, p)
    <3>1. Precedes(g, Mine(o, p)) /\ Mine(o, p) \in NodeStates
      BY <2>g, MineType DEF RoundOK
    <3>2. Mine(o, p).accept_round # None
      <4>1. p >= 0 /\ Mine(o, p).accept_round >= p
        BY <3>1, <1>2, ProcIsNat DEF Precedes
      <4> QED BY <4>1, <1>1 DEF None
    <3> QED BY <3>2, <2>6 DEF HasConflict
  <2>8. \A s \in Proc : n.node_states[s] \in S[s]
    BY <2>g, <2>4 DEF RoundOK
  <2>9. Known(S, n)
    <3>1. o.proposers \subseteq Proc /\ Known(S, o)
      BY DEF RoundOK, RoundStates
    <3> QED BY <3>1, <1>2, <1>5, <2>4, NoneIsNobody DEF Known
  <2>10. Plain(S, p, n)
    BY <2>7 DEF Plain
  <2> DEFINE A == Counted(S, p, o)
             B == Counted(S, p, n)
  <2>11. \A s \in Proc : o.node_states[s].accept_round <= n.node_states[s].accept_round
    <3>1. \A s \in Proc : o.node_states[s] \in NodeStates
      BY DEF RoundStates
    <3>2. o.node_states[q].accept_round <= g.accept_round
      BY <2>3 DEF Precedes
    <3> QED BY <2>4, <3>1, <3>2, Ranks
  <2>12. /\ A \subseteq B /\ IsFiniteSet(A) /\ IsFiniteSet(B)
         /\ Cardinality(A) \in Nat /\ Cardinality(B) \in Nat
    BY <1>4, <2>11, NothingExtends, CountedGrows
  <2>13. o.paxos_accept_count \in Nat /\ o.paxos_accept_count <= Cardinality(A)
    BY DEF RoundOK, RoundStates
  <2>14. q \notin A
    <3>1. h.accept_round \in Int
      BY <1>3, Ranks
    <3>2. ~(o.node_states[q].accept_round >= p)
      BY <1>1, <2>2, <3>1
    <3> QED BY <3>2 DEF Counted
  <2>15. q \in B
    <3>1. n.node_states[q].accept_round >= p
      BY <1>1, <1>2, <2>4
    <3> QED BY <3>1, <1>2, <2>g DEF Counted
  <2> HIDE DEF A, B
  <2>16. A \cup {q} \subseteq B /\ IsFiniteSet(A \cup {q})
         /\ Cardinality(A \cup {q}) = Cardinality(A) + 1
    BY <2>12, <2>14, <2>15, FS_AddElement
  <2>17. Cardinality(A \cup {q}) <= Cardinality(B)
    BY <2>12, <2>16, FS_Subset
  <2>18. n.paxos_accept_count = o.paxos_accept_count + 1
    BY <1>5, <1>7
  <2>19. n.paxos_accept_count <= Cardinality(B)
    BY <2>12, <2>13, <2>16, <2>17, <2>18
  <2>20. \A a \in Proc : \A u \in StateIds(a, p) :
          u <= n.propagation_states[a] => State(a, p, u).dependencies \subseteq n.received_msgs
    BY <1>5 DEF RoundOK
  <2>21. \A x \in S[p] : Precedes(x, Mine(n, p))
    BY <2>6 DEF RoundOK
  <2>22. RoundOK(S, p, n)
    BY <2>8, <2>9, <2>10, <2>19, <2>20, <2>21 DEF RoundOK, B
  <2> QED BY <1>4, <2>22
<1> QED BY <1>6, <1>7

\* A leader that counted a majority has one.
LEMMA CountIsChosen ==
  ASSUME NEW S, Good(S), NEW p \in Proc, NEW o \in RoundStates, RoundOK(S, p, o),
         NEW v \in Uid, VoteOf(p, v) \in S[p], CanPaxosCommit(o)
  PROVE  SlowDecided(S, v)
<1> DEFINE A == Counted(S, p, o)
           B == {q \in AliveReplicas : VoteOf(p, v) \in S[q]}
           g == VoteOf(p, v)
<1>1. g.accept_round = p /\ g.v = v /\ p # None /\ g \in S[p]
  BY VoteOfFields, NoneIsNobody
<1>2. ASSUME NEW q \in A PROVE q \in B
  <2>1. q \in AliveReplicas /\ q \in Proc
    BY <1>2, ReplicasFinite DEF Counted
  <2>2. PICK h \in S[q] : h.accept_round = p
    BY <1>2 DEF Counted
  <2>3. VoteOf(p, h.v) \in S[q]
    BY <1>1, <2>1, <2>2, VoteFacts
  <2>4. h.v = v
    <3> HIDE DEF g
    <3> QED BY <1>1, <2>1, <2>2, OneVotePerRound
  <2> QED BY <2>1, <2>3, <2>4
<1>3. A \subseteq B /\ IsFiniteSet(B)
  BY <1>2, ReplicasFinite, FS_Subset
<1>4. Cardinality(A) <= Cardinality(B) /\ Cardinality(A) \in Nat /\ Cardinality(B) \in Nat
  BY <1>3, FS_Subset, FS_CardinalityType
<1>5. o.paxos_accept_count \in Nat /\ o.paxos_accept_count <= Cardinality(A)
      /\ o.paxos_accept_count >= Majority
  BY DEF RoundOK, RoundStates, CanPaxosCommit
<1>6. Chosen(S, p, v)
  BY <1>4, <1>5, MajorityIsNat DEF Chosen
<1> QED BY <1>6 DEF SlowDecided

-----------------------------------------------------------------------------
(* Proposing *)

\* A process that can accept a command in a round has not begun it.
LEMMA AcceptsIsClear ==
  ASSUME NEW R, NEW p \in Proc, NEW r \in RoundStates, RoundOK(R, p, r), Accepts(r, p)
  PROVE  r = ClearRound
<1> SUFFICES ASSUME r # ClearRound PROVE FALSE
  OBVIOUS
<1>1. PICK a \in Proc : \E v \in Uid : Mine(r, p) = At(v, a, p, r.propagation_states[a])
  BY DEF RoundOK, Plain, Accepts
<1>2. r.propagation_states[a] \in Nat
  BY DEF RoundStates
<1> QED BY <1>1, <1>2, AtFields, NoneIsNobody DEF Accepts

\* The reports after p proposes v.
Proposing(R, p, v) == [R EXCEPT ![p] = @ \cup {At(v, p, p, 0)}]

\* A proposer accepts its own command.
LEMMA ProposedRound ==
  ASSUME NEW R, Good(R), NEW p \in Proc, RoundOK(R, p, ClearRound), NEW v \in Uid,
         NEW n, n = [SetMine(ClearRound, p, At(v, p, p, 0)) EXCEPT !.proposers = @ \cup {p}],
         NEW S, S = Proposing(R, p, v)
  PROVE  /\ Extends(R, S, p) /\ Good(S) /\ n \in RoundStates /\ RoundOK(S, p, n)
         /\ At(v, p, p, 0) \in S[p] /\ ~HasConflict(n, p)
<1> DEFINE e == At(v, p, p, 0)
<1>1. /\ 0 \in StateIds(p, p) /\ Leader(p) \in AliveReplicas
      /\ StartsFromNothing(p, p) /\ LearnsFromMessages(p, p)
  BY PlanFacts
<1>2. /\ e \in NodeStates /\ e.v = v /\ e.k_proposer = p /\ e.k_state = 0 /\ e.accept_round = None
      /\ e.prepared_for = IF 0 = FinalStateId(p, p) THEN Leader(p) ELSE None
      /\ (IsFrozen(e) <=> 0 = FinalStateId(p, p))
  BY AtFields
<1>3. e = At(v, p, p, 0)
  OBVIOUS
<1>4. /\ ClearRound.propagation_states = [c \in Proc |-> 0]
      /\ ClearRound.received_msgs = {} /\ ClearRound.paxos_accept_count = 0
      /\ ClearRound.node_states = [c \in Proc |-> EmptyNode] /\ ClearRound.proposers = {}
      /\ ClearRound \in RoundStates
  BY EmptyNodeType DEF ClearRound, RoundStates
<1> HIDE DEF e
<1>5. /\ n \in RoundStates
      /\ n.node_states = Replace(ClearRound.node_states, p, e)
      /\ n.paxos_accept_count = 0 /\ n.proposers = {p}
      /\ n.propagation_states = [c \in Proc |-> 0]
      /\ n.received_msgs = {}
  <2> DEFINE y == SetMine(ClearRound, p, e)
  <2>1. y \in RoundStates
    BY <1>2, <1>4, SetMineType
  <2>2. /\ y.node_states = Replace(ClearRound.node_states, p, e) /\ y.proposers = {}
        /\ y.propagation_states = [c \in Proc |-> 0] /\ y.received_msgs = {}
        /\ y.paxos_accept_count = 0
    BY <1>4 DEF SetMine, RoundStates
  <2>3. n = [y EXCEPT !.proposers = @ \cup {p}]
    BY <1>3
  <2> HIDE DEF y
  <2>4. y.proposers \cup {p} \in SUBSET Proc
    BY <2>2
  <2> QED BY <2>1, <2>2, <2>3, <2>4 DEF RoundStates
<1>6. \A q \in Proc : n.node_states[q] = IF q = p THEN e ELSE EmptyNode
  BY <1>4, <1>5 DEF Replace
<1>7. Mine(n, p) = e
  BY <1>6 DEF Mine
<1>8. \A h \in R[p] : Precedes(h, EmptyNode)
  BY <1>4 DEF RoundOK, Mine
<1>9. Precedes(EmptyNode, e) /\ EmptyNode \in NodeStates
  BY <1>2, EmptyPrecedes, EmptyNodeType
<1>10. Extends(R, S, p) /\ S[p] = R[p] \cup {e} /\ Good(S) /\ \A h \in S[p] : Precedes(h, e)
  <2>1. S = [R EXCEPT ![p] = @ \cup {e}]
    BY <1>3 DEF Proposing
  <2>2. e \in S[p]
    BY <2>1 DEF Good, Reports
  <2>3. Sound(p, e)
    <3>1. e.accept_round <= e.prepared_for
      BY <1>2, Ranks
    <3> QED BY <3>1, <1>1, <1>2, NoneIsNobody DEF Sound
  <2>4. \A q \in Knowledge(p, p, 0) : q = p
    <3>1. \A q \in Knowledge(p, p, 0) : q = p \/ State(p, p, 0).remote_states[q] > 0
      BY <1>1 DEF LearnsFromMessages
    <3>2. Knowledge(p, p, 0) \subseteq Proc
      BY <1>1, StateType DEF Knowledge, KnowledgeState
    <3> QED BY <3>1, <3>2, <1>1 DEF StartsFromNothing
  <2>5. \A u \in StateIds(p, p) : u <= 0 => u = 0
    <3>1. SUFFICES ASSUME NEW u \in StateIds(p, p), u <= 0 PROVE u = 0
      OBVIOUS
    <3>2. u \in Nat
      BY PlanFacts
    <3> QED BY ONLY <3>1, <3>2
  <2>6. Extends(R, S, p) => Justified(S, p, e)
    BY <1>2, <1>3, <2>2, <2>3, <2>4, <2>5 DEF Justified
  <2>7. Extends(R, S, p) /\ e.accept_round = p =>
          Safe(S, p, e.v) /\ (GraphSeparates => FastSafe(S, e.v))
    BY <1>2, NoneIsNobody
  <2>8. \A h \in R[p] : Precedes(h, e)
    <3>1. \A h \in R[p] : h \in NodeStates
      BY DEF Good, Reports
    <3> QED BY <1>2, <1>8, <1>9, <3>1, PrecedesTransitive
  <2>9. S[p] = R[p] \cup {e}
    BY <2>1 DEF Good, Reports
  <2>10. Extends(R, S, p)
    BY <1>2, <2>1, <2>6, <2>7, <2>8, AddLast
  <2>11. Good(S)
    BY <1>2, <2>1, <2>6, <2>7, <2>8, AddLast
  <2>12. \A h \in S[p] : Precedes(h, e)
    BY <1>2, <2>1, <2>6, <2>7, <2>8, AddLast
  <2> QED BY <2>9, <2>10, <2>11, <2>12
<1>11. Known(S, n)
  <2>1. e \in S[p]
    BY <1>10
  <2> QED BY <2>1, <1>2, <1>5, <1>6, EmptyNodeFields, NoneIsNobody DEF Known
<1>12. Plain(S, p, n)
  BY <1>2, <1>3, <1>5, <1>6, <1>7, EmptyNodeFields DEF Plain
<1>13. RoundOK(S, p, n)
  <2>1. \A q \in Proc : n.node_states[q] \in S[q]
    BY <1>6, <1>10 DEF Good, ReportsOK
  <2>2. \A q \in Proc : Precedes(ClearRound.node_states[q], n.node_states[q])
    BY <1>4, <1>6, <1>9, PrecedesReflexive
  <2>3. \A h \in S[p] : Precedes(h, Mine(n, p))
    BY <1>7, <1>10
  <2>4. \A c \in Proc : \A u \in StateIds(c, p) :
           u <= n.propagation_states[c] => State(c, p, u).dependencies \subseteq n.received_msgs
    BY <1>4, <1>5 DEF RoundOK
  <2>5. n.paxos_accept_count = ClearRound.paxos_accept_count
    BY <1>4, <1>5
  <2>6. p \in Proc /\ Extends(R, S, p) /\ ClearRound \in RoundStates /\ RoundOK(R, p, ClearRound) /\ n \in RoundStates
    BY <1>4, <1>5, <1>10
  <2> QED BY ONLY <2>1, <2>2, <2>3, <2>4, <2>5, <2>6, <1>11, <1>12, RoundUpdated
<1>14. ~HasConflict(n, p)
  BY <1>2, <1>5, <1>7 DEF HasConflict
<1> QED BY <1>3, <1>5, <1>10, <1>13, <1>14
=============================================================================
