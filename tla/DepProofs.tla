----------------------------- MODULE DepProofs -----------------------------
(***************************************************************************)
(* What holds of the dependency layer for every number of processes, every  *)
(* set-up, and every workload.                                              *)
(***************************************************************************)
EXTENDS DepProperties, FiniteSetTheorems, WellFoundedInduction, TLAPS

-----------------------------------------------------------------------------
(* The largest of finitely many numbers *)

\* Every nonempty set of naturals has a lowest element.
LEMMA NatHasLowest ==
  ASSUME NEW S, S \subseteq Nat, S # {}
  PROVE  \E m \in S : \A k \in S : m <= k
<1>1. PICK m \in S : \A k \in S : <<k, m>> \notin OpToRel(<, Nat)
  BY WFMin, NatLessThanWellFounded
<1>2. \A k \in S : ~(k < m)
  BY <1>1 DEF OpToRel
<1> QED BY <1>2

\* Finitely many naturals have a bound.
LEMMA FiniteHasBound ==
  ASSUME NEW S, S \subseteq Nat, IsFiniteSet(S)
  PROVE  \E b \in Nat : \A k \in S : k <= b
<1> DEFINE n == Cardinality(S)
<1>1. n \in Nat /\ ExistsBijection(1 .. n, S)
  BY FS_CardinalityType
<1> HIDE DEF n
<1>2. PICK f \in [1 .. n -> S] : \A y \in S : \E x \in 1 .. n : f[x] = y
  BY <1>1 DEF ExistsBijection, Bijection, Injection, Surjection
<1> DEFINE B(j, b) == \A i \in 1 .. n : i <= j => f[i] <= b
<1> DEFINE Unbounded == {j \in 0 .. n : \A b \in Nat : ~B(j, b)}
<1>3. SUFFICES Unbounded = {}
  <2>1. n \in 0 .. n
    BY <1>1
  <2>2. ASSUME Unbounded = {}
        PROVE  \E b \in Nat : B(n, b)
    BY <2>1, <2>2
  <2>3. SUFFICES \E b \in Nat : B(n, b)
    BY <1>1, <1>2
  <2> QED BY <2>2
<1>4. SUFFICES ASSUME Unbounded # {}
               PROVE  FALSE
  OBVIOUS
<1>5. PICK j \in Unbounded : \A k \in Unbounded : j <= k
  <2>1. Unbounded \subseteq Nat
    BY <1>1
  <2> HIDE DEF Unbounded
  <2> QED BY <1>4, <2>1, NatHasLowest
<1>6. j # 0
  <2>1. B(0, 0)
    BY <1>1
  <2> QED BY <1>5, <2>1
<1>7. j - 1 \in 0 .. n /\ j - 1 \notin Unbounded /\ j \in 1 .. n
  <2>1. j \in 0 .. n
    OBVIOUS
  <2>2. j - 1 \in 0 .. n /\ j \in 1 .. n /\ ~(j <= j - 1)
    BY <1>1, <1>6, <2>1
  <2> QED BY <1>5, <2>2
<1>8. PICK b \in Nat : B(j - 1, b)
  BY <1>7
<1> DEFINE c == IF f[j] <= b THEN b ELSE f[j]
<1>9. c \in Nat /\ B(j, c)
  <2>1. f[j] \in Nat
    BY <1>2, <1>7
  <2>2. ASSUME NEW i \in 1 .. n, i <= j
        PROVE  f[i] <= c
    <3>1. i = j \/ i <= j - 1
      BY <1>1, <1>7, <2>2
    <3>2. f[i] \in Nat
      BY <1>2
    <3>3. i <= j - 1 => f[i] <= b
      BY <1>8
    <3>4. CASE i = j
      <4>1. f[i] = f[j]
        BY <3>4
      <4>2. ASSUME NEW x \in Nat
            PROVE  x <= IF x <= b THEN b ELSE x
        OBVIOUS
      <4> QED BY <2>1, <4>1, <4>2
    <3>5. CASE i <= j - 1
      <4>1. f[i] <= b
        BY <3>3, <3>5
      <4> QED BY <1>8, <2>1, <3>2, <4>1
    <3> QED BY <3>1, <3>4, <3>5
  <2> QED BY <2>1, <2>2
<1> QED BY <1>5, <1>9

\* Finitely many naturals, and at least one, have a largest.
LEMMA FiniteHasLargest ==
  ASSUME NEW S, S \subseteq Nat, IsFiniteSet(S), S # {}
  PROVE  \E m \in S : \A k \in S : k <= m
<1>1. PICK b \in Nat : \A k \in S : k <= b
  BY FiniteHasBound
<1> DEFINE D == {b - k : k \in S}
<1>2. D \subseteq Nat /\ D # {}
  <2>1. \A k \in S : b - k \in Nat
    BY <1>1
  <2> QED BY <2>1
<1>3. PICK d \in D : \A e \in D : d <= e
  BY <1>2, NatHasLowest
<1>4. PICK m \in S : d = b - m
  OBVIOUS
<1>5. \A k \in S : b - k \in D /\ k \in Nat
  OBVIOUS
<1>6. ASSUME NEW k \in S
      PROVE  k <= m
  <2>1. b - m <= b - k
    BY <1>3, <1>4, <1>5
  <2> QED BY <1>5, <2>1
<1> QED BY <1>6

\* The image of a finite set is finite.
LEMMA FiniteImage ==
  ASSUME NEW S, IsFiniteSet(S), NEW f, DOMAIN f = S, f = [x \in S |-> f[x]]
  PROVE  IsFiniteSet({f[x] : x \in S})
<1>1. f \in Surjection(S, {f[x] : x \in S})
  BY DEF Surjection
<1> QED BY <1>1, FS_Surjection

-----------------------------------------------------------------------------
(* Sets of instances *)

\* An instance has a process and a number.
LEMMA IdParts ==
  \A id \in Id : RequesterOf(id) \in Proc /\ IndexOf(id) \in Nat
BY DEF Id, RequesterOf, IndexOf

\* An instance is its process and its number.
LEMMA SameId ==
  ASSUME NEW a \in Id, NEW b \in Id,
         RequesterOf(a) = RequesterOf(b), IndexOf(a) = IndexOf(b)
  PROVE  a = b
BY DEF Id, RequesterOf, IndexOf

\* The empty set is a set of instances.
LEMMA NoDepsType == NoDeps \in DepSet
BY DEF NoDeps, DepSet

\* A set is not what stands for none.
LEMMA NoDepSetIsNone == NoDepSet \notin DepSet
<1>1. Proc # {}
  <2>1. 0 \in Proc
    BY TopologyAssumption
  <2> QED BY <2>1
<1>2. DOMAIN NoDepSet = {}
  BY DEF NoDepSet
<1> QED BY <1>1, <1>2 DEF DepSet

\* One set is part of another.
Within(deps, other) == \A r \in Proc : deps[r] <= other[r]

\* A larger set includes what the smaller does.
LEMMA WithinIncludes ==
  ASSUME NEW deps \in DepSet, NEW other \in DepSet, Within(deps, other),
         NEW id \in Id, Includes(deps, id)
  PROVE  Includes(other, id)
<1>1. RequesterOf(id) \in Proc /\ IndexOf(id) \in Nat
  BY IdParts
<1>2. deps[RequesterOf(id)] \in Nat /\ other[RequesterOf(id)] \in Nat
  BY <1>1 DEF DepSet
<1> QED BY <1>1, <1>2 DEF Within, Includes

\* Being part of is transitive.
LEMMA WithinTrans ==
  ASSUME NEW a \in DepSet, NEW b \in DepSet, NEW c \in DepSet, Within(a, b), Within(b, c)
  PROVE  Within(a, c)
BY DEF Within, DepSet

\* Insert adds the instance and those before it.
LEMMA InsertType ==
  ASSUME NEW deps \in DepSet, NEW id \in Id
  PROVE  /\ Insert(deps, id) \in DepSet
         /\ Within(deps, Insert(deps, id))
         /\ Includes(Insert(deps, id), id)
         /\ \A r \in Proc : \/ Insert(deps, id)[r] = deps[r]
                            \/ r = RequesterOf(id) /\ Insert(deps, id)[r] = IndexOf(id) + 1
BY IdParts DEF Insert, DepSet, Within, Includes

\* The union of two holds both.
LEMMA UnionWithType ==
  ASSUME NEW deps \in DepSet, NEW other \in DepSet
  PROVE  /\ UnionWith(deps, other) \in DepSet
         /\ Within(deps, UnionWith(deps, other)) /\ Within(other, UnionWith(deps, other))
BY DEF UnionWith, DepSet, Within

\* What is in both is in the intersection.
LEMMA IntersectWithType ==
  ASSUME NEW deps \in DepSet, NEW other \in DepSet
  PROVE  /\ IntersectWith(deps, other) \in DepSet
         /\ \A id \in Id : Includes(deps, id) /\ Includes(other, id) =>
              Includes(IntersectWith(deps, other), id)
<1>1. IntersectWith(deps, other) \in DepSet
  BY DEF IntersectWith, DepSet
<1>2. ASSUME NEW id \in Id, Includes(deps, id), Includes(other, id)
      PROVE  Includes(IntersectWith(deps, other), id)
  BY <1>2, IdParts DEF IntersectWith, Includes
<1> QED BY <1>1, <1>2

\* Another process's instances stay.
LEMMA ClearReplicaType ==
  ASSUME NEW deps \in DepSet, NEW r \in Proc
  PROVE  /\ ClearReplica(deps, r) \in DepSet
         /\ \A id \in Id : Includes(deps, id) /\ RequesterOf(id) # r =>
              Includes(ClearReplica(deps, r), id)
<1>1. ClearReplica(deps, r) \in DepSet
  BY DEF ClearReplica, DepSet
<1>2. ASSUME NEW id \in Id, Includes(deps, id), RequesterOf(id) # r
      PROVE  Includes(ClearReplica(deps, r), id)
  BY <1>2, IdParts DEF ClearReplica, Includes, DepSet
<1> QED BY <1>1, <1>2

\* Every instance but the one taken out stays.
LEMMA WithoutUidType ==
  ASSUME NEW deps \in DepSet, NEW id \in Id
  PROVE  /\ WithoutUid(deps, id) \in DepSet
         /\ Within(WithoutUid(deps, id), deps)
         /\ \A other \in Id : Includes(deps, other) /\ other # id =>
              Includes(WithoutUid(deps, id), other)
<1>1. RequesterOf(id) \in Proc /\ IndexOf(id) \in Nat
  BY IdParts
<1>2. WithoutUid(deps, id) \in DepSet /\ Within(WithoutUid(deps, id), deps)
  BY <1>1 DEF WithoutUid, DepSet, Within
<1>3. ASSUME NEW other \in Id, Includes(deps, other), other # id
      PROVE  Includes(WithoutUid(deps, id), other)
  <2>1. RequesterOf(other) \in Proc /\ IndexOf(other) \in Nat
    BY IdParts
  <2>2. CASE RequesterOf(other) # RequesterOf(id)
    BY <1>1, <1>3, <2>1, <2>2 DEF WithoutUid, DepSet, Includes
  <2>3. CASE RequesterOf(other) = RequesterOf(id)
    <3>1. IndexOf(other) # IndexOf(id)
      BY <1>3, <2>3, SameId
    <3> QED BY <1>1, <1>3, <2>1, <2>3, <3>1 DEF WithoutUid, DepSet, Includes
  <2> QED BY <2>2, <2>3
<1> QED BY <1>2, <1>3

\* The union of finitely many sets holds each of them, and nothing else.
LEMMA UnionOfType ==
  ASSUME NEW sets, sets \subseteq DepSet, IsFiniteSet(sets)
  PROVE  /\ UnionOf(sets) \in DepSet
         /\ \A deps \in sets : Within(deps, UnionOf(sets))
         /\ \A r \in Proc : UnionOf(sets)[r] = 0 \/ \E deps \in sets : UnionOf(sets)[r] = deps[r]
<1> DEFINE At(r) == {0} \cup {deps[r] : deps \in sets}
<1>1. ASSUME NEW r \in Proc
      PROVE  /\ UnionOf(sets)[r] \in At(r)
             /\ \A k \in At(r) : k <= UnionOf(sets)[r]
  <2> DEFINE f == [deps \in sets |-> deps[r]]
  <2>1. IsFiniteSet({f[deps] : deps \in sets})
    BY FiniteImage
  <2>2. {f[deps] : deps \in sets} = {deps[r] : deps \in sets}
    OBVIOUS
  <2>3. IsFiniteSet({deps[r] : deps \in sets} \cup {0})
    BY <2>1, <2>2, FS_AddElement
  <2>4. IsFiniteSet(At(r))
    <3>1. At(r) = {deps[r] : deps \in sets} \cup {0}
      OBVIOUS
    <3> QED BY <2>3, <3>1
  <2>5. At(r) \subseteq Nat /\ At(r) # {}
    BY DEF DepSet
  <2>6. UnionOf(sets)[r] = CHOOSE k \in At(r) : \A other \in At(r) : other <= k
    BY DEF UnionOf
  <2> HIDE DEF At
  <2>7. \E k \in At(r) : \A other \in At(r) : other <= k
    BY <2>4, <2>5, FiniteHasLargest
  <2> QED BY <2>6, <2>7
<1>2. UnionOf(sets) = [r \in Proc |-> UnionOf(sets)[r]]
  BY DEF UnionOf
<1>3. \A r \in Proc : UnionOf(sets)[r] \in Nat
  BY <1>1 DEF DepSet
<1>4. UnionOf(sets) \in DepSet
  <2> HIDE DEF At
  <2> QED BY <1>2, <1>3 DEF DepSet
<1>5. ASSUME NEW deps \in sets, NEW r \in Proc
      PROVE  deps[r] <= UnionOf(sets)[r]
  BY <1>1
<1>6. \A r \in Proc : UnionOf(sets)[r] = 0 \/ \E deps \in sets : UnionOf(sets)[r] = deps[r]
  BY <1>1
<1> QED BY <1>4, <1>5, <1>6 DEF Within

-----------------------------------------------------------------------------
(* Replicas and set-ups *)

\* Processes and replicas are finitely many.
LEMMA ProcFinite == IsFiniteSet(Proc) /\ IsFiniteSet(AliveReplicas) /\ AliveReplicas \subseteq Proc
<1>1. IsFiniteSet(0 .. Cardinality(Proc) - 1)
  BY TopologyAssumption, FS_Interval
<1> QED BY <1>1, TopologyAssumption, FS_Subset

\* Nobody is not a process.
LEMMA NoneIsNoProc == None \notin Proc
BY TopologyAssumption DEF None

\* A majority is a number, and more than half.
LEMMA MajorityIsMost ==
  Majority \in Nat /\ Majority > 0 /\ 2 * Majority > NbReplicas
<1>1. NbReplicas \in Nat
  BY TopologyAssumption
<1> QED BY <1>1 DEF Majority

\* The replicas that make up a majority.
IsMajority(Q) == Q \subseteq AliveReplicas /\ Cardinality(Q) >= Majority

\* Two majorities share a replica.
LEMMA MajoritiesMeet ==
  ASSUME NEW A, IsMajority(A), NEW B, IsMajority(B)
  PROVE  \E r \in A : r \in B
<1>1. IsFiniteSet(A) /\ IsFiniteSet(B)
  BY ProcFinite, FS_Subset DEF IsMajority
<1>2. Cardinality(A) \in Nat /\ Cardinality(B) \in Nat /\ Cardinality(AliveReplicas) \in Nat
  BY <1>1, ProcFinite, FS_CardinalityType
<1>3. NbReplicas \in Nat /\ Cardinality(AliveReplicas) <= NbReplicas
  BY TopologyAssumption
<1>4. Cardinality(A) + Cardinality(B) > Cardinality(AliveReplicas)
  BY <1>2, <1>3, MajorityIsMost DEF IsMajority
<1>5. A \cap B # {}
  BY <1>4, ProcFinite, FS_MajoritiesIntersect DEF IsMajority
<1> QED BY <1>5

\* What a set-up provides.
LEMMA SetupType ==
  ASSUME setup \in Setups
  PROVE  /\ setup.coordinator \in [Proc -> AliveReplicas]
         /\ setup.leader \in AliveReplicas
         /\ setup.quorum # {} => setup.leader \in setup.quorum /\ Cardinality(setup.quorum) = Majority
         /\ setup.commands \in [Proc -> Seq(Cmd)]
         /\ setup.reads \in [Proc -> Seq(Key)]
BY DepShardAssumption DEF IsSetup

\* A fast quorum is a majority at least.
LEMMA FastQuorumIsMajority ==
  ASSUME setup \in Setups
  PROVE  FastQuorum \in Int /\ FastQuorum >= Majority
<1> DEFINE size == IF EPaxos THEN (3 * NbReplicas - 1) \div 4
                   ELSE IF setup.quorum # {} THEN Majority
                   ELSE (3 * NbReplicas - 1) \div 4 + 1
<1>1. NbReplicas \in Nat /\ Majority \in Nat
  BY TopologyAssumption, MajorityIsMost
<1>2. (3 * NbReplicas - 1) \div 4 \in Int
  BY <1>1
<1>3. size \in Int
  BY <1>1, <1>2
<1> HIDE DEF size
<1>4. FastQuorum = IF size < Majority THEN Majority ELSE size
  BY DEF FastQuorum, size
<1> QED BY <1>1, <1>3, <1>4

\* Who leads an instance is a replica if its requester is one or it is SwiftPaxos.
LEMMA LeaderIsReplica ==
  ASSUME setup \in Setups, NEW id, EPaxos => RequesterOf(id) \in AliveReplicas
  PROVE  Leader(id) \in AliveReplicas
BY SetupType DEF Leader

\* What commands are about is a set of keys.
LEMMA KeysInType ==
  ASSUME NEW cs \in Seq(Cmd)
  PROVE  KeysIn(cs) \subseteq Key
<1>1. \A c \in ToSet(cs) : c \in Cmd
  BY DEF ToSet
<1> QED BY <1>1, DepShardAssumption DEF KeysIn

-----------------------------------------------------------------------------
(* What a process has seen *)

\* What was seen on some keys is at least what was seen on each.
LEMMA DepsForType ==
  ASSUME NEW s, s.conflicts \in [Key -> DepSet], NEW keys, keys \subseteq Key
  PROVE  /\ DepsFor(s, keys) \in DepSet
         /\ \A k \in keys : Within(s.conflicts[k], DepsFor(s, keys))
         /\ \A lim \in DepSet : (\A k \in Key : Within(s.conflicts[k], lim)) =>
              Within(DepsFor(s, keys), lim)
<1> DEFINE f == [k \in keys |-> s.conflicts[k]]
           sets == {s.conflicts[k] : k \in keys}
<1>1. IsFiniteSet(keys)
  BY DepShardAssumption, FS_Subset
<1>2. IsFiniteSet({f[k] : k \in keys})
  BY <1>1, FiniteImage
<1>3. {f[k] : k \in keys} = sets
  OBVIOUS
<1>4. sets \subseteq DepSet
  OBVIOUS
<1>5. DepsFor(s, keys) = UnionOf(sets)
  BY DEF DepsFor
<1>6. \A k \in keys : s.conflicts[k] \in sets
  OBVIOUS
<1>7. ASSUME NEW lim \in DepSet, \A k \in Key : Within(s.conflicts[k], lim)
      PROVE  Within(UnionOf(sets), lim)
  <2>1. \A deps \in sets : Within(deps, lim)
    BY <1>7
  <2> HIDE DEF sets
  <2>2. ASSUME NEW r \in Proc
        PROVE  UnionOf(sets)[r] <= lim[r]
    <3>1. UnionOf(sets)[r] = 0 \/ \E deps \in sets : UnionOf(sets)[r] = deps[r]
      BY <1>2, <1>3, <1>4, UnionOfType
    <3>2. lim[r] \in Nat
      BY DEF DepSet
    <3> QED BY <2>1, <3>1, <3>2 DEF Within
  <2> QED BY <2>2 DEF Within
<1> HIDE DEF sets
<1> QED BY <1>2, <1>3, <1>4, <1>5, <1>6, <1>7, UnionOfType

-----------------------------------------------------------------------------
(* Instances *)

\* The proposals of some replicas.
Proposals == UNION {[S -> DepSet] : S \in SUBSET AliveReplicas}

Instance ==
  [leader : AliveReplicas, commands : Seq(Cmd), deps : DepSet,
   phase : {PreAccepted, Accepted, Committed}, preaccepts : Proposals,
   accept_acked : SUBSET AliveReplicas, coordinator_deps : DepSet \cup {NoDepSet}]

\* Proposals are told apart by who made them.
LEMMA ProposalsType ==
  /\ \A f : f \in Proposals <=>
        /\ DOMAIN f \subseteq AliveReplicas
        /\ f = [r \in DOMAIN f |-> f[r]]
        /\ \A r \in DOMAIN f : f[r] \in DepSet
  /\ <<>> \in Proposals
<1>1. ASSUME NEW f, DOMAIN f \subseteq AliveReplicas, f = [r \in DOMAIN f |-> f[r]],
             \A r \in DOMAIN f : f[r] \in DepSet
      PROVE  f \in Proposals
  <2>1. f \in [DOMAIN f -> DepSet]
    BY <1>1
  <2> QED BY <1>1, <2>1 DEF Proposals
<1>2. ASSUME NEW f \in Proposals
      PROVE  /\ DOMAIN f \subseteq AliveReplicas
             /\ f = [r \in DOMAIN f |-> f[r]]
             /\ \A r \in DOMAIN f : f[r] \in DepSet
  BY DEF Proposals
<1>3. DOMAIN <<>> = {} /\ <<>> = [r \in DOMAIN <<>> |-> <<>>[r]]
  OBVIOUS
<1>4. <<>> \in Proposals
  BY <1>1, <1>3
<1> QED BY <1>1, <1>2, <1>4

\* An instance is one of the type invariant.
LEMMA InstanceIsInstance ==
  ASSUME NEW i \in Instance
  PROVE  IsInstance(i)
BY ProposalsType DEF Instance, IsInstance

\* The first proposal of a replica is added, whatever it proposes later.
LEMMA RecordPreacceptType ==
  ASSUME NEW i \in Instance, NEW src \in AliveReplicas, NEW deps \in DepSet
  PROVE  /\ RecordPreaccept(i, src, deps) \in Instance
         /\ RecordPreaccept(i, src, deps) = [i EXCEPT !.preaccepts = RecordPreaccept(i, src, deps).preaccepts]
         /\ DOMAIN RecordPreaccept(i, src, deps).preaccepts = DOMAIN i.preaccepts \cup {src}
         /\ \A r \in DOMAIN i.preaccepts :
              RecordPreaccept(i, src, deps).preaccepts[r] = i.preaccepts[r]
         /\ src \notin DOMAIN i.preaccepts => RecordPreaccept(i, src, deps).preaccepts[src] = deps
<1>1. CASE src \in DOMAIN i.preaccepts
  <2>1. RecordPreaccept(i, src, deps) = i
    BY <1>1 DEF RecordPreaccept
  <2> QED BY <1>1, <2>1 DEF Instance
<1>2. CASE src \notin DOMAIN i.preaccepts
  <2> DEFINE f == Put(i.preaccepts, src, deps)
  <2>1. RecordPreaccept(i, src, deps) = [i EXCEPT !.preaccepts = f]
    BY <1>2 DEF RecordPreaccept
  <2>2. /\ DOMAIN f = DOMAIN i.preaccepts \cup {src}
        /\ f = [r \in DOMAIN f |-> f[r]]
        /\ \A r \in DOMAIN i.preaccepts : f[r] = i.preaccepts[r]
        /\ f[src] = deps
    BY <1>2 DEF Put
  <2> HIDE DEF f
  <2>3. i.preaccepts \in Proposals
    BY DEF Instance
  <2>4. f \in Proposals
    BY <1>2, <2>2, <2>3, ProposalsType
  <2>5. [i EXCEPT !.preaccepts = f] \in Instance /\ [i EXCEPT !.preaccepts = f].preaccepts = f
    BY <2>4 DEF Instance
  <2> QED BY <2>1, <2>2, <2>5
<1> QED BY <1>1, <1>2

-----------------------------------------------------------------------------
(* Messages *)

\* What acks a process sends, alone or in a bundle.
AckMsg ==
  [type : {"PreAcceptOk"}, id : Id, deps : DepSet \cup {NoDepSet}]
    \cup [type : {"Accept"}, id : Id, deps : DepSet]
    \cup [type : {"AcceptOk"}, id : Id]

\* What may have to wait for the commands it is about.
LateMsg == AckMsg \cup [type : {"Commit"}, id : Id, deps : DepSet]
HeldMsg == [src : Proc, msg : LateMsg]

Message ==
  LateMsg
    \cup [type : {"PreAccept"}, id : Id, deps : DepSet, commands : Seq(Cmd)]
    \cup [type : {"Forward"}, commands : Seq(Cmd)]
    \cup [type : {"ReadRequest"}, read : Nat, key : Key]
    \cup [type : {"ReadResponse"}, read : Nat, seen : DepSet]
    \cup [type : {"DepAcks"}, acks : Seq(AckMsg)]

\* The kinds of acks.
LEMMA AckMsgType ==
  \A m \in AckMsg :
    /\ m.id \in Id
    /\ m.type \in {"PreAcceptOk", "Accept", "AcceptOk"}
    /\ m.type = "PreAcceptOk" => m.deps \in DepSet \cup {NoDepSet}
    /\ m.type = "Accept" => m.deps \in DepSet
BY DEF AckMsg

\* The kinds of messages that may wait.
LEMMA LateMsgType ==
  \A m \in LateMsg :
    /\ m.id \in Id
    /\ m.type \in {"PreAcceptOk", "Accept", "AcceptOk", "Commit"}
    /\ m.type = "PreAcceptOk" => m.deps \in DepSet \cup {NoDepSet}
    /\ m.type = "Accept" => m.deps \in DepSet
    /\ m.type = "Commit" => m.deps \in DepSet
BY AckMsgType DEF LateMsg

\* The kinds of messages.
LEMMA MessageType ==
  \A m \in Message :
    \/ m \in LateMsg
    \/ m.type = "PreAccept" /\ m.id \in Id /\ m.deps \in DepSet /\ m.commands \in Seq(Cmd)
    \/ m.type = "Forward" /\ m.commands \in Seq(Cmd)
    \/ m.type = "ReadRequest" /\ m.read \in Nat /\ m.key \in Key
    \/ m.type = "ReadResponse" /\ m.read \in Nat /\ m.seen \in DepSet
    \/ m.type = "DepAcks" /\ m.acks \in Seq(AckMsg)
BY DEF Message

-----------------------------------------------------------------------------
(* A history of the run: what was proposed, seen, voted for and decided so far. *)
(*   born      instances and the commands they carry                          *)
(*   noted     processes and the instances they have seen                     *)
(*   votes     processes, instances, and what the process would have the       *)
(*             instance depend on; the requester's vote is its proposal         *)
(*   chosen    instances and the dependencies they are committed with           *)
(*   heard     heard[p][r]: how many instances of r p has seen, or missed        *)
(*   asked     reads: process, number, key, and what was noted by then          *)
(*   answered  reads and the replicas whose answer was counted                 *)

Touches(h, id, k) == \E cs : <<id, cs>> \in h.born /\ k \in KeysIn(cs)
Conflict(h, a, b) == \E k \in Key : Touches(h, a, k) /\ Touches(h, b, k)

HistoryType(h) ==
  /\ h.born \subseteq Id \X Seq(Cmd)
  /\ h.noted \subseteq Proc \X Id
  /\ h.votes \subseteq Proc \X Id \X DepSet
  /\ h.chosen \subseteq Id \X DepSet
  /\ h.heard \in [Proc -> DepSet]
  /\ h.asked \subseteq Proc \X Nat \X Key \X SUBSET (Proc \X Id)
  /\ h.answered \subseteq Proc \X Nat \X AliveReplicas

\* An instance is proposed once, by its requester, with all that it has seen.
BornOnce(h) ==
  /\ \A id, cs, ds : <<id, cs>> \in h.born /\ <<id, ds>> \in h.born => cs = ds
  /\ \A id, cs : <<id, cs>> \in h.born =>
       /\ EPaxos => RequesterOf(id) \in AliveReplicas
       /\ \E deps : <<RequesterOf(id), id, deps>> \in h.votes

\* Instances are seen in the order of their numbers.
NotedInOrder(h) ==
  /\ \A p, id : <<p, id>> \in h.noted =>
       (\E cs : <<id, cs>> \in h.born) /\ IndexOf(id) < h.heard[p][RequesterOf(id)]
  /\ \A p, r \in Proc : h.heard[p][r] <= h.heard[r][r]

\* A process votes once on an instance, and knows nothing of later ones.
VotesOnce(h) ==
  /\ \A p, id, deps : <<p, id, deps>> \in h.votes => <<p, id>> \in h.noted
  /\ \A p, id, deps, others :
       <<p, id, deps>> \in h.votes /\ <<p, id, others>> \in h.votes => deps = others
  /\ ~EPaxos => \A p, id, deps : <<p, id, deps>> \in h.votes => Within(deps, h.heard[p])

\* Of two conflicting instances that it votes on, a process names one with the other.
VotesVisible(h) ==
  \A p, a, b, da, db :
    /\ <<p, a, da>> \in h.votes /\ <<p, b, db>> \in h.votes
    /\ a # b /\ Conflict(h, a, b)
    => Includes(da, b) \/ Includes(db, a)

\* A requester names its earlier instances.
OwnVisible(h) ==
  \A a, b, da, db :
    /\ <<RequesterOf(a), a, da>> \in h.votes /\ <<RequesterOf(b), b, db>> \in h.votes
    /\ RequesterOf(a) = RequesterOf(b) /\ IndexOf(b) < IndexOf(a) /\ Conflict(h, a, b)
    => Includes(da, b)

\* Under SwiftPaxos a process does not name two instances with each other.
VotesAcyclic(h) ==
  ~EPaxos =>
    \A p, a, b, da, db :
      <<p, a, da>> \in h.votes /\ <<p, b, db>> \in h.votes /\ a # b =>
        ~(Includes(da, b) /\ Includes(db, a))

\* A majority has seen id, and under EPaxos deps holds what each of it voted for;
\* under SwiftPaxos the leader voted for deps.
Backed(h, id, deps) ==
  /\ \E Q : /\ IsMajority(Q)
            /\ \A r \in Q :
                 /\ <<r, id>> \in h.noted
                 /\ EPaxos => \E d : <<r, id, d>> \in h.votes /\ Within(d, deps)
  /\ ~EPaxos => <<setup.leader, id, deps>> \in h.votes

ChosenOnce(h) ==
  /\ \A id, deps, others : <<id, deps>> \in h.chosen /\ <<id, others>> \in h.chosen => deps = others
  /\ \A id, deps : <<id, deps>> \in h.chosen => Backed(h, id, deps)

\* A read is asked once, and knows what had been noted.
AskedOnce(h) ==
  /\ \A p, n, k, l, N, M :
       <<p, n, k, N>> \in h.asked /\ <<p, n, l, M>> \in h.asked => k = l /\ N = M
  /\ \A p, n, k, N : <<p, n, k, N>> \in h.asked => N \subseteq h.noted
  /\ \A p, n, r : <<p, n, r>> \in h.answered => \E k, N : <<p, n, k, N>> \in h.asked

WellHistory(h) ==
  /\ HistoryType(h) /\ BornOnce(h) /\ NotedInOrder(h) /\ VotesOnce(h) /\ VotesVisible(h)
  /\ OwnVisible(h) /\ VotesAcyclic(h) /\ ChosenOnce(h) /\ AskedOnce(h)

\* A step of p makes h into g.
Extends(p, h, g) ==
  /\ h.born \subseteq g.born /\ h.noted \subseteq g.noted /\ h.votes \subseteq g.votes
  /\ h.chosen \subseteq g.chosen /\ h.asked \subseteq g.asked /\ h.answered \subseteq g.answered
  /\ \A id, cs : <<id, cs>> \in g.born => <<id, cs>> \in h.born \/ RequesterOf(id) = p
  /\ \A q, id : <<q, id>> \in g.noted => <<q, id>> \in h.noted \/ q = p
  /\ EPaxos => \A id, deps : <<id, deps>> \in g.chosen => <<id, deps>> \in h.chosen \/ RequesterOf(id) = p
  /\ \A q, n, k, N : <<q, n, k, N>> \in g.asked => <<q, n, k, N>> \in h.asked \/ q = p
  /\ \A q, n, r : <<q, n, r>> \in g.answered => <<q, n, r>> \in h.answered \/ q = p
  /\ \A q \in Proc \ {p} : g.heard[q] = h.heard[q]
  /\ Within(h.heard[p], g.heard[p])

\* A history extends itself.
LEMMA ExtendsSelf ==
  ASSUME NEW p \in Proc, NEW h, HistoryType(h)
  PROVE  Extends(p, h, h)
<1>1. \A r \in Proc : h.heard[p][r] \in Nat
  BY DEF HistoryType, DepSet
<1> QED BY <1>1 DEF Extends, Within

\* Two steps of p are one.
LEMMA ExtendsTrans ==
  ASSUME NEW p \in Proc, NEW h, NEW g, NEW f, HistoryType(h), HistoryType(g), HistoryType(f),
         Extends(p, h, g), Extends(p, g, f)
  PROVE  Extends(p, h, f)
<1>1. Within(h.heard[p], f.heard[p])
  <2>1. h.heard[p] \in DepSet /\ g.heard[p] \in DepSet /\ f.heard[p] \in DepSet
    BY DEF HistoryType
  <2> QED BY <2>1, WithinTrans DEF Extends
<1>2. \A q \in Proc \ {p} : f.heard[q] = h.heard[q]
  BY DEF Extends
<1>3. /\ h.born \subseteq f.born /\ h.noted \subseteq f.noted /\ h.votes \subseteq f.votes
      /\ h.chosen \subseteq f.chosen /\ h.asked \subseteq f.asked /\ h.answered \subseteq f.answered
  BY DEF Extends
<1>4. /\ \A id, cs : <<id, cs>> \in f.born => <<id, cs>> \in h.born \/ RequesterOf(id) = p
      /\ \A q, id : <<q, id>> \in f.noted => <<q, id>> \in h.noted \/ q = p
  BY DEF Extends
<1>5. EPaxos => \A id, deps : <<id, deps>> \in f.chosen => <<id, deps>> \in h.chosen \/ RequesterOf(id) = p
  BY DEF Extends
<1>6. /\ \A q, n, k, N : <<q, n, k, N>> \in f.asked => <<q, n, k, N>> \in h.asked \/ q = p
      /\ \A q, n, r : <<q, n, r>> \in f.answered => <<q, n, r>> \in h.answered \/ q = p
  BY DEF Extends
<1> QED BY <1>1, <1>2, <1>3, <1>4, <1>5, <1>6 DEF Extends

\* What is about an instance that was seen does not change.
LEMMA TouchesKept ==
  ASSUME NEW p \in Proc, NEW h, NEW g, WellHistory(h), WellHistory(g), Extends(p, h, g),
         NEW q, NEW id, <<q, id>> \in h.noted, NEW k
  PROVE  Touches(g, id, k) <=> Touches(h, id, k)
<1>1. PICK cs : <<id, cs>> \in h.born
  BY DEF WellHistory, NotedInOrder
<1>2. <<id, cs>> \in g.born
  BY <1>1 DEF Extends
<1>3. \A ds : <<id, ds>> \in g.born => ds = cs
  BY <1>2 DEF WellHistory, BornOnce
<1>4. h.born \subseteq g.born
  BY DEF Extends
<1> QED BY <1>1, <1>2, <1>3, <1>4 DEF Touches

\* What was backed still is.
LEMMA BackedKept ==
  ASSUME NEW p \in Proc, NEW h, NEW g, Extends(p, h, g), NEW id, NEW deps, Backed(h, id, deps)
  PROVE  Backed(g, id, deps)
BY DEF Extends, Backed

\* p sees id, which carries cs, and would have it depend on deps.
WithVote(h, p, id, cs, deps) ==
  [born |-> h.born \cup {<<id, cs>>}, noted |-> h.noted \cup {<<p, id>>},
   votes |-> h.votes \cup {<<p, id, deps>>}, chosen |-> h.chosen,
   heard |-> [h.heard EXCEPT ![p] = Insert(@, id)], asked |-> h.asked, answered |-> h.answered]

\* A first vote that names what p has seen before leaves the history well.
LEMMA VoteKeepsHistory ==
  ASSUME NEW h, WellHistory(h), NEW p \in Proc, NEW id \in Id, NEW cs \in Seq(Cmd), NEW deps \in DepSet,
         h.heard[p][RequesterOf(id)] <= IndexOf(id),
         p # RequesterOf(id) => <<id, cs>> \in h.born,
         EPaxos => RequesterOf(id) \in AliveReplicas,
         ~EPaxos => Within(deps, Insert(h.heard[p], id)),
         \A b, k : <<p, b>> \in h.noted /\ Touches(h, b, k) /\ k \in KeysIn(cs) => Includes(deps, b)
  PROVE  WellHistory(WithVote(h, p, id, cs, deps)) /\ Extends(p, h, WithVote(h, p, id, cs, deps))
<1> DEFINE g == WithVote(h, p, id, cs, deps)
<1>1. /\ g.born = h.born \cup {<<id, cs>>} /\ g.noted = h.noted \cup {<<p, id>>}
      /\ g.votes = h.votes \cup {<<p, id, deps>>} /\ g.chosen = h.chosen
      /\ g.heard = [h.heard EXCEPT ![p] = Insert(@, id)]
      /\ g.asked = h.asked /\ g.answered = h.answered
  BY DEF WithVote
<1> HIDE DEF g
<1> USE DEF WellHistory
<1>2. HistoryType(h) /\ RequesterOf(id) \in Proc /\ IndexOf(id) \in Nat /\ h.heard[p] \in DepSet
  BY IdParts DEF HistoryType
<1>3. /\ g.heard \in [Proc -> DepSet]
      /\ \A q \in Proc \ {p} : g.heard[q] = h.heard[q]
      /\ Within(h.heard[p], g.heard[p])
      /\ g.heard[p][RequesterOf(id)] = IndexOf(id) + 1
      /\ \A r \in Proc \ {RequesterOf(id)} : g.heard[p][r] = h.heard[p][r]
  <2>1. g.heard[p] = Insert(h.heard[p], id)
    BY <1>1, <1>2 DEF HistoryType
  <2>2. \A q \in Proc \ {p} : g.heard[q] = h.heard[q]
    BY <1>1, <1>2 DEF HistoryType
  <2>3. Insert(h.heard[p], id) \in DepSet /\ Within(h.heard[p], Insert(h.heard[p], id))
    BY <1>2, InsertType
  <2>4. g.heard \in [Proc -> DepSet]
    BY <1>1, <1>2, <2>3 DEF HistoryType
  <2>5. Insert(h.heard[p], id)[RequesterOf(id)] = IndexOf(id) + 1
    BY <1>2 DEF Insert, DepSet
  <2>6. \A r \in Proc \ {RequesterOf(id)} : Insert(h.heard[p], id)[r] = h.heard[p][r]
    BY <1>2 DEF Insert, DepSet
  <2> QED BY <2>1, <2>2, <2>3, <2>4, <2>5, <2>6
<1>4. HistoryType(g)
  <2>1. g.born \subseteq Id \X Seq(Cmd) /\ g.noted \subseteq Proc \X Id /\ g.votes \subseteq Proc \X Id \X DepSet
    BY <1>1, <1>2 DEF HistoryType
  <2> QED BY <1>1, <1>2, <1>3, <2>1 DEF HistoryType
\* The instance is new to p, and to everyone if p proposes it.
<1>5. <<p, id>> \notin h.noted /\ \A d : <<p, id, d>> \notin h.votes
  <2>1. <<p, id>> \notin h.noted
    <3>1. h.heard[p][RequesterOf(id)] \in Nat
      BY <1>2 DEF DepSet
    <3>2. ~(IndexOf(id) < h.heard[p][RequesterOf(id)])
      BY <1>2, <3>1
    <3> QED BY <3>2 DEF NotedInOrder
  <2> QED BY <2>1 DEF VotesOnce
<1>6. \A ds : <<id, ds>> \in h.born => ds = cs
  <2>1. CASE p = RequesterOf(id)
    BY <1>5, <2>1 DEF BornOnce
  <2>2. CASE p # RequesterOf(id)
    BY <2>2 DEF BornOnce
  <2> QED BY <2>1, <2>2
<1>7. BornOnce(g)
  <2>1. \A a, bs, ds : <<a, bs>> \in g.born /\ <<a, ds>> \in g.born => bs = ds
    BY <1>1, <1>6 DEF BornOnce
  <2>2. \A a, bs : <<a, bs>> \in g.born => (EPaxos => RequesterOf(a) \in AliveReplicas)
    BY <1>1 DEF BornOnce
  <2>3. ASSUME NEW a, NEW bs, <<a, bs>> \in g.born
        PROVE  \E d : <<RequesterOf(a), a, d>> \in g.votes
    <3>1. CASE <<a, bs>> \in h.born
      BY <1>1, <3>1 DEF BornOnce
    <3>2. CASE a = id /\ p = RequesterOf(id)
      BY <1>1, <3>2
    <3>3. CASE a = id /\ p # RequesterOf(id)
      BY <1>1, <3>3 DEF BornOnce
    <3>4. <<a, bs>> \in h.born \/ a = id
      BY <1>1, <2>3
    <3> QED BY <3>1, <3>2, <3>3, <3>4
  <2> QED BY <2>1, <2>2, <2>3 DEF BornOnce
<1>8. Extends(p, h, g)
  <2>1. \A a, bs : <<a, bs>> \in g.born => <<a, bs>> \in h.born \/ RequesterOf(a) = p
    BY <1>1
  <2>2. \A q, a : <<q, a>> \in g.noted => <<q, a>> \in h.noted \/ q = p
    BY <1>1
  <2> QED BY <1>1, <1>3, <2>1, <2>2 DEF Extends
<1>9. NotedInOrder(g)
  <2>1. ASSUME NEW q, NEW a, <<q, a>> \in g.noted
        PROVE  (\E bs : <<a, bs>> \in g.born) /\ IndexOf(a) < g.heard[q][RequesterOf(a)]
    <3>1. CASE q = p /\ a = id
      BY <1>1, <1>2, <1>3, <3>1
    <3>2. CASE <<q, a>> \in h.noted
      <4>1. (\E bs : <<a, bs>> \in g.born) /\ IndexOf(a) < h.heard[q][RequesterOf(a)]
        BY <1>1, <3>2 DEF NotedInOrder
      <4>2. q \in Proc /\ a \in Id
        BY <1>2, <3>2 DEF HistoryType
      <4>3. RequesterOf(a) \in Proc /\ IndexOf(a) \in Nat
        BY <4>2, IdParts
      <4>4. h.heard[q][RequesterOf(a)] \in Nat /\ g.heard[q][RequesterOf(a)] \in Nat
        BY <1>2, <1>3, <4>2, <4>3 DEF HistoryType, DepSet
      <4>5. h.heard[q][RequesterOf(a)] <= g.heard[q][RequesterOf(a)]
        BY <1>3, <4>2, <4>3, <4>4 DEF Within
      <4>6. IndexOf(a) < h.heard[q][RequesterOf(a)]
        BY <4>1
      <4>7. IndexOf(a) < g.heard[q][RequesterOf(a)]
        BY <4>3, <4>4, <4>5, <4>6
      <4> QED BY <4>1, <4>7
    <3>3. <<q, a>> \in h.noted \/ (q = p /\ a = id)
      BY <1>1, <2>1
    <3> QED BY <3>1, <3>2, <3>3
  <2>2. ASSUME NEW q \in Proc, NEW r \in Proc
        PROVE  g.heard[q][r] <= g.heard[r][r]
    <3>1. h.heard[q][r] <= h.heard[r][r] /\ h.heard[r][r] <= g.heard[r][r]
          /\ h.heard[q][r] \in Nat /\ h.heard[r][r] \in Nat /\ g.heard[r][r] \in Nat
      <4>1. h.heard[q][r] \in Nat /\ h.heard[r][r] \in Nat /\ g.heard[r][r] \in Nat
        BY <1>2, <1>3 DEF HistoryType, DepSet
      <4>2. h.heard[r][r] <= g.heard[r][r]
        BY <1>3, <4>1 DEF Within
      <4> QED BY <4>1, <4>2 DEF NotedInOrder
    <3>2. CASE q # p \/ r # RequesterOf(id)
      BY <1>3, <3>1, <3>2
    <3>3. CASE q = p /\ r = RequesterOf(id) /\ p # r
      <4>1. \E d : <<r, id, d>> \in h.votes
        BY <3>3 DEF BornOnce
      <4>2. <<r, id>> \in h.noted
        BY <4>1 DEF VotesOnce
      <4>3. IndexOf(id) < h.heard[r][r]
        BY <3>3, <4>2 DEF NotedInOrder
      <4> QED BY <1>2, <1>3, <3>1, <3>3, <4>3
    <3>4. CASE q = p /\ p = r
      BY <3>1, <3>4
    <3> QED BY <3>2, <3>3, <3>4
  <2> QED BY <2>1, <2>2 DEF NotedInOrder
<1>10. VotesOnce(g)
  <2>1. \A q, a, d : <<q, a, d>> \in g.votes => <<q, a>> \in g.noted
    BY <1>1 DEF VotesOnce
  <2>2. \A q, a, d, e : <<q, a, d>> \in g.votes /\ <<q, a, e>> \in g.votes => d = e
    BY <1>1, <1>5 DEF VotesOnce
  <2>3. ASSUME ~EPaxos, NEW q, NEW a, NEW d, <<q, a, d>> \in g.votes
        PROVE  Within(d, g.heard[q])
    <3>1. q \in Proc /\ d \in DepSet
      BY <1>4, <2>3 DEF HistoryType
    <3>2. CASE <<q, a, d>> \notin h.votes
      BY <1>1, <1>2, <2>3, <3>2 DEF HistoryType
    <3>3. Within(h.heard[q], g.heard[q])
      <4>1. \A r \in Proc : h.heard[q][r] \in Nat
        BY <1>2, <3>1 DEF HistoryType, DepSet
      <4>2. CASE q # p
        BY <1>3, <3>1, <4>1, <4>2 DEF Within
      <4> QED BY <1>3, <4>2
    <3>4. CASE <<q, a, d>> \in h.votes
      <4>1. Within(d, h.heard[q])
        BY <2>3, <3>4 DEF VotesOnce
      <4> QED BY <1>2, <1>3, <3>1, <3>3, <4>1, WithinTrans DEF HistoryType
    <3> QED BY <3>2, <3>4
  <2> QED BY <2>1, <2>2, <2>3 DEF VotesOnce
\* What instances seen before are about is what it was.
<1>11. \A q, a, k : <<q, a>> \in h.noted => (Touches(g, a, k) <=> Touches(h, a, k))
  <2>1. ASSUME NEW q, NEW a, NEW k, <<q, a>> \in h.noted
        PROVE  Touches(g, a, k) <=> Touches(h, a, k)
    <3>1. PICK bs : <<a, bs>> \in h.born
      BY <2>1 DEF NotedInOrder
    <3>2. \A ds : <<a, ds>> \in g.born => ds = bs
      BY <1>1, <1>7, <3>1 DEF BornOnce
    <3> QED BY <1>1, <3>1, <3>2 DEF Touches
  <2> QED BY <2>1
<1>12. \A k : Touches(g, id, k) => k \in KeysIn(cs)
  BY <1>1, <1>6 DEF Touches
<1>13. ASSUME NEW b, NEW d, <<p, b, d>> \in h.votes, Conflict(g, id, b)
       PROVE  Includes(deps, b)
  <2>1. <<p, b>> \in h.noted
    BY <1>13 DEF VotesOnce
  <2> QED BY <1>11, <1>12, <1>13, <2>1 DEF Conflict
<1>14. VotesVisible(g)
  <2>1. ASSUME NEW q, NEW a, NEW b, NEW da, NEW db, <<q, a, da>> \in g.votes, <<q, b, db>> \in g.votes,
               a # b, Conflict(g, a, b)
        PROVE  Includes(da, b) \/ Includes(db, a)
    <3>1. Conflict(g, b, a)
      BY <2>1 DEF Conflict
    <3>2. CASE <<q, a, da>> \in h.votes /\ <<q, b, db>> \in h.votes
      <4>1. Conflict(h, a, b)
        BY <1>11, <2>1, <3>2 DEF Conflict, VotesOnce
      <4> QED BY <2>1, <3>2, <4>1 DEF VotesVisible
    <3>3. CASE <<q, a, da>> \notin h.votes
      BY <1>1, <1>13, <2>1, <3>3
    <3>4. CASE <<q, b, db>> \notin h.votes
      BY <1>1, <1>13, <2>1, <3>1, <3>4
    <3> QED BY <3>2, <3>3, <3>4
  <2> QED BY <2>1 DEF VotesVisible
<1>15. OwnVisible(g)
  <2>1. ASSUME NEW a, NEW b, NEW da, NEW db,
               <<RequesterOf(a), a, da>> \in g.votes, <<RequesterOf(b), b, db>> \in g.votes,
               RequesterOf(a) = RequesterOf(b), IndexOf(b) < IndexOf(a), Conflict(g, a, b)
        PROVE  Includes(da, b)
    <3>1. CASE <<RequesterOf(a), a, da>> \in h.votes /\ <<RequesterOf(b), b, db>> \in h.votes
      <4>1. Conflict(h, a, b)
        BY <1>11, <2>1, <3>1 DEF Conflict, VotesOnce
      <4> QED BY <2>1, <3>1, <4>1 DEF OwnVisible
    <3>2. CASE <<RequesterOf(a), a, da>> \notin h.votes
      <4>1. a = id /\ da = deps /\ p = RequesterOf(a)
        BY <1>1, <2>1, <3>2
      <4>2. b # id
        BY <1>2, <2>1, <4>1
      <4> QED BY <1>1, <1>13, <2>1, <4>1, <4>2
    <3>3. CASE <<RequesterOf(a), a, da>> \in h.votes /\ <<RequesterOf(b), b, db>> \notin h.votes
      <4>1. b = id /\ p = RequesterOf(b)
        BY <1>1, <2>1, <3>3
      <4>2. IndexOf(a) < h.heard[p][RequesterOf(id)]
        BY <2>1, <3>3, <4>1 DEF VotesOnce, NotedInOrder
      <4>3. h.heard[p][RequesterOf(id)] \in Nat /\ IndexOf(a) \in Nat
        BY <1>2, <3>3, IdParts DEF HistoryType, DepSet
      <4> QED BY <1>2, <2>1, <4>1, <4>2, <4>3
    <3> QED BY <3>1, <3>2, <3>3
  <2> QED BY <2>1 DEF OwnVisible
<1>16. VotesAcyclic(g)
  <2>1. ASSUME ~EPaxos, NEW b, NEW d, <<p, b, d>> \in h.votes
        PROVE  ~Includes(d, id)
    <3>1. Within(d, h.heard[p]) /\ d \in DepSet
      BY <1>2, <2>1 DEF VotesOnce, HistoryType
    <3>2. d[RequesterOf(id)] <= h.heard[p][RequesterOf(id)]
      BY <1>2, <3>1 DEF Within
    <3>3. d[RequesterOf(id)] \in Nat /\ h.heard[p][RequesterOf(id)] \in Nat
      BY <1>2, <3>1 DEF DepSet
    <3> QED BY <1>2, <3>2, <3>3 DEF Includes
  <2>2. ASSUME ~EPaxos, NEW q, NEW a, NEW b, NEW da, NEW db,
               <<q, a, da>> \in g.votes, <<q, b, db>> \in g.votes, a # b
        PROVE  ~(Includes(da, b) /\ Includes(db, a))
    <3>1. CASE <<q, a, da>> \in h.votes /\ <<q, b, db>> \in h.votes
      BY <2>2, <3>1 DEF VotesAcyclic
    <3>2. CASE <<q, a, da>> \notin h.votes
      BY <1>1, <2>1, <2>2, <3>2
    <3>3. CASE <<q, b, db>> \notin h.votes
      BY <1>1, <2>1, <2>2, <3>3
    <3> QED BY <3>1, <3>2, <3>3
  <2> QED BY <2>2 DEF VotesAcyclic
<1>17. ChosenOnce(g)
  BY <1>1, <1>8, BackedKept DEF ChosenOnce
<1>18. AskedOnce(g)
  BY <1>1 DEF AskedOnce
<1> QED BY <1>4, <1>7, <1>8, <1>9, <1>10, <1>14, <1>15, <1>16, <1>17, <1>18 DEF g

\* id is decided with deps.
WithChoice(h, id, deps) ==
  [born |-> h.born, noted |-> h.noted, votes |-> h.votes, chosen |-> h.chosen \cup {<<id, deps>>},
   heard |-> h.heard, asked |-> h.asked, answered |-> h.answered]

\* What is backed may be decided, by the requester under EPaxos, and once.
LEMMA ChoiceKeepsHistory ==
  ASSUME NEW h, WellHistory(h), NEW p \in Proc, NEW id \in Id, NEW deps \in DepSet,
         Backed(h, id, deps),
         EPaxos => RequesterOf(id) = p /\ \A others : <<id, others>> \in h.chosen => others = deps
  PROVE  WellHistory(WithChoice(h, id, deps)) /\ Extends(p, h, WithChoice(h, id, deps))
<1> DEFINE g == WithChoice(h, id, deps)
<1>1. /\ g.born = h.born /\ g.noted = h.noted /\ g.votes = h.votes
      /\ g.chosen = h.chosen \cup {<<id, deps>>} /\ g.heard = h.heard
      /\ g.asked = h.asked /\ g.answered = h.answered
  BY DEF WithChoice
<1> HIDE DEF g
<1> USE DEF WellHistory
<1>2. HistoryType(g)
  BY <1>1 DEF HistoryType
<1>3. \A a, k : Touches(g, a, k) <=> Touches(h, a, k)
  BY <1>1 DEF Touches
<1>4. BornOnce(g) /\ NotedInOrder(g) /\ VotesOnce(g) /\ VotesAcyclic(g) /\ AskedOnce(g)
  BY <1>1 DEF BornOnce, NotedInOrder, VotesOnce, VotesAcyclic, AskedOnce
<1>5. VotesVisible(g) /\ OwnVisible(g)
  BY <1>1, <1>3 DEF VotesVisible, OwnVisible, Conflict
<1>6. \A r \in Proc : h.heard[p][r] \in Nat
  BY DEF HistoryType, DepSet
<1>7. Extends(p, h, g)
  <2>1. EPaxos => \A a, others : <<a, others>> \in g.chosen => <<a, others>> \in h.chosen \/ RequesterOf(a) = p
    BY <1>1
  <2> QED BY <1>1, <1>6, <2>1 DEF Extends, Within
<1>8. \A others : <<id, others>> \in h.chosen => others = deps
  <2>1. CASE EPaxos
    BY <2>1
  <2>2. CASE ~EPaxos
    <3>1. \A others : <<id, others>> \in h.chosen => Backed(h, id, others)
      BY DEF ChosenOnce
    <3> QED BY <2>2, <3>1 DEF Backed, VotesOnce
  <2> QED BY <2>1, <2>2
<1>9. ChosenOnce(g)
  <2>1. ASSUME NEW a, NEW d, <<a, d>> \in g.chosen
        PROVE  Backed(h, a, d) /\ (a = id => d = deps) /\ (a # id => <<a, d>> \in h.chosen)
    BY <1>1, <1>8, <2>1 DEF ChosenOnce
  <2> QED BY <1>7, <2>1, BackedKept DEF ChosenOnce
<1> QED BY <1>2, <1>4, <1>5, <1>7, <1>9 DEF g

-----------------------------------------------------------------------------
(* What holds of a process *)

\* How what is executed is chosen does what is promised of it.
ExecutionSound ==
  \A e \in [watermark : DepSet, ahead : SUBSET Id] : \A ids \in SUBSET Id :
    IsExecuted(e) /\ IsFiniteSet(ids) /\ (\A id \in ids : ~HasExecuted(e, id)) =>
      \A committed \in [ids -> DepSet] : SoundExecution(committed, e, ExecutionOf(committed, e))

ShardFields ==
  {"next_uid", "next_read", "conflicts", "executed", "instances", "deferred", "reads",
   "pending_fast", "pending_slow", "ack_recipients", "queue", "bundle", "out", "log",
   "decided", "missed", "panicked"}

IsShard(s) == DOMAIN s = ShardFields

\* p names what it has seen, and has heard of that.
Noting(p, next_uid, conflicts, h) ==
  /\ next_uid \in Nat /\ h.heard[p][p] = next_uid
  /\ conflicts \in [Key -> DepSet]
  /\ \A k \in Key : Within(conflicts[k], h.heard[p])
  /\ \A id, k : <<p, id>> \in h.noted /\ Touches(h, id, k) => Includes(conflicts[k], id)

\* An instance of p tells of votes that were cast, and is settled with cause.
InstanceOK(p, id, i, h) ==
  /\ i \in Instance /\ id \in Id
  /\ i.leader = Leader(id)
  /\ <<p, id>> \in h.noted /\ <<id, i.commands>> \in h.born
  /\ <<RequesterOf(id), id, i.coordinator_deps>> \in h.votes
  /\ \A r \in DOMAIN i.preaccepts : <<r, id, i.preaccepts[r]>> \in h.votes
  /\ \A r \in i.accept_acked : <<r, id>> \in h.noted
  /\ ~EPaxos /\ IsSettled(i) => <<setup.leader, id, i.deps>> \in h.votes
  /\ EPaxos /\ i.phase = Accepted /\ RequesterOf(id) = p => Backed(h, id, i.deps)
  /\ IsCommitted(i) => <<id, i.deps>> \in h.chosen

IsDecision(d) == d = [deps |-> d.deps, keys |-> d.keys]

Knowing(p, instances, decided, h) ==
  /\ IsFiniteSet(DOMAIN instances) /\ instances = [id \in DOMAIN instances |-> instances[id]]
  /\ \A id \in DOMAIN instances :
       InstanceOK(p, id, instances[id], h) /\ (IsCommitted(instances[id]) <=> id \in DOMAIN decided)
  /\ \A id \in DOMAIN decided :
       /\ <<p, id>> \in h.noted
       /\ <<id, decided[id].deps>> \in h.chosen
       /\ IsDecision(decided[id])
       /\ \E cs : <<id, cs>> \in h.born /\ decided[id].keys = KeysIn(cs)
  /\ EPaxos => \A id, deps : <<id, deps>> \in h.chosen /\ RequesterOf(id) = p => id \in DOMAIN decided

\* A message that may wait tells of what src has voted for, seen or decided.
LateOK(src, m, h) ==
  /\ m.type = "PreAcceptOk" =>
       /\ src \in AliveReplicas
       /\ IF m.deps = NoDepSet
          THEN \E d : <<src, m.id, d>> \in h.votes /\ <<RequesterOf(m.id), m.id, d>> \in h.votes
          ELSE <<src, m.id, m.deps>> \in h.votes
  /\ m.type = "Accept" =>
       IF EPaxos THEN src = RequesterOf(m.id)
       ELSE src = setup.leader /\ <<src, m.id, m.deps>> \in h.votes
  /\ m.type = "AcceptOk" => src \in AliveReplicas /\ <<src, m.id>> \in h.noted
  /\ m.type = "Commit" => <<m.id, m.deps>> \in h.chosen

HeldOK(p, held, h) == held.src # p /\ LateOK(held.src, held.msg, h)

AllHeldOK(p, helds, h) == helds \in Seq(HeldMsg) /\ \A j \in DOMAIN helds : HeldOK(p, helds[j], h)
AllAcksOK(p, acks, h)  == acks \in Seq(AckMsg) /\ \A j \in DOMAIN acks : LateOK(p, acks[j], h)

Holding(p, deferred, h) ==
  /\ deferred = [id \in DOMAIN deferred |-> deferred[id]]
  /\ \A id \in DOMAIN deferred : AllHeldOK(p, deferred[id], h)

\* The answers to a read tell of what the replicas had seen when it was asked.
ReadOK(p, n, read, h) ==
  /\ DOMAIN read = {"key", "union", "answers", "leader_seen", "since"}
  /\ read.key \in Key /\ read.union \in DepSet /\ read.answers \in Nat
  /\ read.leader_seen \in DepSet \cup {NoDepSet}
  /\ \E N, T :
       /\ <<p, n, read.key, N>> \in h.asked
       /\ T \subseteq AliveReplicas /\ read.answers <= Cardinality(T)
       /\ \A r \in T : <<p, n, r>> \in h.answered
       /\ \A r \in T : \A id :
            <<r, id>> \in N /\ Touches(h, id, read.key) => Includes(read.union, id)
       /\ read.leader_seen # NoDepSet =>
            ~EPaxos /\ \A id : <<setup.leader, id>> \in N /\ Touches(h, id, read.key) =>
                                 Includes(read.leader_seen, id)
       /\ ExecutionSound =>
            \A c \in read.since : read.key \in KeysOf[c] =>
              \E id, cs, Q :
                /\ <<id, cs>> \in h.born /\ c \in ToSet(cs)
                /\ IsMajority(Q) /\ \A r \in Q : <<r, id>> \in N
                /\ ~EPaxos => <<setup.leader, id>> \in N

Reading(p, next_read, reads, h) ==
  /\ next_read \in Nat /\ \A n, k, N : <<p, n, k, N>> \in h.asked => n < next_read
  /\ reads = [n \in DOMAIN reads |-> reads[n]] /\ DOMAIN reads \subseteq Nat
  /\ \A n \in DOMAIN reads : ReadOK(p, n, reads[n], h)

\* What was executed is in the log, and what is in the log was decided.
Executing(executed, log, h) ==
  /\ executed \in [watermark : DepSet, ahead : SUBSET Id] /\ IsExecuted(executed)
  /\ log \in Seq(Seq(Cmd))
  /\ \A id \in Id : HasExecuted(executed, id) =>
       \E cs : <<id, cs>> \in h.born /\ \A c \in ToSet(cs) : \E j \in DOMAIN log : c \in ToSet(log[j])
  /\ \A j \in DOMAIN log : \A c \in ToSet(log[j]) :
       \E id, cs, deps : <<id, cs>> \in h.born /\ c \in ToSet(cs) /\ <<id, deps>> \in h.chosen

ExecutesSoundly(executed, log, instances, missed, h) ==
  ExecutionSound =>
    /\ Executing(executed, log, h)
    /\ \A id \in DOMAIN instances : ~HasExecuted(executed, id)
    /\ missed = {}

Local(p, s, h) ==
  /\ IsShard(s)
  /\ Noting(p, s.next_uid, s.conflicts, h)
  /\ Knowing(p, s.instances, s.decided, h)
  /\ Holding(p, s.deferred, h)
  /\ AllHeldOK(p, s.queue, h) /\ AllHeldOK(p, s.bundle, h)
  /\ AllAcksOK(p, s.pending_fast, h) /\ AllAcksOK(p, s.pending_slow, h)
  /\ s.ack_recipients \subseteq Proc
  /\ Reading(p, s.next_read, s.reads, h)
  /\ ExecutesSoundly(s.executed, s.log, s.instances, s.missed, h)

-----------------------------------------------------------------------------
(* What p does leaves what holds of the others *)

\* A message tells of what was, whatever happens.
LEMMA LateKept ==
  ASSUME NEW p, NEW h, NEW g, Extends(p, h, g), NEW src, NEW m, LateOK(src, m, h)
  PROVE  LateOK(src, m, g)
BY DEF Extends, LateOK

\* So do messages that wait.
LEMMA HeldsKept ==
  ASSUME NEW p, NEW h, NEW g, Extends(p, h, g), NEW q, NEW helds
  PROVE  /\ AllHeldOK(q, helds, h) => AllHeldOK(q, helds, g)
         /\ AllAcksOK(q, helds, h) => AllAcksOK(q, helds, g)
BY LateKept DEF AllHeldOK, AllAcksOK, HeldOK

\* So does an instance.
LEMMA InstanceKept ==
  ASSUME NEW p, NEW h, NEW g, Extends(p, h, g), NEW q, NEW id, NEW i, InstanceOK(q, id, i, h)
  PROVE  InstanceOK(q, id, i, g)
<1>1. EPaxos /\ i.phase = Accepted /\ RequesterOf(id) = q => Backed(g, id, i.deps)
  <2>1. Backed(h, id, i.deps) => Backed(g, id, i.deps)
    BY DEF Extends, Backed
  <2> QED BY <2>1 DEF InstanceOK
<1> QED BY <1>1 DEF Extends, InstanceOK

\* So does a read.
LEMMA ReadKept ==
  ASSUME NEW p \in Proc, NEW h, NEW g, WellHistory(h), WellHistory(g), Extends(p, h, g),
         NEW q, NEW n, NEW read, ReadOK(q, n, read, h)
  PROVE  ReadOK(q, n, read, g)
<1>1. PICK N, T :
        /\ <<q, n, read.key, N>> \in h.asked
        /\ T \subseteq AliveReplicas /\ read.answers <= Cardinality(T)
        /\ \A r \in T : <<q, n, r>> \in h.answered
        /\ \A r \in T : \A id :
             <<r, id>> \in N /\ Touches(h, id, read.key) => Includes(read.union, id)
        /\ read.leader_seen # NoDepSet =>
             ~EPaxos /\ \A id : <<setup.leader, id>> \in N /\ Touches(h, id, read.key) =>
                                  Includes(read.leader_seen, id)
        /\ ExecutionSound =>
             \A c \in read.since : read.key \in KeysOf[c] =>
               \E id, cs, Q :
                 /\ <<id, cs>> \in h.born /\ c \in ToSet(cs)
                 /\ IsMajority(Q) /\ \A r \in Q : <<r, id>> \in N
                 /\ ~EPaxos => <<setup.leader, id>> \in N
  BY DEF ReadOK
<1>2. N \subseteq h.noted
  BY <1>1 DEF WellHistory, AskedOnce
<1>3. \A r, id : <<r, id>> \in N => (Touches(g, id, read.key) <=> Touches(h, id, read.key))
  BY <1>2, TouchesKept
<1>4. <<q, n, read.key, N>> \in g.asked /\ \A r \in T : <<q, n, r>> \in g.answered
  BY <1>1 DEF Extends
<1>5. \A r \in T : \A id :
        <<r, id>> \in N /\ Touches(g, id, read.key) => Includes(read.union, id)
  BY <1>1, <1>3
<1>6. read.leader_seen # NoDepSet =>
        ~EPaxos /\ \A id : <<setup.leader, id>> \in N /\ Touches(g, id, read.key) =>
                             Includes(read.leader_seen, id)
  BY <1>1, <1>3
<1>7. ExecutionSound =>
        \A c \in read.since : read.key \in KeysOf[c] =>
          \E id, cs, Q :
            /\ <<id, cs>> \in g.born /\ c \in ToSet(cs)
            /\ IsMajority(Q) /\ \A r \in Q : <<r, id>> \in N
            /\ ~EPaxos => <<setup.leader, id>> \in N
  BY <1>1 DEF Extends
<1>8. \E M, S :
        /\ <<q, n, read.key, M>> \in g.asked
        /\ S \subseteq AliveReplicas /\ read.answers <= Cardinality(S)
        /\ \A r \in S : <<q, n, r>> \in g.answered
        /\ \A r \in S : \A id :
             <<r, id>> \in M /\ Touches(g, id, read.key) => Includes(read.union, id)
        /\ read.leader_seen # NoDepSet =>
             ~EPaxos /\ \A id : <<setup.leader, id>> \in M /\ Touches(g, id, read.key) =>
                                  Includes(read.leader_seen, id)
        /\ ExecutionSound =>
             \A c \in read.since : read.key \in KeysOf[c] =>
               \E id, cs, Q :
                 /\ <<id, cs>> \in g.born /\ c \in ToSet(cs)
                 /\ IsMajority(Q) /\ \A r \in Q : <<r, id>> \in M
                 /\ ~EPaxos => <<setup.leader, id>> \in M
  BY <1>1, <1>4, <1>5, <1>6, <1>7
<1> QED BY <1>8 DEF ReadOK

\* So does what was executed.
LEMMA ExecutesKept ==
  ASSUME NEW p, NEW h, NEW g, Extends(p, h, g),
         NEW executed, NEW log, NEW instances, NEW missed,
         ExecutesSoundly(executed, log, instances, missed, h)
  PROVE  ExecutesSoundly(executed, log, instances, missed, g)
BY DEF Extends, ExecutesSoundly, Executing

\* What another process knows is none of p's business.
LEMMA OthersKept ==
  ASSUME NEW p \in Proc, NEW h, NEW g, WellHistory(h), WellHistory(g), Extends(p, h, g),
         NEW q \in Proc \ {p}, NEW s, Local(q, s, h)
  PROVE  Local(q, s, g)
<1>1. Noting(q, s.next_uid, s.conflicts, g)
  <2>1. g.heard[q] = h.heard[q] /\ \A id : <<q, id>> \in g.noted => <<q, id>> \in h.noted
    BY DEF Extends
  <2> QED BY <2>1, TouchesKept DEF Local, Noting
<1>2. Knowing(q, s.instances, s.decided, g)
  <2>1. \A id \in DOMAIN s.instances : InstanceOK(q, id, s.instances[id], g)
    BY InstanceKept DEF Local, Knowing
  <2>2. \A id \in DOMAIN s.decided :
          /\ <<q, id>> \in g.noted
          /\ <<id, s.decided[id].deps>> \in g.chosen
          /\ IsDecision(s.decided[id])
          /\ \E cs : <<id, cs>> \in g.born /\ s.decided[id].keys = KeysIn(cs)
    BY DEF Extends, Local, Knowing
  <2>3. EPaxos => \A id, deps : <<id, deps>> \in g.chosen /\ RequesterOf(id) = q => id \in DOMAIN s.decided
    BY DEF Extends, Local, Knowing
  <2> QED BY <2>1, <2>2, <2>3 DEF Local, Knowing
<1>3. Holding(q, s.deferred, g)
  BY HeldsKept DEF Local, Holding
<1>4. /\ AllHeldOK(q, s.queue, g) /\ AllHeldOK(q, s.bundle, g)
      /\ AllAcksOK(q, s.pending_fast, g) /\ AllAcksOK(q, s.pending_slow, g)
  BY HeldsKept DEF Local
<1>5. Reading(q, s.next_read, s.reads, g)
  <2>1. \A n, k, N : <<q, n, k, N>> \in g.asked => <<q, n, k, N>> \in h.asked
    BY DEF Extends
  <2>2. \A n \in DOMAIN s.reads : ReadOK(q, n, s.reads[n], g)
    BY ReadKept DEF Local, Reading
  <2> QED BY <2>1, <2>2 DEF Local, Reading
<1>6. ExecutesSoundly(s.executed, s.log, s.instances, s.missed, g)
  BY ExecutesKept DEF Local
<1> QED BY <1>1, <1>2, <1>3, <1>4, <1>5, <1>6 DEF Local

-----------------------------------------------------------------------------
(* Execution *)

\* Nothing is left to be executed of what a set includes.
LEMMA NothingPending ==
  ASSUME NEW deps \in DepSet, NEW e \in [watermark : DepSet, ahead : SUBSET Id],
         NEW id \in Id, Includes(deps, id), id \notin PendingOver(deps, e)
  PROVE  HasExecuted(e, id)
<1>1. PICK r \in Proc, n \in Nat : id = <<r, n>>
  BY DEF Id
<1>2. RequesterOf(id) = r /\ IndexOf(id) = n
  BY <1>1 DEF RequesterOf, IndexOf
<1>3. e.watermark[r] \in Nat /\ deps[r] \in Nat /\ n < deps[r]
  BY <1>2 DEF DepSet, Includes
<1>4. CASE n < e.watermark[r]
  BY <1>2, <1>4 DEF HasExecuted, Includes
<1>5. CASE ~(n < e.watermark[r])
  <2>1. n \in e.watermark[r] .. deps[r] - 1
    BY <1>3, <1>5
  <2>2. id \in {r} \X (e.watermark[r] .. deps[r] - 1)
    BY <1>1, <2>1
  <2>3. id \in e.ahead
    BY <2>2 DEF PendingOver
  <2> QED BY <2>3 DEF HasExecuted
<1> QED BY <1>4, <1>5

\* What a sound execution adds is what it names.
LEMMA ExecutedOrNamed ==
  ASSUME NEW committed, NEW e \in [watermark : DepSet, ahead : SUBSET Id], NEW x,
         SoundExecution(committed, e, x), NEW id \in Id, HasExecuted(x.executed, id)
  PROVE  HasExecuted(e, id) \/ \E k \in DOMAIN x.order : x.order[k] = id
<1> DEFINE order == {x.order[k] : k \in DOMAIN x.order}
<1>1. x.executed \in [watermark : DepSet, ahead : SUBSET Id]
  BY DEF SoundExecution, IsExecuted
<1>2. PendingOver(x.executed.watermark, e) \cup x.executed.ahead \subseteq e.ahead \cup order
  BY DEF SoundExecution
<1>3. CASE id \in e.ahead \cup order
  BY <1>3 DEF HasExecuted
<1>4. CASE id \notin e.ahead \cup order
  <2>1. id \notin PendingOver(x.executed.watermark, e) /\ id \notin x.executed.ahead
    BY <1>2, <1>4
  <2>2. Includes(x.executed.watermark, id)
    BY <2>1 DEF HasExecuted
  <2>3. x.executed.watermark \in DepSet
    BY <1>1
  <2> QED BY <2>1, <2>2, <2>3, NothingPending
<1> QED BY <1>3, <1>4

\* A read that is served sees the writes that were executed when it was asked.
LEMMA ServedMissesNothing ==
  ASSUME NEW h, WellHistory(h), ExecutionSound, NEW p, NEW n, NEW s, NEW read,
         ReadOK(p, n, read, h), Executing(s.executed, s.log, h),
         Answered(read), PendingOver(Required(read), s.executed) = {}
  PROVE  Missed(s, read) = {}
<1>1. PICK N, T :
        /\ <<p, n, read.key, N>> \in h.asked
        /\ T \subseteq AliveReplicas /\ read.answers <= Cardinality(T)
        /\ \A r \in T : <<p, n, r>> \in h.answered
        /\ \A r \in T : \A id :
             <<r, id>> \in N /\ Touches(h, id, read.key) => Includes(read.union, id)
        /\ read.leader_seen # NoDepSet =>
             ~EPaxos /\ \A id : <<setup.leader, id>> \in N /\ Touches(h, id, read.key) =>
                                  Includes(read.leader_seen, id)
        /\ ExecutionSound =>
             \A c \in read.since : read.key \in KeysOf[c] =>
               \E id, cs, Q :
                 /\ <<id, cs>> \in h.born /\ c \in ToSet(cs)
                 /\ IsMajority(Q) /\ \A r \in Q : <<r, id>> \in N
                 /\ ~EPaxos => <<setup.leader, id>> \in N
  BY DEF ReadOK
<1>2. /\ read.key \in Key /\ read.union \in DepSet /\ read.answers \in Nat
      /\ read.leader_seen \in DepSet \cup {NoDepSet}
  BY DEF ReadOK
<1>3. IsMajority(T)
  <2>1. Cardinality(T) \in Nat
    BY <1>1, ProcFinite, FS_Subset, FS_CardinalityType
  <2>2. read.answers >= Majority
    BY DEF Answered
  <2> QED BY <1>1, <1>2, <2>1, <2>2, MajorityIsMost DEF IsMajority
<1>4. ASSUME NEW c \in read.since, read.key \in KeysOf[c]
      PROVE  c \in ExecutedBy(s)
  <2>1. PICK id, cs, Q :
          /\ <<id, cs>> \in h.born /\ c \in ToSet(cs)
          /\ IsMajority(Q) /\ \A r \in Q : <<r, id>> \in N
          /\ ~EPaxos => <<setup.leader, id>> \in N
    BY <1>1, <1>4
  <2>2. id \in Id /\ cs \in Seq(Cmd)
    BY <2>1 DEF WellHistory, HistoryType
  <2>3. Touches(h, id, read.key)
    BY <1>4, <2>1 DEF Touches, KeysIn
  <2>4. PICK r \in Q : r \in T
    BY <1>3, <2>1, MajoritiesMeet
  <2>5. Includes(read.union, id)
    BY <1>1, <2>1, <2>3, <2>4
  <2>6. Required(read) \in DepSet /\ Includes(Required(read), id)
    <3>1. CASE read.leader_seen = NoDepSet
      BY <1>2, <2>5, <3>1 DEF Required
    <3>2. CASE read.leader_seen # NoDepSet
      <4>1. Includes(read.leader_seen, id)
        BY <1>1, <2>1, <2>3, <3>2
      <4>2. Required(read) = IntersectWith(read.union, read.leader_seen)
        BY <3>2 DEF Required
      <4> QED BY <1>2, <2>2, <2>5, <3>2, <4>1, <4>2, IntersectWithType
    <3> QED BY <3>1, <3>2
  <2>7. s.executed \in [watermark : DepSet, ahead : SUBSET Id]
    BY DEF Executing
  <2>8. HasExecuted(s.executed, id)
    BY <2>2, <2>6, <2>7, NothingPending
  <2>9. PICK ds : <<id, ds>> \in h.born /\ \A d \in ToSet(ds) : \E j \in DOMAIN s.log : d \in ToSet(s.log[j])
    BY <2>2, <2>8 DEF Executing
  <2>10. ds = cs
    BY <2>1, <2>9 DEF WellHistory, BornOnce
  <2>11. PICK j \in DOMAIN s.log : c \in ToSet(s.log[j])
    BY <2>1, <2>9, <2>10
  <2>12. s.log[j] \in ToSet(s.log)
    BY <2>11 DEF ToSet
  <2> QED BY <2>11, <2>12 DEF ExecutedBy
<1> QED BY <1>4 DEF Missed

\* Serving reads is nothing to the rest of the shard.
LEMMA ServeReadyLocal ==
  ASSUME NEW h, WellHistory(h), NEW p, NEW s, Local(p, s, h)
  PROVE  /\ Local(p, ServeReady(s), h)
         /\ ServeReady(s).out = s.out
<1> DEFINE ids == Servable(s.reads, s.executed)
           t == ServeReady(s)
           reads == Restrict(s.reads, DOMAIN s.reads \ ids)
           missed == s.missed \cup UNION {Missed(s, s.reads[n]) : n \in ids}
<1>1. IsShard(s)
  BY DEF Local
<1>2. t = [s EXCEPT !.reads = reads, !.missed = missed]
  BY DEF ServeReady
<1>3. /\ IsShard(t) /\ t.reads = reads /\ t.missed = missed
      /\ t.next_uid = s.next_uid /\ t.conflicts = s.conflicts /\ t.instances = s.instances
      /\ t.decided = s.decided /\ t.deferred = s.deferred /\ t.queue = s.queue /\ t.bundle = s.bundle
      /\ t.pending_fast = s.pending_fast /\ t.pending_slow = s.pending_slow
      /\ t.ack_recipients = s.ack_recipients /\ t.next_read = s.next_read
      /\ t.executed = s.executed /\ t.log = s.log /\ t.out = s.out
  <2> HIDE DEF reads, missed, t
  <2> QED BY <1>1, <1>2 DEF IsShard, ShardFields
<1>4. Reading(p, t.next_read, reads, h)
  <2>1. /\ DOMAIN reads \subseteq DOMAIN s.reads
        /\ reads = [n \in DOMAIN reads |-> reads[n]]
        /\ \A n \in DOMAIN reads : reads[n] = s.reads[n]
    BY DEF Restrict
  <2> HIDE DEF reads
  <2> QED BY <1>3, <2>1 DEF Local, Reading
<1>5. ExecutesSoundly(s.executed, s.log, s.instances, missed, h)
  <2>1. SUFFICES ASSUME ExecutionSound
                 PROVE  missed = {}
    BY DEF Local, ExecutesSoundly
  <2>2. Executing(s.executed, s.log, h) /\ s.missed = {}
    BY <2>1 DEF Local, ExecutesSoundly
  <2>3. ASSUME NEW n \in ids
        PROVE  Missed(s, s.reads[n]) = {}
    <3>1. n \in DOMAIN s.reads /\ Answered(s.reads[n]) /\ PendingOver(Required(s.reads[n]), s.executed) = {}
      BY DEF Servable
    <3>2. ReadOK(p, n, s.reads[n], h)
      BY <3>1 DEF Local, Reading
    <3> QED BY <2>1, <2>2, <3>1, <3>2, ServedMissesNothing
  <2> QED BY <2>2, <2>3
<1> HIDE DEF reads, missed, t
<1>6. Local(p, t, h)
  BY <1>3, <1>4, <1>5 DEF Local
<1> QED BY <1>3, <1>6 DEF t

\* A function from 1 on is a sequence.
LEMMA IsSequence ==
  ASSUME NEW S, NEW n \in Nat, NEW f \in [1 .. n -> S]
  PROVE  f \in Seq(S) /\ Len(f) = n
OBVIOUS

\* What a concatenation consists of.
LEMMA Concatenated ==
  ASSUME NEW S, NEW a \in Seq(S), NEW b \in Seq(S)
  PROVE  /\ a \o b \in Seq(S)
         /\ \A j \in DOMAIN a : j \in DOMAIN (a \o b) /\ (a \o b)[j] = a[j]
         /\ \A k \in DOMAIN b : Len(a) + k \in DOMAIN (a \o b) /\ (a \o b)[Len(a) + k] = b[k]
         /\ \A j \in DOMAIN (a \o b) :
              j \in DOMAIN a \/ \E k \in DOMAIN b : (a \o b)[j] = b[k]
<1>1. /\ a \o b \in Seq(S) /\ DOMAIN (a \o b) = 1 .. Len(a) + Len(b)
      /\ DOMAIN a = 1 .. Len(a) /\ DOMAIN b = 1 .. Len(b) /\ Len(a) \in Nat /\ Len(b) \in Nat
  OBVIOUS
<1>2. \A j \in 1 .. Len(a) + Len(b) : (a \o b)[j] = IF j <= Len(a) THEN a[j] ELSE b[j - Len(a)]
  OBVIOUS
<1>3. \A j \in DOMAIN (a \o b) : j \in DOMAIN a \/ (j - Len(a) \in DOMAIN b /\ (a \o b)[j] = b[j - Len(a)])
  BY <1>1, <1>2
<1>4. \A j \in DOMAIN a : j \in DOMAIN (a \o b) /\ (a \o b)[j] = a[j]
  BY <1>1, <1>2
<1>5. \A k \in DOMAIN b : Len(a) + k \in DOMAIN (a \o b) /\ (a \o b)[Len(a) + k] = b[k]
  BY <1>1, <1>2
<1> QED BY <1>1, <1>3, <1>4, <1>5

\* A sound execution takes what it executes out of the instances, and into the log.
LEMMA TakeExecutedLocal ==
  ASSUME NEW h, WellHistory(h), NEW p, NEW s, Local(p, s, h), NEW x,
         x = ExecutionOf([id \in CommittedIn(s) |-> s.instances[id].deps], s.executed)
  PROVE  /\ Local(p, TakeExecuted(s, x), h)
         /\ TakeExecuted(s, x).out = s.out
<1> DEFINE t == TakeExecuted(s, x)
           inst == Restrict(s.instances, DOMAIN s.instances \ ToSet(x.order))
           added == [k \in DOMAIN x.order |-> s.instances[x.order[k]].commands]
           log == s.log \o added
<1>1. IsShard(s)
  BY DEF Local
<1>2. t = Expect([s EXCEPT !.instances = inst, !.executed = x.executed, !.log = log], x.complete)
  BY DEF TakeExecuted
<1>3. /\ IsShard(t) /\ t.instances = inst /\ t.executed = x.executed /\ t.log = log
      /\ t.next_uid = s.next_uid /\ t.conflicts = s.conflicts
      /\ t.decided = s.decided /\ t.deferred = s.deferred /\ t.queue = s.queue /\ t.bundle = s.bundle
      /\ t.pending_fast = s.pending_fast /\ t.pending_slow = s.pending_slow
      /\ t.ack_recipients = s.ack_recipients /\ t.next_read = s.next_read /\ t.reads = s.reads
      /\ t.out = s.out /\ t.missed = s.missed
  <2> HIDE DEF inst, log, t
  <2> QED BY <1>1, <1>2 DEF IsShard, ShardFields, Expect
<1>4. /\ DOMAIN inst = DOMAIN s.instances \ ToSet(x.order)
      /\ inst = [id \in DOMAIN inst |-> inst[id]]
      /\ \A id \in DOMAIN inst : inst[id] = s.instances[id]
  BY DEF Restrict
<1>5. Knowing(p, inst, s.decided, h)
  <2>1. IsFiniteSet(DOMAIN inst)
    BY <1>4, FS_Subset DEF Local, Knowing
  <2> HIDE DEF inst
  <2> QED BY <1>4, <2>1 DEF Local, Knowing
<1>6. ExecutesSoundly(x.executed, log, inst, s.missed, h)
  <2> SUFFICES ASSUME ExecutionSound
               PROVE  /\ Executing(x.executed, log, h)
                      /\ \A id \in DOMAIN inst : ~HasExecuted(x.executed, id)
                      /\ s.missed = {}
    <3> HIDE DEF inst, log
    <3> QED BY DEF ExecutesSoundly
  <2> DEFINE ids == CommittedIn(s)
             committed == [id \in ids |-> s.instances[id].deps]
  <2>1. /\ Executing(s.executed, s.log, h) /\ s.missed = {}
        /\ \A id \in DOMAIN s.instances : ~HasExecuted(s.executed, id)
    BY DEF Local, ExecutesSoundly
  <2>2. /\ ids \subseteq DOMAIN s.instances /\ IsFiniteSet(ids)
        /\ \A id \in ids : InstanceOK(p, id, s.instances[id], h) /\ IsCommitted(s.instances[id])
    <3>1. ids \subseteq DOMAIN s.instances /\ \A id \in ids : IsCommitted(s.instances[id])
      BY DEF CommittedIn
    <3> HIDE DEF ids
    <3> QED BY <3>1, FS_Subset DEF Local, Knowing
  <2>3. \A id \in ids :
          /\ id \in Id /\ s.instances[id].deps \in DepSet /\ s.instances[id].commands \in Seq(Cmd)
          /\ <<id, s.instances[id].commands>> \in h.born
          /\ <<id, s.instances[id].deps>> \in h.chosen
    BY <2>2 DEF InstanceOK, Instance
  <2>4. s.executed \in [watermark : DepSet, ahead : SUBSET Id] /\ IsExecuted(s.executed) /\ s.log \in Seq(Seq(Cmd))
    BY <2>1 DEF Executing
  <2>5. SoundExecution(committed, s.executed, x)
    <3>1. committed \in [ids -> DepSet] /\ ids \in SUBSET Id /\ \A id \in ids : ~HasExecuted(s.executed, id)
      BY <2>1, <2>2, <2>3
    <3>2. x = ExecutionOf(committed, s.executed)
      OBVIOUS
    <3> HIDE DEF committed, ids
    <3> QED BY <2>2, <2>4, <3>1, <3>2 DEF ExecutionSound
  <2>6. x.order \in Seq(ids) /\ x.executed \in [watermark : DepSet, ahead : SUBSET Id] /\ IsExecuted(x.executed)
    <3>1. DOMAIN committed = ids
      OBVIOUS
    <3> HIDE DEF committed, ids
    <3> QED BY <2>5, <3>1 DEF SoundExecution, IsExecuted
  <2>7. \A id \in Id : HasExecuted(x.executed, id) =>
          HasExecuted(s.executed, id) \/ \E k \in DOMAIN x.order : x.order[k] = id
    <3> HIDE DEF committed
    <3>1. s.executed \in [watermark : DepSet, ahead : SUBSET Id]
      BY <2>4
    <3>2. PICK c : SoundExecution(c, s.executed, x)
      BY <2>5, Zenon
    <3>3. ASSUME NEW id \in Id, HasExecuted(x.executed, id)
          PROVE  HasExecuted(s.executed, id) \/ \E k \in DOMAIN x.order : x.order[k] = id
      BY <3>1, <3>2, <3>3, ExecutedOrNamed
    <3> QED BY <3>3
  <2> HIDE DEF ids, committed
  <2>8. added \in Seq(Seq(Cmd)) /\ DOMAIN added = DOMAIN x.order
    <3>1. \A k \in DOMAIN x.order : x.order[k] \in ids
      BY <2>6
    <3>2. \A k \in DOMAIN x.order : added[k] \in Seq(Cmd)
      BY <2>3, <3>1
    <3>3. DOMAIN x.order = 1 .. Len(x.order) /\ Len(x.order) \in Nat
      BY <2>6
    <3>4. added = [k \in 1 .. Len(x.order) |-> added[k]] /\ DOMAIN added = DOMAIN x.order
      BY <3>3
    <3> HIDE DEF added
    <3>5. added \in [1 .. Len(x.order) -> Seq(Cmd)]
      BY <3>2, <3>3, <3>4
    <3>6. added \in Seq(Seq(Cmd))
      BY <3>3, <3>5, IsSequence
    <3> QED BY <3>4, <3>6
  <2>9. \A k \in DOMAIN x.order : x.order[k] \in ids /\ added[k] = s.instances[x.order[k]].commands
    BY <2>6
  <2> HIDE DEF added
  <2>10. /\ log \in Seq(Seq(Cmd))
         /\ \A j \in DOMAIN s.log : j \in DOMAIN log /\ log[j] = s.log[j]
         /\ \A k \in DOMAIN added : Len(s.log) + k \in DOMAIN log /\ log[Len(s.log) + k] = added[k]
         /\ \A j \in DOMAIN log : j \in DOMAIN s.log \/ \E k \in DOMAIN added : log[j] = added[k]
    BY <2>4, <2>8, Concatenated
  <2> HIDE DEF log
  <2>11. ASSUME NEW id \in Id, HasExecuted(x.executed, id)
         PROVE  \E cs : <<id, cs>> \in h.born /\ \A c \in ToSet(cs) : \E j \in DOMAIN log : c \in ToSet(log[j])
    <3>1. CASE HasExecuted(s.executed, id)
      <4>1. PICK cs : <<id, cs>> \in h.born /\ \A c \in ToSet(cs) : \E j \in DOMAIN s.log : c \in ToSet(s.log[j])
        BY <2>1, <3>1 DEF Executing
      <4>2. ASSUME NEW c \in ToSet(cs)
            PROVE  \E j \in DOMAIN log : c \in ToSet(log[j])
        <5>1. PICK j \in DOMAIN s.log : c \in ToSet(s.log[j])
          BY <4>1
        <5>2. j \in DOMAIN log /\ log[j] = s.log[j]
          BY <2>10
        <5> QED BY <5>1, <5>2
      <4> QED BY <4>1, <4>2
    <3>2. CASE \E k \in DOMAIN x.order : x.order[k] = id
      <4>1. PICK k \in DOMAIN x.order : x.order[k] = id
        BY <3>2
      <4>2. id \in ids /\ added[k] = s.instances[id].commands /\ k \in DOMAIN added
        BY <2>8, <2>9, <4>1
      <4>3. Len(s.log) + k \in DOMAIN log /\ log[Len(s.log) + k] = s.instances[id].commands
        BY <2>10, <4>2
      <4>4. <<id, s.instances[id].commands>> \in h.born
        BY <2>3, <4>2
      <4> QED BY <4>3, <4>4
    <3> QED BY <2>7, <2>11, <3>1, <3>2
  <2>12. ASSUME NEW j \in DOMAIN log, NEW c \in ToSet(log[j])
         PROVE  \E id, cs, deps : <<id, cs>> \in h.born /\ c \in ToSet(cs) /\ <<id, deps>> \in h.chosen
    <3>1. CASE j \in DOMAIN s.log
      <4>1. log[j] = s.log[j]
        BY <2>10, <3>1
      <4> QED BY <2>1, <3>1, <4>1 DEF Executing
    <3>2. CASE j \notin DOMAIN s.log
      <4>1. PICK k \in DOMAIN added : log[j] = added[k]
        BY <2>10, <3>2
      <4>2. x.order[k] \in ids /\ log[j] = s.instances[x.order[k]].commands
        BY <2>8, <2>9, <4>1
      <4> QED BY <2>3, <4>2
    <3> QED BY <3>1, <3>2
  <2>13. ASSUME NEW id \in DOMAIN inst
         PROVE  ~HasExecuted(x.executed, id)
    <3>1. id \in DOMAIN s.instances /\ id \notin ToSet(x.order)
      BY <1>4
    <3>2. ~HasExecuted(s.executed, id) /\ id \in Id
      BY <2>1, <3>1 DEF Local, Knowing, InstanceOK
    <3>3. ~\E k \in DOMAIN x.order : x.order[k] = id
      BY <3>1 DEF ToSet
    <3> QED BY <2>7, <3>2, <3>3
  <2> QED BY <2>1, <2>6, <2>10, <2>11, <2>12, <2>13 DEF Executing
<1> HIDE DEF inst, log, t
<1>7. Local(p, t, h)
  BY <1>3, <1>5, <1>6 DEF Local
<1> QED BY <1>3, <1>7 DEF t

-----------------------------------------------------------------------------
(* What p sends *)

\* What src told dest, or asked of it, was so.
MessageOK(src, dest, m, h) ==
  /\ LateOK(src, m, h)
  /\ m.type = "PreAccept" =>
       /\ src = RequesterOf(m.id)
       /\ <<m.id, m.commands>> \in h.born /\ <<src, m.id, m.deps>> \in h.votes
  /\ m.type = "Forward" => dest \in AliveReplicas
  /\ m.type = "ReadRequest" =>
       dest \in AliveReplicas /\ \E N : <<src, m.read, m.key, N>> \in h.asked
  /\ m.type = "ReadResponse" =>
       /\ src \in AliveReplicas
       /\ \E k, N : /\ <<dest, m.read, k, N>> \in h.asked
                    /\ \A id : <<src, id>> \in N /\ Touches(h, id, k) => Includes(m.seen, id)
  /\ m.type = "DepAcks" => m.acks # <<>> /\ AllAcksOK(src, m.acks, h)

\* p sends what is so, of its instances only one that is none of its first n, and that first.
Sending(p, out, n, h) ==
  /\ out \in [Proc -> Seq(Message)]
  /\ \A q \in Proc \ {p} : \A j \in DOMAIN out[q] :
       /\ MessageOK(p, q, out[q][j], h)
       /\ out[q][j].type \notin {"ReadRequest", "ReadResponse"}
       /\ out[q][j].type = "PreAccept" => j = 1 /\ n <= IndexOf(out[q][j].id)

Fine(p, s, n, h) == WellHistory(h) /\ Local(p, s, h) /\ Sending(p, s.out, n, h)

\* Without p having seen more instances, its shard has become s.
Reaches(p, h, n, s) ==
  \E g : Extends(p, h, g) /\ g.heard = h.heard /\ g.answered = h.answered /\ Fine(p, s, n, g)

\* A message stays true.
LEMMA MessageKept ==
  ASSUME NEW p \in Proc, NEW h, NEW g, WellHistory(h), WellHistory(g), Extends(p, h, g),
         NEW src, NEW dest, NEW m, MessageOK(src, dest, m, h)
  PROVE  MessageOK(src, dest, m, g)
<1>1. LateOK(src, m, g)
  BY LateKept DEF MessageOK
<1>2. ASSUME m.type = "ReadResponse"
      PROVE  \E k, N : /\ <<dest, m.read, k, N>> \in g.asked
                       /\ \A id : <<src, id>> \in N /\ Touches(g, id, k) => Includes(m.seen, id)
  <2>1. PICK k, N : /\ <<dest, m.read, k, N>> \in h.asked
                    /\ \A id : <<src, id>> \in N /\ Touches(h, id, k) => Includes(m.seen, id)
    BY <1>2 DEF MessageOK
  <2>2. N \subseteq h.noted
    BY <2>1 DEF WellHistory, AskedOnce
  <2>3. \A id : <<src, id>> \in N /\ Touches(g, id, k) => Includes(m.seen, id)
    BY <2>1, <2>2, TouchesKept
  <2>4. <<dest, m.read, k, N>> \in g.asked
    BY <2>1 DEF Extends
  <2> QED BY <2>3, <2>4
<1>3. m.type = "DepAcks" => AllAcksOK(src, m.acks, g)
  BY HeldsKept DEF MessageOK
<1>4. /\ h.born \subseteq g.born /\ h.votes \subseteq g.votes /\ h.asked \subseteq g.asked
  BY DEF Extends
<1> QED BY <1>1, <1>2, <1>3, <1>4 DEF MessageOK

\* So does what p is about to send.
LEMMA SendingKept ==
  ASSUME NEW p \in Proc, NEW h, NEW g, WellHistory(h), WellHistory(g), Extends(p, h, g),
         NEW out, NEW n, Sending(p, out, n, h)
  PROVE  Sending(p, out, n, g)
BY MessageKept DEF Sending

\* What can be reached by one step and then another can be reached.
LEMMA ReachesTrans ==
  ASSUME NEW p \in Proc, NEW h, NEW g, WellHistory(h), WellHistory(g), Extends(p, h, g), g.heard = h.heard,
         g.answered = h.answered, NEW n, NEW s, Reaches(p, g, n, s)
  PROVE  Reaches(p, h, n, s)
<1>1. PICK f : Extends(p, g, f) /\ f.heard = g.heard /\ f.answered = g.answered /\ Fine(p, s, n, f)
  BY DEF Reaches
<1>2. HistoryType(h) /\ HistoryType(g) /\ HistoryType(f)
  BY <1>1 DEF WellHistory, Fine
<1>3. Extends(p, h, f)
  BY <1>1, <1>2, ExtendsTrans
<1> QED BY <1>1, <1>3 DEF Reaches

\* What is fine has been reached.
LEMMA ReachesSelf ==
  ASSUME NEW p \in Proc, NEW h, NEW n, NEW s, Fine(p, s, n, h)
  PROVE  Reaches(p, h, n, s)
<1>1. Extends(p, h, h)
  BY ExtendsSelf DEF Fine, WellHistory
<1> QED BY <1>1 DEF Reaches

\* Sending what is so is fine.
LEMMA SendFine ==
  ASSUME NEW p \in Proc, NEW h, NEW n, NEW s, Fine(p, s, n, h), NEW D, NEW m \in Message,
         m.type \notin {"PreAccept", "ReadRequest", "ReadResponse"},
         \A q \in D \ {p} : MessageOK(p, q, m, h)
  PROVE  Fine(p, SendTo(s, D, m), n, h) /\ SendTo(s, D, m).instances = s.instances
<1> DEFINE out == [q \in Proc |-> IF q \in D THEN Append(s.out[q], m) ELSE s.out[q]]
           t == SendTo(s, D, m)
<1>1. IsShard(s) /\ s.out \in [Proc -> Seq(Message)]
  BY DEF Fine, Local, Sending
<1>2. t = [s EXCEPT !.out = out]
  BY DEF SendTo
<1>3. Sending(p, out, n, h)
  <2>1. out \in [Proc -> Seq(Message)]
    BY <1>1
  <2>2. ASSUME NEW q \in Proc \ {p}, NEW j \in DOMAIN out[q]
        PROVE  /\ MessageOK(p, q, out[q][j], h)
               /\ out[q][j].type \notin {"ReadRequest", "ReadResponse"}
               /\ out[q][j].type = "PreAccept" => j = 1 /\ n <= IndexOf(out[q][j].id)
    <3>1. (j \in DOMAIN s.out[q] /\ out[q][j] = s.out[q][j]) \/ (q \in D /\ out[q][j] = m)
      BY <1>1
    <3> HIDE DEF out
    <3> QED BY <3>1 DEF Fine, Sending
  <2> HIDE DEF out
  <2> QED BY <2>1, <2>2 DEF Sending
<1> HIDE DEF out
<1>4. /\ IsShard(t) /\ t.out = out
      /\ t.next_uid = s.next_uid /\ t.conflicts = s.conflicts /\ t.instances = s.instances
      /\ t.decided = s.decided /\ t.deferred = s.deferred /\ t.queue = s.queue /\ t.bundle = s.bundle
      /\ t.pending_fast = s.pending_fast /\ t.pending_slow = s.pending_slow
      /\ t.ack_recipients = s.ack_recipients /\ t.next_read = s.next_read /\ t.reads = s.reads
      /\ t.executed = s.executed /\ t.log = s.log /\ t.missed = s.missed
  <2> HIDE DEF t
  <2> QED BY <1>1, <1>2 DEF IsShard, ShardFields
<1> HIDE DEF t
<1>5. Local(p, t, h)
  BY <1>4 DEF Local, Fine
<1> QED BY <1>3, <1>4, <1>5 DEF Fine, t

\* Assertions are nothing to what holds of a process.
LEMMA ExpectFine ==
  ASSUME NEW p, NEW h, NEW n, NEW s, NEW holds
  PROVE  /\ Local(p, s, h) => /\ Local(p, Expect(s, holds), h)
                              /\ Expect(s, holds).instances = s.instances
                              /\ Expect(s, holds).executed = s.executed
                              /\ Expect(s, holds).out = s.out
         /\ Fine(p, s, n, h) => Fine(p, Expect(s, holds), n, h)
<1> DEFINE t == Expect(s, holds)
<1>1. SUFFICES ASSUME Local(p, s, h)
               PROVE  Local(p, t, h) /\ t.instances = s.instances /\ t.executed = s.executed /\ t.out = s.out
  BY DEF Fine
<1>2. /\ IsShard(t) /\ t.out = s.out
      /\ t.next_uid = s.next_uid /\ t.conflicts = s.conflicts /\ t.instances = s.instances
      /\ t.decided = s.decided /\ t.deferred = s.deferred /\ t.queue = s.queue /\ t.bundle = s.bundle
      /\ t.pending_fast = s.pending_fast /\ t.pending_slow = s.pending_slow
      /\ t.ack_recipients = s.ack_recipients /\ t.next_read = s.next_read /\ t.reads = s.reads
      /\ t.executed = s.executed /\ t.log = s.log /\ t.missed = s.missed
  BY <1>1 DEF Local, IsShard, ShardFields, Expect
<1> HIDE DEF t
<1> QED BY <1>1, <1>2 DEF Local

\* An instance may be replaced by one that tells the truth, before it is committed.
LEMMA UpdateFine ==
  ASSUME NEW p, NEW h, NEW n, NEW s, Fine(p, s, n, h), NEW id \in DOMAIN s.instances, NEW i,
         InstanceOK(p, id, i, h), ~IsCommitted(s.instances[id]), ~IsCommitted(i)
  PROVE  /\ Fine(p, [s EXCEPT !.instances[id] = i], n, h)
         /\ id \in DOMAIN [s EXCEPT !.instances[id] = i].instances
         /\ [s EXCEPT !.instances[id] = i].instances[id] = i
<1> DEFINE t == [s EXCEPT !.instances[id] = i]
           inst == [s.instances EXCEPT ![id] = i]
<1>1. IsShard(s)
  BY DEF Fine, Local
<1>2. t = [s EXCEPT !.instances = inst]
  BY <1>1 DEF IsShard, ShardFields
<1>3. /\ DOMAIN inst = DOMAIN s.instances /\ inst = [a \in DOMAIN inst |-> inst[a]] /\ inst[id] = i
      /\ \A a \in DOMAIN inst : a # id => inst[a] = s.instances[a]
  OBVIOUS
<1> HIDE DEF inst, t
<1>4. /\ IsShard(t) /\ t.out = s.out
      /\ t.next_uid = s.next_uid /\ t.conflicts = s.conflicts /\ t.instances = inst
      /\ t.decided = s.decided /\ t.deferred = s.deferred /\ t.queue = s.queue /\ t.bundle = s.bundle
      /\ t.pending_fast = s.pending_fast /\ t.pending_slow = s.pending_slow
      /\ t.ack_recipients = s.ack_recipients /\ t.next_read = s.next_read /\ t.reads = s.reads
      /\ t.executed = s.executed /\ t.log = s.log /\ t.missed = s.missed
  BY <1>1, <1>2 DEF IsShard, ShardFields
<1>5. Knowing(p, inst, s.decided, h)
  <2>1. \A a \in DOMAIN inst : InstanceOK(p, a, inst[a], h) /\ (IsCommitted(inst[a]) <=> a \in DOMAIN s.decided)
    BY <1>3 DEF Fine, Local, Knowing
  <2> QED BY <1>3, <2>1 DEF Fine, Local, Knowing
<1>6. ExecutesSoundly(s.executed, s.log, inst, s.missed, h)
  BY <1>3 DEF Fine, Local, ExecutesSoundly
<1>7. Local(p, t, h)
  BY <1>4, <1>5, <1>6 DEF Local, Fine
<1> QED BY <1>3, <1>4, <1>7 DEF Fine, t

-----------------------------------------------------------------------------
(* Deciding *)

\* Executing what is committed, and serving what waited for it, is fine.
LEMMA ExecuteFine ==
  ASSUME NEW p, NEW h, NEW n, NEW s, Fine(p, s, n, h)
  PROVE  Fine(p, ExecuteAndServe(s), n, h)
<1> DEFINE x == ExecutionOf([id \in CommittedIn(s) |-> s.instances[id].deps], s.executed)
           t == TakeExecuted(s, x)
<1>1. WellHistory(h) /\ Local(p, s, h)
  BY DEF Fine
<1>2. Local(p, t, h) /\ t.out = s.out
  <2>1. x = ExecutionOf([id \in CommittedIn(s) |-> s.instances[id].deps], s.executed)
    OBVIOUS
  <2> HIDE DEF x
  <2> QED BY <1>1, <2>1, TakeExecutedLocal
<1>3. ExecuteAndServe(s) = ServeReady(t)
  BY DEF ExecuteAndServe
<1> HIDE DEF t, x
<1>4. Local(p, ServeReady(t), h) /\ ServeReady(t).out = t.out
  BY <1>1, <1>2, ServeReadyLocal
<1> QED BY <1>1, <1>2, <1>3, <1>4 DEF Fine

\* p decides on an instance it has, as g says it is decided.
LEMMA OnCommitFine ==
  ASSUME NEW p \in Proc, NEW h, NEW n, NEW s, Fine(p, s, n, h), NEW id \in DOMAIN s.instances,
         NEW deps \in DepSet, NEW g, WellHistory(g), Extends(p, h, g), g.heard = h.heard,
         g.born = h.born, g.noted = h.noted, g.asked = h.asked,
         g.chosen = h.chosen \cup {<<id, deps>>}
  PROVE  Fine(p, OnCommit(s, id, deps), n, g)
<1> DEFINE i == CommitWith(s.instances[id], deps)
           inst == [s.instances EXCEPT ![id] = i]
           keys == KeysIn(s.instances[id].commands)
           decided == Put(s.decided, id, [deps |-> deps, keys |-> keys])
           t == [s EXCEPT !.instances[id] = i, !.decided = decided]
<1>1. IsShard(s) /\ WellHistory(h) /\ Local(p, s, h)
  BY DEF Fine, Local
<1>2. InstanceOK(p, id, s.instances[id], h) /\ (IsCommitted(s.instances[id]) <=> id \in DOMAIN s.decided)
  BY <1>1 DEF Local, Knowing
<1>3. Sending(p, s.out, n, g)
  BY <1>1, SendingKept DEF Fine
<1>4. /\ AllHeldOK(p, s.queue, g) /\ AllHeldOK(p, s.bundle, g)
      /\ AllAcksOK(p, s.pending_fast, g) /\ AllAcksOK(p, s.pending_slow, g) /\ Holding(p, s.deferred, g)
  BY <1>1, HeldsKept DEF Local, Holding
<1>5. Reading(p, s.next_read, s.reads, g)
  BY <1>1, ReadKept DEF Local, Reading
<1>6. Noting(p, s.next_uid, s.conflicts, g)
  <2>1. \A a, k : Touches(g, a, k) <=> Touches(h, a, k)
    BY DEF Touches
  <2> QED BY <1>1, <2>1 DEF Local, Noting
<1>7. \A a \in DOMAIN s.instances : InstanceOK(p, a, s.instances[a], g)
  BY <1>1, InstanceKept DEF Local, Knowing
<1>8. \A a \in DOMAIN s.decided :
        /\ <<p, a>> \in g.noted
        /\ <<a, s.decided[a].deps>> \in g.chosen
        /\ IsDecision(s.decided[a])
        /\ \E cs : <<a, cs>> \in g.born /\ s.decided[a].keys = KeysIn(cs)
  BY <1>1 DEF Local, Knowing
<1>9. EPaxos => \A a, ds : <<a, ds>> \in g.chosen /\ RequesterOf(a) = p => a = id \/ a \in DOMAIN s.decided
  <2>1. \A a, ds : <<a, ds>> \in g.chosen => a = id \/ <<a, ds>> \in h.chosen
    OBVIOUS
  <2> QED BY <1>1, <2>1 DEF Local, Knowing
<1>10. ExecutesSoundly(s.executed, s.log, s.instances, s.missed, g)
  BY <1>1, ExecutesKept DEF Local
<1>11. CASE IsCommitted(s.instances[id])
  <2>1. Knowing(p, s.instances, s.decided, g)
    BY <1>1, <1>2, <1>7, <1>8, <1>9, <1>11 DEF Local, Knowing
  <2>2. Local(p, s, g)
    BY <1>1, <1>4, <1>5, <1>6, <1>10, <2>1 DEF Local
  <2> QED BY <1>3, <1>11, <2>2 DEF OnCommit, Fine
<1>12. CASE ~IsCommitted(s.instances[id])
  <2>1. t = [s EXCEPT !.instances = inst, !.decided = decided]
    <3> HIDE DEF i, decided
    <3> QED BY <1>1 DEF IsShard, ShardFields
  <2>2. OnCommit(s, id, deps) = ExecuteAndServe(t)
    BY <1>12 DEF OnCommit
  <2>3. /\ DOMAIN inst = DOMAIN s.instances /\ inst = [a \in DOMAIN inst |-> inst[a]] /\ inst[id] = i
        /\ \A a \in DOMAIN inst : a # id => inst[a] = s.instances[a]
    OBVIOUS
  <2>4. /\ DOMAIN decided = DOMAIN s.decided \cup {id}
        /\ IsDecision(decided[id])
        /\ decided[id].deps = deps /\ decided[id].keys = KeysIn(s.instances[id].commands)
        /\ \A a \in DOMAIN s.decided : a # id => decided[a] = s.decided[a]
    BY DEF Put, IsDecision
  <2>5. InstanceOK(p, id, i, g) /\ IsCommitted(i)
    <3>1. InstanceOK(p, id, s.instances[id], g)
      BY <1>7
    <3>2. /\ i \in Instance /\ i.phase = Committed /\ i.deps = deps
          /\ i.leader = s.instances[id].leader /\ i.commands = s.instances[id].commands
          /\ i.preaccepts = s.instances[id].preaccepts /\ i.accept_acked = s.instances[id].accept_acked
          /\ i.coordinator_deps = s.instances[id].coordinator_deps
      <4>1. s.instances[id] \in Instance
        BY <3>1 DEF InstanceOK
      <4> QED BY <4>1 DEF Instance, CommitWith
    <3>3. <<id, deps>> \in g.chosen
      OBVIOUS
    <3>4. ~EPaxos => <<setup.leader, id, deps>> \in g.votes
      BY <3>3 DEF WellHistory, ChosenOnce, Backed
    <3> HIDE DEF i
    <3> QED BY <3>1, <3>2, <3>3, <3>4 DEF InstanceOK, IsCommitted, Committed, Accepted
  <2>6. Knowing(p, inst, decided, g)
    <3> HIDE DEF i, inst, decided
    <3>1. ASSUME NEW a \in DOMAIN inst
          PROVE  InstanceOK(p, a, inst[a], g) /\ (IsCommitted(inst[a]) <=> a \in DOMAIN decided)
      <4>1. a # id => inst[a] = s.instances[a] /\ a \in DOMAIN s.instances
        BY <2>3
      <4>2. a # id => (IsCommitted(s.instances[a]) <=> a \in DOMAIN s.decided)
        BY <1>1, <4>1 DEF Local, Knowing
      <4> QED BY <1>7, <2>3, <2>4, <2>5, <4>1, <4>2
    <3>2. ASSUME NEW a \in DOMAIN decided
          PROVE  /\ <<p, a>> \in g.noted
                 /\ <<a, decided[a].deps>> \in g.chosen
                 /\ IsDecision(decided[a])
                 /\ \E cs : <<a, cs>> \in g.born /\ decided[a].keys = KeysIn(cs)
      <4>1. CASE a = id
        <5>1. <<p, id>> \in g.noted /\ <<id, s.instances[id].commands>> \in g.born
          BY <1>7 DEF InstanceOK
        <5>2. <<id, deps>> \in g.chosen
          OBVIOUS
        <5> QED BY <2>4, <4>1, <5>1, <5>2
      <4>2. CASE a # id
        BY <1>8, <2>4, <4>2
      <4> QED BY <4>1, <4>2
    <3>3. EPaxos => \A a, ds : <<a, ds>> \in g.chosen /\ RequesterOf(a) = p => a \in DOMAIN decided
      BY <1>9, <2>4
    <3>4. IsFiniteSet(DOMAIN inst)
      BY <1>1, <2>3 DEF Local, Knowing
    <3> QED BY <2>3, <3>1, <3>2, <3>3, <3>4 DEF Knowing
  <2> HIDE DEF i, inst, decided, t
  <2>7. /\ IsShard(t) /\ t.out = s.out /\ t.instances = inst /\ t.decided = decided
        /\ t.next_uid = s.next_uid /\ t.conflicts = s.conflicts
        /\ t.deferred = s.deferred /\ t.queue = s.queue /\ t.bundle = s.bundle
        /\ t.pending_fast = s.pending_fast /\ t.pending_slow = s.pending_slow
        /\ t.ack_recipients = s.ack_recipients /\ t.next_read = s.next_read /\ t.reads = s.reads
        /\ t.executed = s.executed /\ t.log = s.log /\ t.missed = s.missed
    BY <1>1, <2>1 DEF IsShard, ShardFields
  <2>8. ExecutesSoundly(s.executed, s.log, inst, s.missed, g)
    BY <1>10, <2>3 DEF ExecutesSoundly
  <2>9. Local(p, t, g)
    BY <1>1, <1>4, <1>5, <1>6, <2>6, <2>7, <2>8 DEF Local
  <2>10. Fine(p, t, n, g)
    BY <1>3, <2>7, <2>9 DEF Fine
  <2> QED BY <2>2, <2>10, ExecuteFine
<1> QED BY <1>11, <1>12

\* What is backed is decided, and others are told.
LEMMA DecideFine ==
  ASSUME NEW p \in Proc, NEW h, NEW n, NEW s, Fine(p, s, n, h), NEW id \in DOMAIN s.instances,
         ~IsCommitted(s.instances[id]), NEW deps \in DepSet, Backed(h, id, deps),
         EPaxos => RequesterOf(id) = p, NEW D
  PROVE  Reaches(p, h, n, SendTo(OnCommit(s, id, deps), D, [type |-> "Commit", id |-> id, deps |-> deps]))
<1> DEFINE g == WithChoice(h, id, deps)
           t == OnCommit(s, id, deps)
           m == [type |-> "Commit", id |-> id, deps |-> deps]
<1>1. WellHistory(h) /\ Local(p, s, h)
  BY DEF Fine
<1>2. InstanceOK(p, id, s.instances[id], h) /\ id \notin DOMAIN s.decided
  BY <1>1 DEF Local, Knowing
<1>3. id \in Id
  BY <1>2 DEF InstanceOK
<1>4. EPaxos => RequesterOf(id) = p /\ \A others : <<id, others>> \in h.chosen => others = deps
  BY <1>1, <1>2 DEF Local, Knowing
<1>5. WellHistory(g) /\ Extends(p, h, g)
  BY <1>1, <1>3, <1>4, ChoiceKeepsHistory
<1>6. /\ g.heard = h.heard /\ g.born = h.born /\ g.noted = h.noted /\ g.asked = h.asked
      /\ g.chosen = h.chosen \cup {<<id, deps>>} /\ g.answered = h.answered
  BY DEF WithChoice
<1> HIDE DEF g, t
<1>7. Fine(p, t, n, g)
  BY <1>5, <1>6, OnCommitFine DEF t
<1>8. m \in Message /\ m.type = "Commit" /\ m.id = id /\ m.deps = deps
  BY <1>3 DEF Message, LateMsg
<1>9. \A q : MessageOK(p, q, m, g)
  BY <1>6, <1>8 DEF MessageOK, LateOK
<1> HIDE DEF m
<1>10. Fine(p, SendTo(t, D, m), n, g)
  BY <1>7, <1>8, <1>9, SendFine
<1>11. Reaches(p, h, n, SendTo(t, D, m))
  BY <1>5, <1>6, <1>10 DEF Reaches
<1> QED BY <1>11 DEF t, m

\* Proposals that most replicas made stand for what a majority has seen.
LEMMA ProposalsBack ==
  ASSUME NEW p \in Proc, NEW h, WellHistory(h), NEW id, NEW i, InstanceOK(p, id, i, h), EPaxos,
         Cardinality(DOMAIN i.preaccepts) >= Majority, NEW deps,
         \A r \in DOMAIN i.preaccepts : Within(i.preaccepts[r], deps)
  PROVE  Backed(h, id, deps)
<1>1. DOMAIN i.preaccepts \subseteq AliveReplicas
  BY ProposalsType DEF InstanceOK, Instance
<1>2. IsMajority(DOMAIN i.preaccepts)
  BY <1>1 DEF IsMajority
<1>3. ASSUME NEW r \in DOMAIN i.preaccepts
      PROVE  <<r, id, i.preaccepts[r]>> \in h.votes /\ <<r, id>> \in h.noted
  BY DEF InstanceOK, WellHistory, VotesOnce
<1> QED BY <1>2, <1>3 DEF Backed

\* The coordinator moves on to the second phase with cause.
LEMMA StartAcceptFine ==
  ASSUME setup \in Setups, NEW p \in Proc, NEW h, NEW n, NEW s, Fine(p, s, n, h), NEW id \in DOMAIN s.instances,
         EPaxos, RequesterOf(id) = p, ~IsSettled(s.instances[id]), LeavesFastPath(s.instances[id])
  PROVE  LET t == StartAccept(p, s, id, UnionOfPreaccepts(s.instances[id]))
         IN  /\ Fine(p, t, n, h) /\ id \in DOMAIN t.instances /\ ~IsCommitted(t.instances[id])
<1> DEFINE i == s.instances[id]
           deps == UnionOfPreaccepts(i)
           j == AcknowledgedBy(Accept(i, deps), {p})
           t == [s EXCEPT !.instances[id] = j]
           m == [type |-> "Accept", id |-> id, deps |-> deps]
<1>1. WellHistory(h) /\ Local(p, s, h)
  BY DEF Fine
<1>2. InstanceOK(p, id, i, h)
  BY <1>1 DEF Local, Knowing
<1>3. /\ id \in Id /\ i \in Instance
      /\ i.phase = PreAccepted
  BY <1>2 DEF InstanceOK, Instance, IsSettled, PreAccepted, Accepted, Committed
<1>4. p \in AliveReplicas
  BY <1>1, <1>2 DEF InstanceOK, WellHistory, BornOnce
<1>5. deps \in DepSet /\ \A r \in DOMAIN i.preaccepts : Within(i.preaccepts[r], deps)
  <2> DEFINE sets == {i.preaccepts[r] : r \in DOMAIN i.preaccepts}
  <2>1. i.preaccepts \in Proposals
    BY <1>3 DEF Instance
  <2>2. /\ DOMAIN i.preaccepts \subseteq AliveReplicas
        /\ i.preaccepts = [r \in DOMAIN i.preaccepts |-> i.preaccepts[r]]
        /\ \A r \in DOMAIN i.preaccepts : i.preaccepts[r] \in DepSet
    BY <2>1, ProposalsType
  <2>3. IsFiniteSet(DOMAIN i.preaccepts)
    BY <2>2, ProcFinite, FS_Subset
  <2>4. IsFiniteSet(sets)
    BY <2>2, <2>3, FiniteImage
  <2>5. sets \subseteq DepSet
    BY <2>2
  <2>6. deps = UnionOf(sets)
    BY DEF UnionOfPreaccepts
  <2>7. \A r \in DOMAIN i.preaccepts : i.preaccepts[r] \in sets
    OBVIOUS
  <2> HIDE DEF sets, deps
  <2> QED BY <2>4, <2>5, <2>6, <2>7, UnionOfType
<1> HIDE DEF deps
<1>6. Backed(h, id, deps)
  <2>1. Cardinality(DOMAIN i.preaccepts) >= Majority
    BY DEF LeavesFastPath, PreacceptsCount
  <2> HIDE DEF i
  <2> QED BY <1>1, <1>2, <1>5, <2>1, ProposalsBack
<1>7. /\ j \in Instance /\ j.phase = Accepted /\ j.deps = deps
      /\ j.leader = i.leader /\ j.commands = i.commands
      /\ j.preaccepts = i.preaccepts /\ j.accept_acked = i.accept_acked \cup {p}
      /\ j.coordinator_deps = i.coordinator_deps
  <2> HIDE DEF i
  <2> QED BY <1>3, <1>4, <1>5 DEF Instance, Accept, Accepted, AcknowledgedBy
<1>8. InstanceOK(p, id, j, h) /\ ~IsCommitted(j) /\ ~IsCommitted(i)
  <2> HIDE DEF i, j
  <2> QED BY <1>2, <1>3, <1>6, <1>7 DEF InstanceOK, IsCommitted, Committed, Accepted, PreAccepted
<1> HIDE DEF j
<1>9. Fine(p, t, n, h) /\ id \in DOMAIN t.instances /\ t.instances[id] = j
  <2>1. ~IsCommitted(s.instances[id])
    BY <1>8
  <2>2. InstanceOK(p, id, j, h) /\ ~IsCommitted(j)
    BY <1>8
  <2> HIDE DEF i
  <2> QED BY <2>1, <2>2, UpdateFine
<1>10. m \in Message /\ m.type = "Accept" /\ m.id = id /\ m.deps = deps
  BY <1>3, <1>5 DEF Message, LateMsg, AckMsg
<1>11. \A q : MessageOK(p, q, m, h)
  BY <1>10 DEF MessageOK, LateOK
<1>12. StartAccept(p, s, id, deps) = SendTo(t, AliveReplicas, m)
  <2> HIDE DEF deps
  <2>1. i = s.instances[id]
    OBVIOUS
  <2> QED BY <2>1 DEF StartAccept, j
<1> HIDE DEF t, m
<1>13. Fine(p, SendTo(t, AliveReplicas, m), n, h) /\ SendTo(t, AliveReplicas, m).instances = t.instances
  BY <1>9, <1>10, <1>11, SendFine
<1> QED BY <1>8, <1>9, <1>12, <1>13 DEF deps

\* The coordinator decides with cause.
LEMMA CommitIfDecidedFine ==
  ASSUME setup \in Setups, NEW p \in Proc, NEW h, NEW n, NEW s, Fine(p, s, n, h), NEW id \in DOMAIN s.instances,
         EPaxos, RequesterOf(id) = p
  PROVE  Reaches(p, h, n, CommitIfDecided(s, id))
<1> DEFINE i == s.instances[id]
           fast == ~IsSettled(i) /\ AgreesFast(i)
           slow == i.phase = Accepted /\ Cardinality(i.accept_acked) >= Majority
           deps == IF fast THEN LeaderDeps(i) ELSE i.deps
<1>1. WellHistory(h) /\ Local(p, s, h)
  BY DEF Fine
<1>2. InstanceOK(p, id, i, h)
  BY <1>1 DEF Local, Knowing
<1>3. /\ id \in Id /\ i.phase \in {PreAccepted, Accepted, Committed} /\ i.deps \in DepSet
      /\ i.preaccepts \in Proposals
  BY <1>2 DEF InstanceOK, Instance
<1>4. CASE fast
  <2>1. /\ Endorsers(i) = DOMAIN i.preaccepts
        /\ Cardinality(DOMAIN i.preaccepts) >= FastQuorum
    BY <1>4 DEF AgreesFast, AllPreacceptsEndorse, PreacceptsCount
  <2>2. /\ DOMAIN i.preaccepts \subseteq AliveReplicas
        /\ \A r \in DOMAIN i.preaccepts : i.preaccepts[r] \in DepSet
    BY <1>3, ProposalsType
  <2>3. Cardinality(DOMAIN i.preaccepts) \in Nat
    BY <2>2, ProcFinite, FS_Subset, FS_CardinalityType
  <2>4. Cardinality(DOMAIN i.preaccepts) >= Majority
    BY <2>1, <2>3, MajorityIsMost, FastQuorumIsMajority
  <2>5. PICK r \in DOMAIN i.preaccepts : TRUE
    <3>1. DOMAIN i.preaccepts # {}
      BY <2>4, MajorityIsMost, FS_EmptySet
    <3> QED BY <3>1
  <2>6. KnowsLeaderDeps(i) /\ \A q \in DOMAIN i.preaccepts : i.preaccepts[q] = LeaderDeps(i)
    BY <2>1, <2>5 DEF Endorsers
  <2>7. LeaderDeps(i) \in DepSet
    BY <2>2, <2>6 DEF KnowsLeaderDeps, LeaderDeps
  <2>8. \A q \in DOMAIN i.preaccepts : Within(i.preaccepts[q], LeaderDeps(i))
    BY <2>6, <2>7 DEF Within, DepSet
  <2>9. Backed(h, id, LeaderDeps(i))
    <3> HIDE DEF i
    <3> QED BY <1>1, <1>2, <2>4, <2>8, ProposalsBack
  <2>10. ~IsCommitted(i)
    BY <1>4 DEF IsSettled, IsCommitted, PreAccepted, Committed
  <2>11. CommitIfDecided(s, id) = CommitAndBroadcast(s, id, LeaderDeps(i))
    BY <1>4 DEF CommitIfDecided
  <2> QED BY <2>7, <2>9, <2>10, <2>11, DecideFine DEF CommitAndBroadcast
<1>5. CASE slow /\ ~fast
  <2>1. Backed(h, id, i.deps) /\ ~IsCommitted(i)
    BY <1>2, <1>5 DEF InstanceOK, IsCommitted, Accepted, Committed
  <2>2. CommitIfDecided(s, id) = CommitAndBroadcast(s, id, i.deps)
    BY <1>5 DEF CommitIfDecided
  <2> QED BY <1>3, <2>1, <2>2, DecideFine DEF CommitAndBroadcast
<1>6. CASE ~slow /\ ~fast
  BY <1>6, ReachesSelf DEF CommitIfDecided
<1> QED BY <1>4, <1>5, <1>6

\* Under SwiftPaxos everyone decides with cause.
LEMMA SwiftTryCommitFine ==
  ASSUME setup \in Setups, NEW p \in Proc, NEW h, NEW n, NEW s, Fine(p, s, n, h), NEW id \in DOMAIN s.instances,
         ~EPaxos
  PROVE  Reaches(p, h, n, SwiftTryCommit(p, s, id))
<1> DEFINE i == s.instances[id]
<1>1. WellHistory(h) /\ Local(p, s, h)
  BY DEF Fine
<1>2. InstanceOK(p, id, i, h)
  BY <1>1 DEF Local, Knowing
<1>3. /\ id \in Id /\ i.deps \in DepSet /\ i.preaccepts \in Proposals /\ i.accept_acked \subseteq AliveReplicas
  BY <1>2 DEF InstanceOK, Instance
<1>4. CASE IsCommitted(i) \/ ~Decided(i)
  BY <1>4, ReachesSelf DEF SwiftTryCommit
<1>5. CASE ~IsCommitted(i) /\ Decided(i)
  <2>1. <<setup.leader, id, i.deps>> \in h.votes
    BY <1>2, <1>5 DEF InstanceOK, Decided
  <2>2. ASSUME NEW Q, IsMajority(Q), Q \subseteq FastEndorsers(i) \cup i.accept_acked
        PROVE  Backed(h, id, i.deps)
    <3>1. \A r \in FastEndorsers(i) \cup i.accept_acked : <<r, id>> \in h.noted
      BY <1>1, <1>2 DEF FastEndorsers, Endorsers, InstanceOK, WellHistory, VotesOnce
    <3> HIDE DEF i
    <3> QED BY <2>1, <2>2, <3>1 DEF Backed
  <2>3. FastEndorsers(i) \subseteq AliveReplicas
    <3>1. DOMAIN i.preaccepts \subseteq AliveReplicas
      BY <1>3, ProposalsType
    <3> QED BY <1>3, <3>1 DEF FastEndorsers, Endorsers
  <2>4. Backed(h, id, i.deps)
    <3>1. CASE Cardinality(i.accept_acked) >= Majority
      <4>1. IsMajority(i.accept_acked)
        BY <1>3, <3>1 DEF IsMajority
      <4> QED BY <2>2, <4>1
    <3>2. CASE FastQuorumReached(FastEndorsers(i)) /\ setup.quorum # {}
      <4>1. setup.quorum \subseteq FastEndorsers(i) /\ Cardinality(setup.quorum) = Majority
        BY <3>2, SetupType DEF FastQuorumReached
      <4>2. IsMajority(setup.quorum)
        BY <2>3, <4>1, MajorityIsMost DEF IsMajority
      <4> QED BY <2>2, <4>1, <4>2
    <3>3. CASE FastQuorumReached(FastEndorsers(i)) /\ setup.quorum = {}
      <4>1. Cardinality(FastEndorsers(i)) >= FastQuorum
        BY <3>3 DEF FastQuorumReached
      <4>2. Cardinality(FastEndorsers(i)) \in Nat
        BY <2>3, ProcFinite, FS_Subset, FS_CardinalityType
      <4>3. IsMajority(FastEndorsers(i))
        BY <2>3, <4>1, <4>2, MajorityIsMost, FastQuorumIsMajority DEF IsMajority
      <4> QED BY <2>2, <4>3
    <3> QED BY <1>5, <3>1, <3>2, <3>3 DEF Decided
  <2> DEFINE D == IF p = setup.leader THEN NonReplicas \ {RequesterOf(id)} ELSE {}
  <2>5. SwiftTryCommit(p, s, id)
          = SendTo(OnCommit(s, id, i.deps), D, [type |-> "Commit", id |-> id, deps |-> i.deps])
    BY <1>5 DEF SwiftTryCommit
  <2> HIDE DEF D
  <2> QED BY <1>3, <1>5, <2>4, <2>5, DecideFine
<1> QED BY <1>4, <1>5

\* Looking whether an instance can be decided is fine.
LEMMA TryCommitFine ==
  ASSUME setup \in Setups, NEW p \in Proc, NEW h, NEW n, NEW s, Fine(p, s, n, h), NEW id \in DOMAIN s.instances
  PROVE  Reaches(p, h, n, TryCommit(p, s, id))
<1> DEFINE i == s.instances[id]
           leave == ~IsSettled(i) /\ ~AgreesFast(i) /\ LeavesFastPath(i)
           t == StartAccept(p, s, id, UnionOfPreaccepts(i))
<1>1. CASE ~EPaxos
  BY <1>1, SwiftTryCommitFine DEF TryCommit
<1>2. CASE EPaxos /\ RequesterOf(id) # p
  BY <1>2, ReachesSelf DEF TryCommit, EPaxosTryCommit
<1>3. CASE EPaxos /\ RequesterOf(id) = p /\ leave
  <2>1. Fine(p, t, n, h) /\ id \in DOMAIN t.instances
    BY <1>3, StartAcceptFine
  <2>2. TryCommit(p, s, id) = CommitIfDecided(t, id)
    BY <1>3 DEF TryCommit, EPaxosTryCommit
  <2> HIDE DEF t
  <2> QED BY <1>3, <2>1, <2>2, CommitIfDecidedFine
<1>4. CASE EPaxos /\ RequesterOf(id) = p /\ ~leave
  <2>1. TryCommit(p, s, id) = CommitIfDecided(s, id)
    BY <1>4 DEF TryCommit, EPaxosTryCommit
  <2> QED BY <1>4, <2>1, CommitIfDecidedFine
<1> QED BY <1>1, <1>2, <1>3, <1>4

-----------------------------------------------------------------------------
(* Acks *)

\* The acks held back may leave together.
LEMMA FlushFine ==
  ASSUME NEW p \in Proc, NEW h, NEW n, NEW s, Fine(p, s, n, h), s.pending_fast \o s.pending_slow # <<>>
  PROVE  Fine(p, Flush(s), n, h) /\ Flush(s).instances = s.instances
<1> DEFINE acks == s.pending_fast \o s.pending_slow
           m == [type |-> "DepAcks", acks |-> acks]
           t == SendTo(s, AliveReplicas \cup s.ack_recipients, m)
           u == Flush(s)
<1>1. /\ s.pending_fast \in Seq(AckMsg) /\ s.pending_slow \in Seq(AckMsg)
      /\ \A j \in DOMAIN s.pending_fast : LateOK(p, s.pending_fast[j], h)
      /\ \A j \in DOMAIN s.pending_slow : LateOK(p, s.pending_slow[j], h)
  BY DEF Fine, Local, AllAcksOK
<1>2. AllAcksOK(p, acks, h)
  <2>1. /\ acks \in Seq(AckMsg)
        /\ \A j \in DOMAIN acks : \/ j \in DOMAIN s.pending_fast /\ acks[j] = s.pending_fast[j]
                                  \/ \E k \in DOMAIN s.pending_slow : acks[j] = s.pending_slow[k]
    <3>1. /\ acks \in Seq(AckMsg)
          /\ \A j \in DOMAIN s.pending_fast : acks[j] = s.pending_fast[j]
          /\ \A j \in DOMAIN acks : j \in DOMAIN s.pending_fast \/ \E k \in DOMAIN s.pending_slow : acks[j] = s.pending_slow[k]
      <4> DEFINE a == s.pending_fast
                 b == s.pending_slow
      <4>1. a \in Seq(AckMsg) /\ b \in Seq(AckMsg) /\ acks = a \o b
        BY <1>1
      <4> HIDE DEF a, b, acks
      <4>2. /\ acks \in Seq(AckMsg)
            /\ \A j \in DOMAIN a : acks[j] = a[j]
            /\ \A j \in DOMAIN acks : j \in DOMAIN a \/ \E k \in DOMAIN b : acks[j] = b[k]
        BY <4>1, Concatenated
      <4> QED BY <4>2 DEF a, b
    <3> HIDE DEF acks
    <3> QED BY <3>1
  <2> HIDE DEF acks
  <2> QED BY <1>1, <2>1 DEF AllAcksOK
<1> HIDE DEF acks
<1>3. m \in Message /\ m.type = "DepAcks" /\ m.acks = acks
  BY <1>2 DEF Message, AllAcksOK
<1>4. \A q : MessageOK(p, q, m, h)
  BY <1>2, <1>3 DEF MessageOK, LateOK, acks
<1>5. u = [t EXCEPT !.pending_fast = <<>>, !.pending_slow = <<>>, !.ack_recipients = {}]
  BY DEF Flush, acks
<1> HIDE DEF m
<1>6. Fine(p, t, n, h) /\ t.instances = s.instances
  BY <1>3, <1>4, SendFine
<1> HIDE DEF t, u
<1>7. /\ IsShard(u) /\ u.out = t.out
      /\ u.next_uid = t.next_uid /\ u.conflicts = t.conflicts /\ u.instances = t.instances
      /\ u.decided = t.decided /\ u.deferred = t.deferred /\ u.queue = t.queue /\ u.bundle = t.bundle
      /\ u.pending_fast = <<>> /\ u.pending_slow = <<>>
      /\ u.ack_recipients = {} /\ u.next_read = t.next_read /\ u.reads = t.reads
      /\ u.executed = t.executed /\ u.log = t.log /\ u.missed = t.missed
  BY <1>5, <1>6 DEF Fine, Local, IsShard, ShardFields
<1>8. AllAcksOK(p, <<>>, h)
  BY DEF AllAcksOK
<1>9. Local(p, u, h)
  BY <1>6, <1>7, <1>8 DEF Fine, Local
<1> QED BY <1>6, <1>7, <1>9 DEF Fine, u

\* One more ack may be held back.
LEMMA AppendAck ==
  ASSUME NEW p, NEW h, NEW acks, AllAcksOK(p, acks, h), NEW m \in AckMsg, LateOK(p, m, h)
  PROVE  AllAcksOK(p, Append(acks, m), h) /\ Append(acks, m) # <<>>
<1>1. acks \in Seq(AckMsg)
  BY DEF AllAcksOK
<1>2. /\ Append(acks, m) \in Seq(AckMsg) /\ Append(acks, m) # <<>>
      /\ \A j \in DOMAIN Append(acks, m) :
           (j \in DOMAIN acks /\ Append(acks, m)[j] = acks[j]) \/ Append(acks, m)[j] = m
  BY <1>1
<1> QED BY <1>2 DEF AllAcksOK

\* An ack is sent, or held back until more are.
LEMMA SendAckFine ==
  ASSUME NEW p \in Proc, NEW h, NEW n, NEW s, Fine(p, s, n, h), NEW m \in AckMsg, LateOK(p, m, h)
  PROVE  Fine(p, SendAck(s, m), n, h) /\ SendAck(s, m).instances = s.instances
<1>1. m \in Message /\ m.id \in Id /\ m.type \in {"PreAcceptOk", "Accept", "AcceptOk"}
  BY AckMsgType DEF Message, LateMsg
<1>2. CASE ~setup.batch_acks
  <2>1. \A q : MessageOK(p, q, m, h)
    BY <1>1 DEF MessageOK
  <2> QED BY <1>1, <1>2, <2>1, SendFine DEF SendAck, SendVote
<1>3. CASE setup.batch_acks
  <2> DEFINE t == IF m.type = "AcceptOk" THEN [s EXCEPT !.pending_slow = Append(@, m)]
                  ELSE [s EXCEPT !.pending_fast = Append(@, m)]
             u == [t EXCEPT !.ack_recipients = @ \cup {RequesterOf(m.id)}]
             fast == IF m.type = "AcceptOk" THEN s.pending_fast ELSE Append(s.pending_fast, m)
             slow == IF m.type = "AcceptOk" THEN Append(s.pending_slow, m) ELSE s.pending_slow
  <2>1. AllAcksOK(p, fast, h) /\ AllAcksOK(p, slow, h) /\ (fast # <<>> \/ slow # <<>>)
    BY AppendAck DEF Fine, Local
  <2>2. IsShard(s)
    BY DEF Fine, Local
  <2>3. t = [s EXCEPT !.pending_fast = fast, !.pending_slow = slow]
    BY <2>2 DEF IsShard, ShardFields
  <2> HIDE DEF t, fast, slow
  <2>4. IsShard(t) /\ t.ack_recipients = s.ack_recipients
    BY <2>2, <2>3 DEF IsShard, ShardFields
  <2>5. /\ IsShard(u) /\ u.out = s.out
        /\ u.next_uid = s.next_uid /\ u.conflicts = s.conflicts /\ u.instances = s.instances
        /\ u.decided = s.decided /\ u.deferred = s.deferred /\ u.queue = s.queue /\ u.bundle = s.bundle
        /\ u.pending_fast = fast /\ u.pending_slow = slow
        /\ u.ack_recipients = s.ack_recipients \cup {RequesterOf(m.id)}
        /\ u.next_read = s.next_read /\ u.reads = s.reads
        /\ u.executed = s.executed /\ u.log = s.log /\ u.missed = s.missed
    BY <2>2, <2>3, <2>4 DEF IsShard, ShardFields
  <2> HIDE DEF u
  <2>6. Fine(p, u, n, h)
    <3>1. RequesterOf(m.id) \in Proc
      BY <1>1, IdParts
    <3>2. Local(p, u, h)
      BY <2>1, <2>5, <3>1 DEF Fine, Local
    <3> QED BY <2>5, <3>2 DEF Fine
  <2>7. u.pending_fast \o u.pending_slow # <<>>
    <3>1. fast \in Seq(AckMsg) /\ slow \in Seq(AckMsg)
      BY <2>1 DEF AllAcksOK
    <3> QED BY <2>1, <2>5, <3>1
  <2>8. SendAck(s, m) = Flush(u) \/ SendAck(s, m) = u
    BY <1>3 DEF SendAck, QueueAck, t, u
  <2>9. Fine(p, Flush(u), n, h) /\ Flush(u).instances = u.instances
    BY <2>6, <2>7, FlushFine
  <2> QED BY <2>5, <2>6, <2>8, <2>9
<1> QED BY <1>2, <1>3

-----------------------------------------------------------------------------
(* Messages about an instance that p has *)

\* A proposal is counted.
LEMMA OnPreAcceptOkFine ==
  ASSUME setup \in Setups, NEW p \in Proc, NEW h, NEW n, NEW s, Fine(p, s, n, h), NEW id \in DOMAIN s.instances,
         NEW src \in AliveReplicas, NEW deps \in DepSet \cup {NoDepSet},
         IF deps = NoDepSet
         THEN \E d : <<src, id, d>> \in h.votes /\ <<RequesterOf(id), id, d>> \in h.votes
         ELSE <<src, id, deps>> \in h.votes
  PROVE  Reaches(p, h, n, OnPreAcceptOk(p, s, src, id, deps))
<1> DEFINE i == s.instances[id]
           said == IF deps = NoDepSet THEN i.coordinator_deps ELSE deps
           t == Expect(s, said # NoDepSet)
           j == RecordPreaccept(i, src, said)
           u == [t EXCEPT !.instances[id] = j]
<1>1. WellHistory(h) /\ Local(p, s, h)
  BY DEF Fine
<1>2. InstanceOK(p, id, i, h)
  BY <1>1 DEF Local, Knowing
<1>3. <<src, id, said>> \in h.votes
  <2>1. <<RequesterOf(id), id, i.coordinator_deps>> \in h.votes
    BY <1>2 DEF InstanceOK
  <2> QED BY <1>1, <2>1 DEF WellHistory, VotesOnce
<1>4. said \in DepSet
  BY <1>1, <1>3 DEF WellHistory, HistoryType
<1> HIDE DEF said
<1>5. Fine(p, t, n, h) /\ t.instances = s.instances
  BY <1>1, ExpectFine
<1> HIDE DEF t
<1>6. CASE IsCommitted(i) \/ src \in DOMAIN i.preaccepts
  <2>1. OnPreAcceptOk(p, s, src, id, deps) = t
    BY <1>6 DEF OnPreAcceptOk, t, said
  <2> QED BY <1>5, <2>1, ReachesSelf
<1>7. CASE ~IsCommitted(i) /\ src \notin DOMAIN i.preaccepts
  <2>1. OnPreAcceptOk(p, s, src, id, deps) = TryCommit(p, u, id)
    BY <1>5, <1>7 DEF OnPreAcceptOk, t, said
  <2>2. InstanceOK(p, id, j, h) /\ ~IsCommitted(j)
    <3>1. i \in Instance
      BY <1>2 DEF InstanceOK
    <3>2. /\ j \in Instance
          /\ DOMAIN j.preaccepts = DOMAIN i.preaccepts \cup {src}
          /\ \A r \in DOMAIN i.preaccepts : j.preaccepts[r] = i.preaccepts[r]
          /\ j.preaccepts[src] = said
          /\ j = [i EXCEPT !.preaccepts = j.preaccepts]
      <4> HIDE DEF i
      <4> QED BY <1>4, <1>7, <3>1, RecordPreacceptType
    <3> HIDE DEF i, j
    <3>3. /\ j.leader = i.leader /\ j.commands = i.commands /\ j.deps = i.deps /\ j.phase = i.phase
          /\ j.accept_acked = i.accept_acked /\ j.coordinator_deps = i.coordinator_deps
      BY <3>1, <3>2 DEF Instance
    <3>4. \A r \in DOMAIN j.preaccepts : <<r, id, j.preaccepts[r]>> \in h.votes
      BY <1>2, <1>3, <3>2 DEF InstanceOK
    <3> QED BY <1>2, <1>7, <3>2, <3>3, <3>4 DEF InstanceOK, IsCommitted, IsSettled
  <2>3. ~IsCommitted(t.instances[id]) /\ id \in DOMAIN t.instances
    BY <1>5, <1>7
  <2> HIDE DEF j, i
  <2>4. Fine(p, u, n, h) /\ id \in DOMAIN u.instances
    BY <1>5, <2>2, <2>3, UpdateFine
  <2> HIDE DEF u
  <2> QED BY <2>1, <2>4, TryCommitFine
<1> QED BY <1>6, <1>7

\* A proposal is accepted.
LEMMA OnAcceptFine ==
  ASSUME setup \in Setups, NEW p \in Proc, NEW h, NEW n, NEW s, Fine(p, s, n, h), NEW id \in DOMAIN s.instances,
         NEW src \in Proc \ {p}, NEW deps \in DepSet,
         IF EPaxos THEN src = RequesterOf(id) ELSE src = setup.leader /\ <<src, id, deps>> \in h.votes
  PROVE  Reaches(p, h, n, OnAccept(p, s, src, id, deps))
<1> DEFINE i == s.instances[id]
           taken == AcknowledgedBy(Accept(i, deps), {src} \cup (IF IsReplica(p) THEN {p} ELSE {}))
           ack == [type |-> "AcceptOk", id |-> id]
           checked == Expect(s, EPaxos \/ ~IsReplica(p) \/ DepsSettled(s, id, deps))
           j == IF EPaxos THEN taken ELSE RecordPreaccept(taken, src, deps)
           u == [checked EXCEPT !.instances[id] = j]
           acked == CASE ~IsReplica(p) -> u
                      [] IsReplica(p) /\ EPaxos -> SendTo(u, {src}, ack)
                      [] OTHER -> SendAck(u, ack)
<1>1. WellHistory(h) /\ Local(p, s, h)
  BY DEF Fine
<1>2. InstanceOK(p, id, i, h)
  BY <1>1 DEF Local, Knowing
<1>3. /\ id \in Id /\ i \in Instance /\ i.commands \in Seq(Cmd) /\ <<p, id>> \in h.noted /\ <<id, i.commands>> \in h.born
      /\ i.phase \in {PreAccepted, Accepted, Committed}
  BY <1>2 DEF InstanceOK, Instance
<1>4. src \in AliveReplicas /\ <<src, id>> \in h.noted
  <2>1. CASE EPaxos
    <3>1. PICK d : <<RequesterOf(id), id, d>> \in h.votes
      BY <1>1, <1>3 DEF WellHistory, BornOnce
    <3>2. RequesterOf(id) \in AliveReplicas
      BY <1>1, <1>3, <2>1 DEF WellHistory, BornOnce
    <3> QED BY <1>1, <2>1, <3>1, <3>2 DEF WellHistory, VotesOnce
  <2>2. CASE ~EPaxos
    BY <1>1, <2>2, SetupType DEF WellHistory, VotesOnce
  <2> QED BY <2>1, <2>2
<1>5. Fine(p, checked, n, h) /\ checked.instances = s.instances
  BY <1>1, ExpectFine
<1> HIDE DEF checked
<1>6. OnAccept(p, s, src, id, deps) = TryCommit(p, IF IsSettled(i) THEN checked ELSE acked, id)
  <2>1. checked.instances[id] = i
    BY <1>5
  <2> HIDE DEF taken
  <2> QED BY <2>1 DEF OnAccept, checked, taken
<1>7. CASE IsSettled(i)
  <2>1. OnAccept(p, s, src, id, deps) = TryCommit(p, checked, id)
    BY <1>6, <1>7
  <2> QED BY <1>5, <2>1, TryCommitFine
<1>8. CASE ~IsSettled(i)
  <2>1. /\ taken \in Instance /\ taken.phase = Accepted /\ taken.deps = deps
        /\ taken.leader = i.leader /\ taken.commands = i.commands /\ taken.preaccepts = i.preaccepts
        /\ taken.coordinator_deps = i.coordinator_deps
        /\ \A r \in taken.accept_acked : r \in i.accept_acked \/ r = src \/ r = p
    <3> HIDE DEF i
    <3> QED BY <1>3, <1>4 DEF Instance, Accept, Accepted, AcknowledgedBy, IsReplica
  <2> HIDE DEF taken
  <2>2. /\ j \in Instance /\ j.phase = Accepted /\ j.deps = deps
        /\ j.leader = i.leader /\ j.commands = i.commands /\ j.accept_acked = taken.accept_acked
        /\ j.coordinator_deps = i.coordinator_deps
        /\ \A r \in DOMAIN j.preaccepts : <<r, id, j.preaccepts[r]>> \in h.votes
    <3>1. \A r \in DOMAIN i.preaccepts : <<r, id, i.preaccepts[r]>> \in h.votes
      BY <1>2 DEF InstanceOK
    <3>2. CASE EPaxos
      BY <2>1, <3>1, <3>2
    <3>3. CASE ~EPaxos
      <4> DEFINE k == RecordPreaccept(taken, src, deps)
      <4>1. /\ k \in Instance
            /\ k = [taken EXCEPT !.preaccepts = k.preaccepts]
            /\ DOMAIN k.preaccepts = DOMAIN taken.preaccepts \cup {src}
            /\ \A r \in DOMAIN taken.preaccepts : k.preaccepts[r] = taken.preaccepts[r]
            /\ src \notin DOMAIN taken.preaccepts => k.preaccepts[src] = deps
        BY <1>4, <2>1, RecordPreacceptType
      <4> HIDE DEF k, i
      <4>2. /\ k.phase = taken.phase /\ k.deps = taken.deps /\ k.leader = taken.leader
            /\ k.commands = taken.commands /\ k.accept_acked = taken.accept_acked
            /\ k.coordinator_deps = taken.coordinator_deps
        BY <2>1, <4>1 DEF Instance
      <4>3. \A r \in DOMAIN k.preaccepts : <<r, id, k.preaccepts[r]>> \in h.votes
        BY <2>1, <3>1, <3>3, <4>1
      <4>4. j = k
        BY <3>3 DEF k
      <4> QED BY <2>1, <4>1, <4>2, <4>3, <4>4
    <3> QED BY <3>2, <3>3
  <2> HIDE DEF j
  <2>3. InstanceOK(p, id, j, h) /\ ~IsCommitted(j)
    <3>1. \A r \in j.accept_acked : <<r, id>> \in h.noted
      BY <1>2, <1>3, <1>4, <2>1, <2>2 DEF InstanceOK
    <3>2. ~EPaxos => <<setup.leader, id, j.deps>> \in h.votes
      BY <2>2
    <3>3. EPaxos => RequesterOf(id) # p
      OBVIOUS
    <3> HIDE DEF i
    <3> QED BY <1>2, <2>2, <3>1, <3>2, <3>3 DEF InstanceOK, IsCommitted, Accepted, Committed
  <2>4. ~IsCommitted(checked.instances[id]) /\ id \in DOMAIN checked.instances
    BY <1>5, <1>8 DEF IsSettled, IsCommitted, PreAccepted, Committed
  <2> HIDE DEF i
  <2>5. Fine(p, u, n, h) /\ id \in DOMAIN u.instances
    BY <1>5, <2>3, <2>4, UpdateFine
  <2> HIDE DEF u
  <2>6. Fine(p, acked, n, h) /\ acked.instances = u.instances
    <3>1. ack \in AckMsg /\ ack \in Message /\ ack.type = "AcceptOk" /\ ack.id = id
      BY <1>3 DEF AckMsg, LateMsg, Message
    <3>2. IsReplica(p) => LateOK(p, ack, h) /\ \A q : MessageOK(p, q, ack, h)
      BY <1>3, <3>1 DEF LateOK, MessageOK, IsReplica
    <3> HIDE DEF ack
    <3>3. CASE ~IsReplica(p)
      BY <2>5, <3>3
    <3>4. CASE IsReplica(p) /\ EPaxos
      BY <2>5, <3>1, <3>2, <3>4, SendFine
    <3>5. CASE IsReplica(p) /\ ~EPaxos
      BY <2>5, <3>1, <3>2, <3>5, SendAckFine
    <3> QED BY <3>3, <3>4, <3>5
  <2>7. OnAccept(p, s, src, id, deps) = TryCommit(p, acked, id)
    BY <1>6, <1>8 DEF i
  <2> HIDE DEF acked
  <2> QED BY <2>5, <2>6, <2>7, TryCommitFine
<1> QED BY <1>7, <1>8

\* An acceptance is counted.
LEMMA OnAcceptOkFine ==
  ASSUME setup \in Setups, NEW p \in Proc, NEW h, NEW n, NEW s, Fine(p, s, n, h), NEW id \in DOMAIN s.instances,
         NEW src \in AliveReplicas, <<src, id>> \in h.noted
  PROVE  Reaches(p, h, n, OnAcceptOk(p, s, src, id))
<1> DEFINE i == s.instances[id]
           j == AcknowledgedBy(i, {src})
           u == [s EXCEPT !.instances[id] = j]
<1>1. WellHistory(h) /\ Local(p, s, h)
  BY DEF Fine
<1>2. InstanceOK(p, id, i, h)
  BY <1>1 DEF Local, Knowing
<1>3. CASE IsCommitted(i) \/ src \in i.accept_acked
  BY <1>3, ReachesSelf DEF OnAcceptOk
<1>4. CASE ~IsCommitted(i) /\ src \notin i.accept_acked
  <2>1. OnAcceptOk(p, s, src, id) = TryCommit(p, u, id)
    BY <1>4 DEF OnAcceptOk
  <2>2. InstanceOK(p, id, j, h) /\ ~IsCommitted(j)
    <3>1. i \in Instance
      BY <1>2 DEF InstanceOK
    <3> HIDE DEF i
    <3>2. /\ j \in Instance /\ j.leader = i.leader /\ j.commands = i.commands /\ j.deps = i.deps
          /\ j.phase = i.phase /\ j.preaccepts = i.preaccepts /\ j.coordinator_deps = i.coordinator_deps
          /\ j.accept_acked = i.accept_acked \cup {src}
      BY <3>1 DEF Instance, AcknowledgedBy
    <3> HIDE DEF j
    <3> QED BY <1>2, <1>4, <3>2 DEF InstanceOK, IsCommitted, IsSettled
  <2> HIDE DEF j
  <2>3. Fine(p, u, n, h) /\ id \in DOMAIN u.instances
    BY <1>4, <2>2, UpdateFine
  <2> HIDE DEF u, i
  <2> QED BY <2>1, <2>3, TryCommitFine
<1> QED BY <1>3, <1>4

\* A message about an instance that is here, or that should be, is dealt with.
LEMMA DispatchFine ==
  ASSUME setup \in Setups, NEW p \in Proc, NEW h, NEW n, NEW s, Fine(p, s, n, h),
         NEW src \in Proc \ {p}, NEW m \in LateMsg, LateOK(src, m, h)
  PROVE  Reaches(p, h, n, Dispatch(p, s, src, m))
<1>1. WellHistory(h) /\ HistoryType(h)
  BY DEF Fine, WellHistory
<1>2. /\ m.type \in {"PreAcceptOk", "Accept", "AcceptOk", "Commit"}
      /\ m.type = "PreAcceptOk" => m.deps \in DepSet \cup {NoDepSet}
      /\ m.type = "Accept" => m.deps \in DepSet
      /\ m.type = "Commit" => m.deps \in DepSet
  BY LateMsgType
<1>3. CASE m.id \notin DOMAIN s.instances
  <2>1. Dispatch(p, s, src, m) = Expect(s, FALSE)
    BY <1>3 DEF Dispatch
  <2> QED BY <2>1, ExpectFine, ReachesSelf
<1>4. CASE m.id \in DOMAIN s.instances /\ m.type = "PreAcceptOk"
  <2>1. Dispatch(p, s, src, m) = OnPreAcceptOk(p, s, src, m.id, m.deps)
    BY <1>4 DEF Dispatch
  <2>2. /\ src \in AliveReplicas
        /\ IF m.deps = NoDepSet
           THEN \E d : <<src, m.id, d>> \in h.votes /\ <<RequesterOf(m.id), m.id, d>> \in h.votes
           ELSE <<src, m.id, m.deps>> \in h.votes
    BY <1>4 DEF LateOK
  <2>3. m.deps \in DepSet \cup {NoDepSet} /\ m.id \in DOMAIN s.instances
    BY <1>2, <1>4
  <2>4. Reaches(p, h, n, OnPreAcceptOk(p, s, src, m.id, m.deps))
    BY <2>2, <2>3, OnPreAcceptOkFine, Zenon
  <2> QED BY <2>1, <2>4
<1>5. CASE m.id \in DOMAIN s.instances /\ m.type = "Accept"
  <2>1. Dispatch(p, s, src, m) = OnAccept(p, s, src, m.id, m.deps)
    BY <1>5 DEF Dispatch
  <2>2. IF EPaxos THEN src = RequesterOf(m.id)
        ELSE src = setup.leader /\ <<src, m.id, m.deps>> \in h.votes
    BY <1>5 DEF LateOK
  <2>3. m.deps \in DepSet /\ m.id \in DOMAIN s.instances
    BY <1>2, <1>5
  <2>4. Reaches(p, h, n, OnAccept(p, s, src, m.id, m.deps))
    BY <2>2, <2>3, OnAcceptFine, Zenon
  <2> QED BY <2>1, <2>4
<1>6. CASE m.id \in DOMAIN s.instances /\ m.type = "AcceptOk"
  <2>1. Dispatch(p, s, src, m) = OnAcceptOk(p, s, src, m.id)
    BY <1>6 DEF Dispatch
  <2>2. src \in AliveReplicas /\ <<src, m.id>> \in h.noted
    BY <1>6 DEF LateOK
  <2> QED BY <1>6, <2>1, <2>2, OnAcceptOkFine
<1>7. CASE m.id \in DOMAIN s.instances /\ m.type = "Commit"
  <2>1. Dispatch(p, s, src, m) = OnCommit(s, m.id, m.deps)
    BY <1>7 DEF Dispatch
  <2>2. h.chosen = h.chosen \cup {<<m.id, m.deps>>}
    BY <1>7 DEF LateOK
  <2>3. Extends(p, h, h)
    BY <1>1, ExtendsSelf
  <2>4. Fine(p, OnCommit(s, m.id, m.deps), n, h)
    BY <1>1, <1>2, <1>7, <2>2, <2>3, OnCommitFine
  <2> QED BY <2>1, <2>4, ReachesSelf
<1> QED BY <1>2, <1>3, <1>4, <1>5, <1>6, <1>7

-----------------------------------------------------------------------------
(* Messages that wait *)

\* Of messages that wait there may be one more.
LEMMA AppendHeld ==
  ASSUME NEW p, NEW h, NEW helds, AllHeldOK(p, helds, h), NEW held \in HeldMsg, HeldOK(p, held, h)
  PROVE  AllHeldOK(p, Append(helds, held), h)
<1>1. helds \in Seq(HeldMsg)
  BY DEF AllHeldOK
<1>2. /\ Append(helds, held) \in Seq(HeldMsg)
      /\ \A j \in DOMAIN Append(helds, held) :
           (j \in DOMAIN helds /\ Append(helds, held)[j] = helds[j]) \/ Append(helds, held)[j] = held
  BY <1>1
<1> QED BY <1>2 DEF AllHeldOK

\* A message may wait.
LEMMA DeferFine ==
  ASSUME NEW p, NEW h, NEW n, NEW s, Fine(p, s, n, h), NEW id, NEW held \in HeldMsg, HeldOK(p, held, h)
  PROVE  Fine(p, Defer(s, id, held), n, h)
<1> DEFINE before == IF id \in DOMAIN s.deferred THEN s.deferred[id] ELSE <<>>
           deferred == Put(s.deferred, id, Append(before, held))
           t == Defer(s, id, held)
<1>1. IsShard(s) /\ Holding(p, s.deferred, h)
  BY DEF Fine, Local
<1>2. t = [s EXCEPT !.deferred = deferred]
  BY DEF Defer
<1>3. AllHeldOK(p, before, h)
  <2>1. AllHeldOK(p, <<>>, h)
    BY DEF AllHeldOK
  <2> QED BY <1>1, <2>1 DEF Holding
<1> HIDE DEF before
<1>4. Holding(p, deferred, h)
  <2>1. AllHeldOK(p, Append(before, held), h)
    BY <1>3, AppendHeld
  <2>2. /\ deferred = [a \in DOMAIN deferred |-> deferred[a]]
        /\ \A a \in DOMAIN deferred :
             IF a = id THEN deferred[a] = Append(before, held)
             ELSE a \in DOMAIN s.deferred /\ deferred[a] = s.deferred[a]
    BY DEF Put
  <2> HIDE DEF deferred
  <2> QED BY <1>1, <2>1, <2>2 DEF Holding
<1> HIDE DEF deferred, t
<1>5. /\ IsShard(t) /\ t.out = s.out
      /\ t.next_uid = s.next_uid /\ t.conflicts = s.conflicts /\ t.instances = s.instances
      /\ t.decided = s.decided /\ t.deferred = deferred /\ t.queue = s.queue /\ t.bundle = s.bundle
      /\ t.pending_fast = s.pending_fast /\ t.pending_slow = s.pending_slow
      /\ t.ack_recipients = s.ack_recipients /\ t.next_read = s.next_read /\ t.reads = s.reads
      /\ t.executed = s.executed /\ t.log = s.log /\ t.missed = s.missed
  BY <1>1, <1>2 DEF IsShard, ShardFields
<1>6. Local(p, t, h)
  BY <1>4, <1>5 DEF Fine, Local
<1> QED BY <1>5, <1>6 DEF Fine, t

\* What waited may be next.
LEMMA ReleaseFine ==
  ASSUME NEW p, NEW h, NEW n, NEW s, Fine(p, s, n, h), NEW id
  PROVE  Fine(p, Release(s, id), n, h)
<1> DEFINE next == Deferred(s, id)
           queue == s.queue \o next
           deferred == Restrict(s.deferred, DOMAIN s.deferred \ {id})
           t == Release(s, id)
<1>1. IsShard(s) /\ Holding(p, s.deferred, h) /\ AllHeldOK(p, s.queue, h)
  BY DEF Fine, Local
<1>2. t = [s EXCEPT !.queue = queue, !.deferred = deferred]
  <2> HIDE DEF next
  <2>1. t = TakeDeferred([s EXCEPT !.queue = queue], id)
    BY DEF Release, next
  <2> HIDE DEF queue, t
  <2> QED BY <1>1, <2>1 DEF TakeDeferred, IsShard, ShardFields
<1>3. AllHeldOK(p, next, h)
  <2>1. AllHeldOK(p, <<>>, h)
    BY DEF AllHeldOK
  <2> QED BY <1>1, <2>1 DEF Holding, Deferred
<1> HIDE DEF next
<1>4. AllHeldOK(p, queue, h)
  <2> DEFINE a == s.queue
  <2>1. a \in Seq(HeldMsg) /\ next \in Seq(HeldMsg) /\ queue = a \o next
    BY <1>1, <1>3 DEF AllHeldOK
  <2>2. /\ \A j \in DOMAIN a : HeldOK(p, a[j], h)
        /\ \A j \in DOMAIN next : HeldOK(p, next[j], h)
    BY <1>1, <1>3 DEF AllHeldOK
  <2> HIDE DEF a, queue
  <2>3. /\ queue \in Seq(HeldMsg)
        /\ \A j \in DOMAIN a : queue[j] = a[j]
        /\ \A j \in DOMAIN queue : j \in DOMAIN a \/ \E k \in DOMAIN next : queue[j] = next[k]
    BY <2>1, Concatenated
  <2> QED BY <2>2, <2>3 DEF AllHeldOK
<1>5. Holding(p, deferred, h)
  <2>1. /\ deferred = [a \in DOMAIN deferred |-> deferred[a]]
        /\ \A a \in DOMAIN deferred : a \in DOMAIN s.deferred /\ deferred[a] = s.deferred[a]
    BY DEF Restrict
  <2> HIDE DEF deferred
  <2> QED BY <1>1, <2>1 DEF Holding
<1> HIDE DEF deferred, t, queue
<1>6. /\ IsShard(t) /\ t.out = s.out
      /\ t.next_uid = s.next_uid /\ t.conflicts = s.conflicts /\ t.instances = s.instances
      /\ t.decided = s.decided /\ t.deferred = deferred /\ t.queue = queue /\ t.bundle = s.bundle
      /\ t.pending_fast = s.pending_fast /\ t.pending_slow = s.pending_slow
      /\ t.ack_recipients = s.ack_recipients /\ t.next_read = s.next_read /\ t.reads = s.reads
      /\ t.executed = s.executed /\ t.log = s.log /\ t.missed = s.missed
  BY <1>1, <1>2 DEF IsShard, ShardFields
<1>7. Local(p, t, h)
  BY <1>4, <1>5, <1>6 DEF Fine, Local
<1> QED BY <1>6, <1>7 DEF Fine, t

\* So may what was reached.
LEMMA ReleaseReaches ==
  ASSUME NEW p, NEW h, NEW n, NEW s, Reaches(p, h, n, s), NEW id
  PROVE  Reaches(p, h, n, Release(s, id))
BY ReleaseFine DEF Reaches

\* A message that may wait is delivered, or waits.
LEMMA DeliverFine ==
  ASSUME setup \in Setups, NEW p \in Proc, NEW h, NEW n, NEW s, Fine(p, s, n, h),
         NEW held \in HeldMsg, HeldOK(p, held, h)
  PROVE  Reaches(p, h, n, Deliver(p, s, held))
<1> DEFINE id == held.msg.id
           waits == BlockedBy(p, s, held.msg)
           t == Expect(s, FirstOf(waits) \in ParkedAccepts(s))
<1>1. held.src \in Proc \ {p} /\ held.msg \in LateMsg /\ LateOK(held.src, held.msg, h)
  BY DEF HeldMsg, HeldOK
<1>2. CASE HasExecuted(s.executed, id)
  BY <1>2, ReachesSelf DEF Deliver
<1>3. CASE ~HasExecuted(s.executed, id) /\ waits # {}
  <2>1. Deliver(p, s, held) = Defer(t, FirstOf(waits), held)
    BY <1>3 DEF Deliver
  <2>2. Fine(p, t, n, h)
    BY ExpectFine
  <2> HIDE DEF t, waits
  <2> QED BY <2>1, <2>2, DeferFine, ReachesSelf
<1>4. CASE ~HasExecuted(s.executed, id) /\ waits = {}
  <2>1. Deliver(p, s, held) = Release(Dispatch(p, s, held.src, held.msg), id)
    BY <1>4 DEF Deliver
  <2>2. Reaches(p, h, n, Dispatch(p, s, held.src, held.msg))
    BY <1>1, DispatchFine
  <2> QED BY <2>1, <2>2, ReleaseReaches
<1> QED BY <1>2, <1>3, <1>4

\* A message that may wait for the commands it is about is dealt with.
LEMMA HandleLateFine ==
  ASSUME setup \in Setups, NEW p \in Proc, NEW h, NEW n, NEW s, Fine(p, s, n, h),
         NEW src \in Proc \ {p}, NEW m \in LateMsg, LateOK(src, m, h)
  PROVE  Reaches(p, h, n, HandleInstance(p, s, src, m))
<1> DEFINE held == [src |-> src, msg |-> m]
<1>1. held \in HeldMsg /\ HeldOK(p, held, h)
  BY DEF HeldMsg, HeldOK
<1>2. m.type # "PreAccept"
  BY LateMsgType
<1>3. CASE HasExecuted(s.executed, m.id)
  BY <1>3, ReachesSelf DEF HandleInstance
<1>4. CASE ~HasExecuted(s.executed, m.id) /\ m.id \in DOMAIN s.instances
  <2>1. HandleInstance(p, s, src, m) = Deliver(p, s, held)
    BY <1>4 DEF HandleInstance
  <2> HIDE DEF held
  <2> QED BY <1>1, <2>1, DeliverFine
<1>5. CASE ~HasExecuted(s.executed, m.id) /\ m.id \notin DOMAIN s.instances
  <2>1. HandleInstance(p, s, src, m) = Defer(s, m.id, held)
    BY <1>2, <1>5 DEF HandleInstance
  <2> HIDE DEF held
  <2> QED BY <1>1, <2>1, DeferFine, ReachesSelf
<1> QED BY <1>3, <1>4, <1>5

-----------------------------------------------------------------------------
(* Instances that p hears of for the first time *)

\* More is included in what had more.
LEMMA InsertWithin ==
  ASSUME NEW deps \in DepSet, NEW other \in DepSet, Within(deps, other), NEW id \in Id
  PROVE  Within(Insert(deps, id), Insert(other, id))
<1>1. RequesterOf(id) \in Proc /\ IndexOf(id) \in Nat
  BY IdParts
<1> QED BY <1>1 DEF Insert, Within, DepSet

\* id may be seen for the first time, with a vote for deps.
MayVote(p, h, id, cs, deps) ==
  /\ id \in Id /\ cs \in Seq(Cmd) /\ deps \in DepSet
  /\ h.heard[p][RequesterOf(id)] <= IndexOf(id)
  /\ p # RequesterOf(id) => <<id, cs>> \in h.born
  /\ EPaxos => RequesterOf(id) \in AliveReplicas
  /\ ~EPaxos => Within(deps, Insert(h.heard[p], id))
  /\ \A b, k : <<p, b>> \in h.noted /\ Touches(h, b, k) /\ k \in KeysIn(cs) => Includes(deps, b)

\* t is s with the instance i of id, and has noted it.
Adds(s, t, id, cs, i) ==
  /\ IsShard(t)
  /\ t.conflicts = [k \in Key |-> IF k \in KeysIn(cs) THEN Insert(s.conflicts[k], id) ELSE s.conflicts[k]]
  /\ t.instances = Put(s.instances, id, i)
  /\ t.decided = s.decided /\ t.deferred = s.deferred /\ t.queue = s.queue /\ t.bundle = s.bundle
  /\ t.pending_fast = s.pending_fast /\ t.pending_slow = s.pending_slow
  /\ t.ack_recipients = s.ack_recipients /\ t.next_read = s.next_read /\ t.reads = s.reads
  /\ t.executed = s.executed /\ t.log = s.log /\ t.missed = s.missed

\* p sees id for the first time, notes it, and votes.
LEMMA FirstVote ==
  ASSUME NEW p \in Proc, NEW h, WellHistory(h), NEW s, Local(p, s, h),
         NEW id, NEW cs, NEW deps, MayVote(p, h, id, cs, deps),
         ExecutionSound => ~HasExecuted(s.executed, id),
         NEW g, g = WithVote(h, p, id, cs, deps), NEW i, InstanceOK(p, id, i, g), ~IsCommitted(i),
         NEW t, Adds(s, t, id, cs, i), t.next_uid \in Nat, t.next_uid = g.heard[p][p]
  PROVE  Local(p, t, g)
<1> id \in Id /\ cs \in Seq(Cmd) /\ deps \in DepSet
  BY DEF MayVote
<1> USE DEF Adds
<1>1. WellHistory(g) /\ Extends(p, h, g)
  BY VoteKeepsHistory DEF MayVote
<1>2. /\ g.born = h.born \cup {<<id, cs>>} /\ g.noted = h.noted \cup {<<p, id>>}
      /\ g.heard = [h.heard EXCEPT ![p] = Insert(@, id)]
      /\ g.chosen = h.chosen /\ g.asked = h.asked
  BY DEF WithVote
<1>3. /\ h.heard[p] \in DepSet /\ g.heard[p] = Insert(h.heard[p], id)
      /\ <<p, id>> \notin h.noted
  <2>1. h.heard \in [Proc -> DepSet]
    BY DEF WellHistory, HistoryType
  <2>2. h.heard[p][RequesterOf(id)] \in Nat /\ IndexOf(id) \in Nat
    BY <2>1, IdParts DEF DepSet
  <2>3. ~(IndexOf(id) < h.heard[p][RequesterOf(id)])
    BY <2>2 DEF MayVote
  <2> QED BY <1>2, <2>1, <2>3 DEF WellHistory, NotedInOrder
<1>4. Noting(p, t.next_uid, t.conflicts, g)
  <2>1. s.conflicts \in [Key -> DepSet] /\ \A k \in Key : Within(s.conflicts[k], h.heard[p])
    BY DEF Local, Noting
  <2>2. ASSUME NEW k \in Key
        PROVE  /\ t.conflicts[k] \in DepSet /\ Within(t.conflicts[k], g.heard[p])
               /\ Within(s.conflicts[k], t.conflicts[k])
    <3>1. /\ Insert(s.conflicts[k], id) \in DepSet /\ Within(s.conflicts[k], Insert(s.conflicts[k], id))
          /\ Within(Insert(s.conflicts[k], id), g.heard[p])
      BY <1>3, <2>1, InsertType, InsertWithin
    <3>2. /\ s.conflicts[k] \in DepSet /\ Within(s.conflicts[k], h.heard[p])
          /\ Within(h.heard[p], g.heard[p]) /\ g.heard[p] \in DepSet
      BY <1>3, <2>1, InsertType
    <3>3. Within(s.conflicts[k], g.heard[p]) /\ Within(s.conflicts[k], s.conflicts[k])
      BY <1>3, <3>2, WithinTrans DEF Within, DepSet
    <3> QED BY <3>1, <3>2, <3>3
  <2>3. ASSUME NEW b, NEW k, <<p, b>> \in g.noted, Touches(g, b, k)
        PROVE  Includes(t.conflicts[k], b)
    <3>1. PICK ds : <<b, ds>> \in g.born /\ k \in KeysIn(ds)
      BY <2>3 DEF Touches
    <3>2. b \in Id /\ ds \in Seq(Cmd)
      BY <1>1, <3>1 DEF WellHistory, HistoryType
    <3>3. k \in Key
      BY <3>1, <3>2, KeysInType
    <3>4. CASE b = id
      <4>1. <<id, cs>> \in g.born
        BY <1>2
      <4>2. ds = cs
        BY <1>1, <3>1, <3>4, <4>1 DEF WellHistory, BornOnce
      <4>3. t.conflicts[k] = Insert(s.conflicts[k], id)
        BY <3>1, <3>3, <4>2
      <4> QED BY <2>1, <3>3, <3>4, <4>3, InsertType
    <3>5. CASE b # id
      <4>1. <<p, b>> \in h.noted
        BY <1>2, <2>3, <3>5
      <4>2. Touches(h, b, k)
        BY <1>1, <2>3, <4>1, TouchesKept
      <4>3. Includes(s.conflicts[k], b)
        BY <4>1, <4>2 DEF Local, Noting
      <4> QED BY <2>1, <2>2, <3>2, <3>3, <4>3, WithinIncludes
    <3> QED BY <3>4, <3>5
  <2>4. t.conflicts \in [Key -> DepSet]
    BY <2>2
  <2> QED BY <2>2, <2>3, <2>4 DEF Noting
<1>5. Knowing(p, t.instances, t.decided, g)
  <2> DEFINE inst == Put(s.instances, id, i)
  <2>1. /\ DOMAIN inst = DOMAIN s.instances \cup {id} /\ inst = [a \in DOMAIN inst |-> inst[a]]
        /\ inst[id] = i /\ \A a \in DOMAIN inst : a # id => inst[a] = s.instances[a]
    BY DEF Put
  <2> HIDE DEF inst
  <2>2. IsFiniteSet(DOMAIN inst)
    BY <2>1, FS_AddElement DEF Local, Knowing
  <2>3. id \notin DOMAIN s.decided
    BY <1>3 DEF Local, Knowing
  <2>4. ASSUME NEW a \in DOMAIN inst
        PROVE  InstanceOK(p, a, inst[a], g) /\ (IsCommitted(inst[a]) <=> a \in DOMAIN s.decided)
    <3>1. CASE a = id
      BY <2>1, <2>3, <3>1
    <3>2. CASE a # id
      <4>1. /\ InstanceOK(p, a, s.instances[a], h) /\ (IsCommitted(s.instances[a]) <=> a \in DOMAIN s.decided)
            /\ inst[a] = s.instances[a]
        BY <2>1, <3>2 DEF Local, Knowing
      <4> QED BY <1>1, <4>1, InstanceKept
    <3> QED BY <3>1, <3>2
  <2>5. \A a \in DOMAIN s.decided :
          /\ <<p, a>> \in g.noted
          /\ <<a, s.decided[a].deps>> \in g.chosen
          /\ IsDecision(s.decided[a])
          /\ \E ds : <<a, ds>> \in g.born /\ s.decided[a].keys = KeysIn(ds)
    BY <1>1 DEF Extends, Local, Knowing
  <2>6. EPaxos => \A a, ds : <<a, ds>> \in g.chosen /\ RequesterOf(a) = p => a \in DOMAIN s.decided
    BY <1>2 DEF Local, Knowing
  <2>7. Knowing(p, inst, s.decided, g)
    BY <2>1, <2>2, <2>4, <2>5, <2>6 DEF Knowing
  <2>8. t.instances = inst /\ t.decided = s.decided
    BY DEF inst
  <2> QED BY <2>7, <2>8
<1>6. Holding(p, t.deferred, g)
  BY <1>1, HeldsKept DEF Local, Holding
<1>7. /\ AllHeldOK(p, t.queue, g) /\ AllHeldOK(p, t.bundle, g)
      /\ AllAcksOK(p, t.pending_fast, g) /\ AllAcksOK(p, t.pending_slow, g)
      /\ t.ack_recipients \subseteq Proc
  BY <1>1, HeldsKept DEF Local
<1>8. Reading(p, t.next_read, t.reads, g)
  BY <1>1, <1>2, ReadKept DEF Local, Reading
<1>9. ExecutesSoundly(t.executed, t.log, t.instances, t.missed, g)
  <2>1. ExecutesSoundly(s.executed, s.log, s.instances, s.missed, g)
    BY <1>1, ExecutesKept DEF Local
  <2>2. DOMAIN t.instances = DOMAIN s.instances \cup {id}
    BY DEF Put
  <2> QED BY <2>1, <2>2 DEF ExecutesSoundly
<1> QED BY <1>1, <1>2, <1>4, <1>5, <1>6, <1>7, <1>8, <1>9 DEF Local

\* What p has seen once it has noted id.
LEMMA NotedConflicts ==
  ASSUME NEW p \in Proc, NEW h, WellHistory(h), NEW s, Local(p, s, h),
         NEW id \in Id, NEW cs \in Seq(Cmd), NEW conflicts,
         conflicts = [k \in Key |-> IF k \in KeysIn(cs) THEN Insert(s.conflicts[k], id) ELSE s.conflicts[k]]
  PROVE  /\ conflicts \in [Key -> DepSet]
         /\ \A k \in Key : Within(s.conflicts[k], conflicts[k]) /\ Within(conflicts[k], Insert(h.heard[p], id))
<1>1. s.conflicts \in [Key -> DepSet] /\ \A k \in Key : Within(s.conflicts[k], h.heard[p])
  BY DEF Local, Noting
<1>2. h.heard[p] \in DepSet /\ Insert(h.heard[p], id) \in DepSet /\ Within(h.heard[p], Insert(h.heard[p], id))
  BY InsertType DEF WellHistory, HistoryType
<1>3. ASSUME NEW k \in Key
      PROVE  /\ conflicts[k] \in DepSet
             /\ Within(s.conflicts[k], conflicts[k]) /\ Within(conflicts[k], Insert(h.heard[p], id))
  <2>1. /\ Insert(s.conflicts[k], id) \in DepSet /\ Within(s.conflicts[k], Insert(s.conflicts[k], id))
        /\ Within(Insert(s.conflicts[k], id), Insert(h.heard[p], id))
    BY <1>1, <1>2, InsertType, InsertWithin
  <2>2. Within(s.conflicts[k], s.conflicts[k])
    BY <1>1 DEF Within, DepSet
  <2>3. Within(s.conflicts[k], Insert(h.heard[p], id))
    BY <1>1, <1>2, WithinTrans
  <2> QED BY <1>1, <2>1, <2>2, <2>3
<1> QED BY <1>3

\* What p would have id depend on holds all that p has seen and id conflicts with.
LEMMA OwnDepsOK ==
  ASSUME NEW p \in Proc, NEW h, WellHistory(h), NEW s, Local(p, s, h),
         NEW id \in Id, NEW cs \in Seq(Cmd), NEW deps \in DepSet,
         <<id, cs>> \in h.born, <<RequesterOf(id), id, deps>> \in h.votes,
         h.heard[p][RequesterOf(id)] <= IndexOf(id),
         NEW c, c.instances[id].commands = cs,
         c.conflicts = [k \in Key |-> IF k \in KeysIn(cs) THEN Insert(s.conflicts[k], id) ELSE s.conflicts[k]]
  PROVE  /\ OwnDeps(c, id, deps) \in DepSet
         /\ ~EPaxos => Within(OwnDeps(c, id, deps), Insert(h.heard[p], id))
         /\ \A b, k : <<p, b>> \in h.noted /\ Touches(h, b, k) /\ k \in KeysIn(cs) =>
              Includes(OwnDeps(c, id, deps), b)
<1> DEFINE r == RequesterOf(id)
           seen == DepsFor(c, KeysIn(cs))
           wide == IF EPaxos THEN UnionWith(deps, ClearReplica(seen, r)) ELSE seen
           mine == OwnDeps(c, id, deps)
<1>1. mine = WithoutUid(wide, id)
  BY DEF OwnDeps
<1>2. r \in Proc /\ IndexOf(id) \in Nat
  BY IdParts
<1>3. /\ c.conflicts \in [Key -> DepSet]
      /\ \A k \in Key : /\ Within(s.conflicts[k], c.conflicts[k])
                        /\ Within(c.conflicts[k], Insert(h.heard[p], id))
  BY NotedConflicts
<1>4. KeysIn(cs) \subseteq Key
  BY KeysInType
<1>5. Insert(h.heard[p], id) \in DepSet
  BY InsertType DEF WellHistory, HistoryType
<1>6. /\ seen \in DepSet /\ Within(seen, Insert(h.heard[p], id))
      /\ \A k \in KeysIn(cs) : Within(c.conflicts[k], seen)
  BY <1>3, <1>4, <1>5, DepsForType
<1> HIDE DEF seen
<1>7. ClearReplica(seen, r) \in DepSet
  BY <1>2, <1>6, ClearReplicaType
<1>8. wide \in DepSet
  BY <1>6, <1>7, UnionWithType
<1>9. mine \in DepSet /\ Within(mine, wide) /\ \A b \in Id : Includes(wide, b) /\ b # id => Includes(mine, b)
  <2> HIDE DEF wide, mine
  <2> QED BY <1>1, <1>8, WithoutUidType
<1>10. ~EPaxos => Within(mine, Insert(h.heard[p], id))
  BY <1>5, <1>6, <1>8, <1>9, WithinTrans
<1>11. ASSUME NEW b, NEW k, <<p, b>> \in h.noted, Touches(h, b, k), k \in KeysIn(cs)
       PROVE  Includes(mine, b)
  <2>1. b \in Id /\ IndexOf(b) < h.heard[p][RequesterOf(b)] /\ k \in Key
    BY <1>4, <1>11 DEF WellHistory, HistoryType, NotedInOrder
  <2>2. b # id /\ (RequesterOf(b) = r => IndexOf(b) < IndexOf(id))
    <3>1. h.heard[p][r] \in Nat /\ IndexOf(b) \in Nat
      BY <1>2, <2>1, IdParts DEF WellHistory, HistoryType, DepSet
    <3> QED BY <1>2, <2>1, <3>1
  <2>3. Includes(seen, b)
    <3>1. Includes(s.conflicts[k], b)
      BY <1>11 DEF Local, Noting
    <3>2. s.conflicts[k] \in DepSet /\ c.conflicts[k] \in DepSet
      BY <1>3, <2>1 DEF Local, Noting
    <3>3. Includes(c.conflicts[k], b)
      BY <1>3, <2>1, <3>1, <3>2, WithinIncludes
    <3> QED BY <1>6, <1>11, <2>1, <3>2, <3>3, WithinIncludes
  <2>4. Includes(wide, b)
    <3>1. CASE ~EPaxos
      BY <2>3, <3>1
    <3>2. CASE EPaxos /\ RequesterOf(b) # r
      <4>1. Includes(ClearReplica(seen, r), b)
        BY <1>2, <1>6, <2>1, <2>3, <3>2, ClearReplicaType
      <4>2. Within(ClearReplica(seen, r), UnionWith(deps, ClearReplica(seen, r)))
            /\ UnionWith(deps, ClearReplica(seen, r)) \in DepSet
        BY <1>7, UnionWithType
      <4> QED BY <1>7, <2>1, <3>2, <4>1, <4>2, WithinIncludes
    <3>3. CASE EPaxos /\ RequesterOf(b) = r
      <4>1. PICK bs : <<b, bs>> \in h.born
        BY <1>11 DEF WellHistory, NotedInOrder
      <4>2. PICK db : <<RequesterOf(b), b, db>> \in h.votes
        BY <4>1 DEF WellHistory, BornOnce
      <4>3. Conflict(h, id, b)
        BY <1>11, <2>1 DEF Conflict, Touches
      <4>4. Includes(deps, b)
        BY <2>2, <3>3, <4>2, <4>3 DEF WellHistory, OwnVisible
      <4>5. Within(deps, UnionWith(deps, ClearReplica(seen, r)))
            /\ UnionWith(deps, ClearReplica(seen, r)) \in DepSet
        BY <1>7, UnionWithType
      <4> QED BY <2>1, <3>3, <4>4, <4>5, WithinIncludes
    <3> QED BY <3>1, <3>2, <3>3
  <2> QED BY <1>9, <2>1, <2>2, <2>4
<1> QED BY <1>9, <1>10, <1>11

\* The instance that p has once it has heard of the requester's vote, and then cast its own.
HeardOf(id, cs, deps) ==
  LET heard == SetCoordinatorDeps(NewInstance(Leader(id), cs, NoDeps), deps)
  IN  IF InFastQuorum(RequesterOf(id)) THEN RecordPreaccept(heard, RequesterOf(id), deps) ELSE heard

VotedOn(p, id, cs, deps, mine) ==
  LET known == HeardOf(id, cs, deps)
  IN  IF InFastQuorum(p) THEN RecordPreaccept([known EXCEPT !.deps = mine], p, mine)
      ELSE [known EXCEPT !.deps = mine]

\* That instance tells of these votes.
LEMMA VotedInstance ==
  ASSUME setup \in Setups, NEW p \in Proc, NEW h, WellHistory(h), NEW id \in Id, NEW cs \in Seq(Cmd),
         NEW deps \in DepSet, NEW mine \in DepSet,
         <<p, id>> \in h.noted, <<id, cs>> \in h.born, <<RequesterOf(id), id, deps>> \in h.votes,
         <<p, id, mine>> \in h.votes
  PROVE  /\ ~IsSettled(HeardOf(id, cs, deps))
         /\ InstanceOK(p, id, VotedOn(p, id, cs, deps, mine), h)
         /\ ~IsCommitted(VotedOn(p, id, cs, deps, mine))
<1> DEFINE src == RequesterOf(id)
           heard == SetCoordinatorDeps(NewInstance(Leader(id), cs, NoDeps), deps)
           known == HeardOf(id, cs, deps)
           i == VotedOn(p, id, cs, deps, mine)
           OK(j) == /\ j \in Instance /\ j.leader = Leader(id) /\ j.commands = cs /\ j.phase = PreAccepted
                    /\ j.accept_acked = {} /\ j.coordinator_deps = deps
                    /\ \A r \in DOMAIN j.preaccepts : <<r, id, j.preaccepts[r]>> \in h.votes
<1>1. EPaxos => src \in AliveReplicas
  BY DEF WellHistory, BornOnce
<1>2. Leader(id) \in AliveReplicas
  BY <1>1, LeaderIsReplica
<1>3. OK(heard)
  <2> DEFINE new == NewInstance(Leader(id), cs, NoDeps)
  <2>1. /\ new = [leader |-> Leader(id), commands |-> cs, deps |-> NoDeps, phase |-> PreAccepted,
                  preaccepts |-> <<>>, accept_acked |-> {}, coordinator_deps |-> NoDepSet]
        /\ heard = [new EXCEPT !.coordinator_deps = deps]
    BY DEF NewInstance, SetCoordinatorDeps
  <2>2. NoDeps \in DepSet /\ <<>> \in Proposals
    BY NoDepsType, ProposalsType
  <2>3. new \in Instance
    BY <1>2, <2>1, <2>2 DEF Instance
  <2>4. /\ new.leader = Leader(id) /\ new.commands = cs /\ new.phase = PreAccepted
        /\ new.accept_acked = {} /\ new.preaccepts = <<>>
    BY <2>1
  <2> HIDE DEF new
  <2>5. /\ heard \in Instance /\ heard.leader = new.leader /\ heard.commands = new.commands
        /\ heard.phase = new.phase /\ heard.accept_acked = new.accept_acked
        /\ heard.preaccepts = new.preaccepts /\ heard.coordinator_deps = deps
    BY <2>1, <2>3 DEF Instance
  <2>6. \A r \in DOMAIN <<>> : <<r, id, heard.preaccepts[r]>> \in h.votes
    OBVIOUS
  <2> QED BY <2>4, <2>5, <2>6
<1>4. ASSUME NEW j, OK(j), NEW r \in AliveReplicas, NEW d \in DepSet, <<r, id, d>> \in h.votes
      PROVE  OK(RecordPreaccept(j, r, d))
  <2> DEFINE k == RecordPreaccept(j, r, d)
  <2>1. /\ k \in Instance
        /\ k = [j EXCEPT !.preaccepts = k.preaccepts]
        /\ DOMAIN k.preaccepts = DOMAIN j.preaccepts \cup {r}
        /\ \A q \in DOMAIN j.preaccepts : k.preaccepts[q] = j.preaccepts[q]
        /\ r \notin DOMAIN j.preaccepts => k.preaccepts[r] = d
    BY <1>4, RecordPreacceptType
  <2> HIDE DEF k
  <2>2. /\ k.phase = j.phase /\ k.deps = j.deps /\ k.leader = j.leader /\ k.commands = j.commands
        /\ k.accept_acked = j.accept_acked /\ k.coordinator_deps = j.coordinator_deps
    BY <1>4, <2>1 DEF Instance
  <2>3. \A q \in DOMAIN k.preaccepts : <<q, id, k.preaccepts[q]>> \in h.votes
    BY <1>4, <2>1
  <2>4. OK(k)
    BY <1>4, <2>1, <2>2, <2>3
  <2> QED BY <2>4 DEF k
<1>5. ASSUME NEW j, OK(j)
      PROVE  OK([j EXCEPT !.deps = mine])
  BY <1>5 DEF Instance
<1> HIDE DEF OK
<1>6. OK(known)
  <2>1. InFastQuorum(src) => src \in AliveReplicas
    BY DEF InFastQuorum, IsReplica
  <2>2. known = IF InFastQuorum(src) THEN RecordPreaccept(heard, src, deps) ELSE heard
    BY DEF HeardOf
  <2> HIDE DEF heard, known
  <2> QED BY <1>3, <1>4, <2>1, <2>2
<1> HIDE DEF known
<1>7. OK([known EXCEPT !.deps = mine])
  BY <1>5, <1>6
<1>8. OK(i)
  <2>1. InFastQuorum(p) => p \in AliveReplicas
    BY DEF InFastQuorum, IsReplica
  <2>2. i = IF InFastQuorum(p) THEN RecordPreaccept([known EXCEPT !.deps = mine], p, mine)
            ELSE [known EXCEPT !.deps = mine]
    BY DEF VotedOn, known
  <2> HIDE DEF i
  <2> QED BY <1>4, <1>7, <2>1, <2>2
<1> HIDE DEF i
<1>9. ~IsSettled(known)
  BY <1>6 DEF OK, IsSettled, PreAccepted
<1>10. InstanceOK(p, id, i, h)
  <2>1. ~IsSettled(i) /\ i.phase # Accepted /\ ~IsCommitted(i)
    BY <1>8 DEF OK, IsSettled, IsCommitted, PreAccepted, Accepted, Committed
  <2> QED BY <1>8, <2>1 DEF OK, InstanceOK
<1>11. ~IsCommitted(i)
  BY <1>8 DEF OK, IsCommitted, PreAccepted, Committed
<1> QED BY <1>9, <1>10, <1>11 DEF known, i

\* SwiftPaxos' leader accepts its own vote.
LEMMA SwiftLeaderAcceptFine ==
  ASSUME setup \in Setups, NEW p \in Proc, NEW h, NEW n, NEW s, Fine(p, s, n, h), NEW id \in DOMAIN s.instances,
         ~EPaxos, p = setup.leader, ~IsCommitted(s.instances[id]), NEW deps, <<p, id, deps>> \in h.votes
  PROVE  /\ Fine(p, SwiftLeaderAccept(p, s, id, deps), n, h)
         /\ id \in DOMAIN SwiftLeaderAccept(p, s, id, deps).instances
<1> DEFINE i == s.instances[id]
           k == RecordPreaccept(i, p, deps)
           j == AcknowledgedBy(Accept(k, deps), {p})
           t == [s EXCEPT !.instances[id] = j]
           m == [type |-> "Accept", id |-> id, deps |-> deps]
<1>1. WellHistory(h) /\ Local(p, s, h)
  BY DEF Fine
<1>2. InstanceOK(p, id, i, h)
  BY <1>1 DEF Local, Knowing
<1>3. id \in Id /\ i \in Instance /\ <<p, id>> \in h.noted
  BY <1>2 DEF InstanceOK
<1>4. p \in AliveReplicas
  BY SetupType
<1>5. deps \in DepSet
  BY <1>1 DEF WellHistory, HistoryType
<1> HIDE DEF i
<1>6. /\ k \in Instance
      /\ k = [i EXCEPT !.preaccepts = k.preaccepts]
      /\ DOMAIN k.preaccepts = DOMAIN i.preaccepts \cup {p}
      /\ \A q \in DOMAIN i.preaccepts : k.preaccepts[q] = i.preaccepts[q]
      /\ p \notin DOMAIN i.preaccepts => k.preaccepts[p] = deps
  BY <1>3, <1>4, <1>5, RecordPreacceptType
<1> HIDE DEF k
<1>7. /\ k.leader = i.leader /\ k.commands = i.commands
      /\ k.accept_acked = i.accept_acked /\ k.coordinator_deps = i.coordinator_deps
      /\ \A r \in DOMAIN k.preaccepts : <<r, id, k.preaccepts[r]>> \in h.votes
  <2>1. /\ k.leader = i.leader /\ k.commands = i.commands
        /\ k.accept_acked = i.accept_acked /\ k.coordinator_deps = i.coordinator_deps
    BY <1>3, <1>6 DEF Instance
  <2>2. \A r \in DOMAIN k.preaccepts : <<r, id, k.preaccepts[r]>> \in h.votes
    BY <1>2, <1>6 DEF InstanceOK
  <2> QED BY <2>1, <2>2
<1>8. /\ j \in Instance /\ j.phase = Accepted /\ j.deps = deps
      /\ j.leader = k.leader /\ j.commands = k.commands /\ j.preaccepts = k.preaccepts
      /\ j.accept_acked = k.accept_acked \cup {p} /\ j.coordinator_deps = k.coordinator_deps
  BY <1>4, <1>5, <1>6 DEF Instance, Accept, Accepted, AcknowledgedBy
<1>9. SwiftLeaderAccept(p, s, id, deps) = SendAck(t, m)
  BY DEF SwiftLeaderAccept, i, k
<1> HIDE DEF j
<1>10. InstanceOK(p, id, j, h) /\ ~IsCommitted(j)
  <2>1. <<setup.leader, id, j.deps>> \in h.votes
    BY <1>8
  <2> QED BY <1>2, <1>3, <1>7, <1>8, <2>1 DEF InstanceOK, IsCommitted, Accepted, Committed
<1>11. Fine(p, t, n, h) /\ id \in DOMAIN t.instances
  BY <1>10, UpdateFine
<1>12. m \in AckMsg /\ LateOK(p, m, h)
  <2>1. m \in AckMsg /\ m.type = "Accept" /\ m.id = id /\ m.deps = deps
    BY <1>3, <1>5 DEF AckMsg
  <2> HIDE DEF m
  <2> QED BY <2>1 DEF LateOK
<1> HIDE DEF t, m
<1> QED BY <1>9, <1>11, <1>12, SendAckFine

\* A first proposal is noted, voted on and answered.
LEMMA OnPreAcceptFine ==
  ASSUME setup \in Setups, NEW p \in Proc, NEW h, NEW n, NEW s, Fine(p, s, n, h),
         NEW id \in Id, NEW cs \in Seq(Cmd), NEW deps \in DepSet, NEW src, src = RequesterOf(id), src # p,
         <<id, cs>> \in h.born, <<src, id, deps>> \in h.votes,
         h.heard[p][src] <= IndexOf(id), ~HasExecuted(s.executed, id)
  PROVE  \E g : /\ Extends(p, h, g) /\ WellHistory(g)
                /\ g.heard = [h.heard EXCEPT ![p] = Insert(@, id)] /\ g.answered = h.answered
                /\ Reaches(p, g, n, OnPreAccept(p, CreateInstance(s, id, cs), src, id, deps))
<1> DEFINE conflicts == [k \in Key |-> IF k \in KeysIn(cs) THEN Insert(s.conflicts[k], id) ELSE s.conflicts[k]]
           new == NewInstance(Leader(id), cs, NoDeps)
           c == CreateInstance(s, id, cs)
           mine == OwnDeps(c, id, deps)
           known == HeardOf(id, cs, deps)
           i == VotedOn(p, id, cs, deps, mine)
           t == [c EXCEPT !.instances[id] = i]
           g == WithVote(h, p, id, cs, mine)
           ack == [type |-> "PreAcceptOk", id |-> id, deps |-> IF mine = deps THEN NoDepSet ELSE mine]
           u == CASE EPaxos -> SendTo(t, {src}, ack)
                  [] ~EPaxos /\ p = setup.leader -> SwiftLeaderAccept(p, t, id, mine)
                  [] OTHER -> SendAck(t, ack)
           v == IF ~InFastQuorum(p) THEN t ELSE u
<1>1. WellHistory(h) /\ Local(p, s, h) /\ IsShard(s)
  BY DEF Fine, Local
<1>2. new.commands = cs
  BY DEF NewInstance
<1>3. c = [s EXCEPT !.conflicts = conflicts, !.instances = Put(s.instances, id, new)]
  <2> HIDE DEF conflicts, new
  <2> QED BY <1>1 DEF CreateInstance, AddInstance, NoteSeen, IsShard, ShardFields, conflicts, new
<1> HIDE DEF new
<1>4. /\ IsShard(c) /\ c.conflicts = conflicts /\ c.instances = Put(s.instances, id, new)
      /\ c.next_uid = s.next_uid /\ c.out = s.out
      /\ c.decided = s.decided /\ c.deferred = s.deferred /\ c.queue = s.queue /\ c.bundle = s.bundle
      /\ c.pending_fast = s.pending_fast /\ c.pending_slow = s.pending_slow
      /\ c.ack_recipients = s.ack_recipients /\ c.next_read = s.next_read /\ c.reads = s.reads
      /\ c.executed = s.executed /\ c.log = s.log /\ c.missed = s.missed
  <2> HIDE DEF conflicts, c
  <2> QED BY <1>1, <1>3 DEF IsShard, ShardFields
<1> HIDE DEF c
<1>5. c.instances[id] = new
  BY <1>4 DEF Put
<1>6. /\ mine \in DepSet
      /\ ~EPaxos => Within(mine, Insert(h.heard[p], id))
      /\ \A b, k : <<p, b>> \in h.noted /\ Touches(h, b, k) /\ k \in KeysIn(cs) => Includes(mine, b)
  <2>1. c.instances[id].commands = cs
    BY <1>2, <1>5
  <2> HIDE DEF mine
  <2> QED BY <1>1, <1>4, <2>1, OwnDepsOK DEF mine
<1> HIDE DEF mine
<1>7. /\ g.born = h.born \cup {<<id, cs>>} /\ g.noted = h.noted \cup {<<p, id>>}
      /\ g.votes = h.votes \cup {<<p, id, mine>>}
      /\ g.heard = [h.heard EXCEPT ![p] = Insert(@, id)] /\ g.answered = h.answered
  BY DEF WithVote
<1>8. EPaxos => src \in AliveReplicas
  BY <1>1 DEF WellHistory, BornOnce
<1>9. MayVote(p, h, id, cs, mine)
  BY <1>6, <1>8 DEF MayVote
<1>10. WellHistory(g) /\ Extends(p, h, g)
  <2> HIDE DEF g
  <2> QED BY <1>1, <1>6, <1>8, VoteKeepsHistory DEF g
<1>11. ~IsSettled(known) /\ InstanceOK(p, id, i, g) /\ ~IsCommitted(i)
  <2>1. /\ <<p, id>> \in g.noted /\ <<id, cs>> \in g.born /\ <<RequesterOf(id), id, deps>> \in g.votes
        /\ <<p, id, mine>> \in g.votes
    BY <1>7
  <2> HIDE DEF g
  <2> QED BY <1>6, <1>10, <2>1, VotedInstance
<1> HIDE DEF i
<1>12. /\ IsShard(t) /\ t.conflicts = conflicts /\ t.instances = Put(s.instances, id, i)
       /\ t.next_uid = s.next_uid /\ t.out = s.out
       /\ t.decided = s.decided /\ t.deferred = s.deferred /\ t.queue = s.queue /\ t.bundle = s.bundle
       /\ t.pending_fast = s.pending_fast /\ t.pending_slow = s.pending_slow
       /\ t.ack_recipients = s.ack_recipients /\ t.next_read = s.next_read /\ t.reads = s.reads
       /\ t.executed = s.executed /\ t.log = s.log /\ t.missed = s.missed
  <2>1. [Put(s.instances, id, new) EXCEPT ![id] = i] = Put(s.instances, id, i)
    BY DEF Put
  <2>2. t = [c EXCEPT !.instances = Put(s.instances, id, i)]
    BY <1>4, <2>1 DEF IsShard, ShardFields
  <2> HIDE DEF conflicts, t
  <2> QED BY <1>4, <2>2 DEF IsShard, ShardFields
<1> HIDE DEF t
<1>13. Local(p, t, g)
  <2>1. s.next_uid \in Nat /\ t.next_uid = g.heard[p][p]
    <3>1. s.next_uid \in Nat /\ h.heard[p][p] = s.next_uid
      BY <1>1 DEF Local, Noting
    <3>2. h.heard[p] \in DepSet /\ h.heard \in [Proc -> DepSet]
      BY <1>1 DEF WellHistory, HistoryType
    <3>3. g.heard[p] = Insert(h.heard[p], id)
      BY <1>7, <3>2
    <3>4. Insert(h.heard[p], id)[p] = h.heard[p][p]
      BY <3>2, InsertType
    <3> QED BY <1>12, <3>1, <3>3, <3>4
  <2>2. t.next_uid \in Nat
    BY <1>12, <2>1
  <2>3. g = WithVote(h, p, id, cs, mine)
    OBVIOUS
  <2>4. Adds(s, t, id, cs, i)
    BY <1>12 DEF Adds
  <2> HIDE DEF g, conflicts
  <2> QED BY <1>1, <1>9, <1>11, <2>1, <2>2, <2>3, <2>4, FirstVote
<1>14. Fine(p, t, n, g)
  BY <1>1, <1>10, <1>12, <1>13, SendingKept DEF Fine
<1>15. id \in DOMAIN t.instances /\ t.instances[id] = i
  BY <1>12 DEF Put
<1>16. <<p, id, mine>> \in g.votes /\ <<src, id, deps>> \in g.votes
  BY <1>7
<1> HIDE DEF g
<1>17. Fine(p, v, n, g) /\ id \in DOMAIN v.instances
  <2>1. CASE ~InFastQuorum(p)
    BY <1>14, <1>15, <2>1
  <2>2. CASE InFastQuorum(p)
    <3>1. v = u
      BY <2>2
    <3>2. ack \in AckMsg /\ LateOK(p, ack, g)
      <4>1. /\ ack \in AckMsg /\ ack.type = "PreAcceptOk" /\ ack.id = id
            /\ ack.deps = IF mine = deps THEN NoDepSet ELSE mine
        BY <1>6 DEF AckMsg
      <4>2. p \in AliveReplicas
        BY <2>2 DEF InFastQuorum, IsReplica
      <4>3. mine # NoDepSet
        BY <1>6, NoDepSetIsNone
      <4> HIDE DEF ack
      <4> QED BY <1>16, <4>1, <4>2, <4>3 DEF LateOK
    <3>3. ack \in Message /\ ack.type = "PreAcceptOk" /\ \A q : MessageOK(p, q, ack, g)
      <4>1. ack.type = "PreAcceptOk"
        OBVIOUS
      <4> HIDE DEF ack
      <4> QED BY <3>2, <4>1 DEF MessageOK, Message, LateMsg
    <3> HIDE DEF ack
    <3>4. CASE EPaxos
      <4>1. u = SendTo(t, {src}, ack)
        BY <3>4
      <4> HIDE DEF u
      <4> QED BY <1>14, <1>15, <3>1, <3>3, <4>1, SendFine
    <3>5. CASE ~EPaxos /\ p = setup.leader
      <4>1. u = SwiftLeaderAccept(p, t, id, mine)
        BY <3>5
      <4> HIDE DEF u
      <4> QED BY <1>11, <1>14, <1>15, <1>16, <3>1, <3>5, <4>1, SwiftLeaderAcceptFine
    <3>6. CASE ~EPaxos /\ p # setup.leader
      <4>1. u = SendAck(t, ack)
        BY <3>6
      <4> HIDE DEF u
      <4> QED BY <1>14, <1>15, <3>1, <3>2, <4>1, SendAckFine
    <3> QED BY <3>4, <3>5, <3>6
  <2> QED BY <2>1, <2>2
<1>18. OnPreAccept(p, c, src, id, deps) = TryCommit(p, v, id)
  <2> HIDE DEF known, v, u, ack
  <2>1. OnPreAccept(p, c, src, id, deps)
          = TryCommit(p, IF IsSettled(known) \/ ~InFastQuorum(p)
                         THEN [c EXCEPT !.instances[id] = IF IsSettled(known) THEN known ELSE i]
                         ELSE CASE EPaxos -> SendTo([c EXCEPT !.instances[id] = IF IsSettled(known) THEN known ELSE i], {src}, ack)
                                [] ~EPaxos /\ p = setup.leader ->
                                     SwiftLeaderAccept(p, [c EXCEPT !.instances[id] = IF IsSettled(known) THEN known ELSE i], id, mine)
                                [] OTHER -> SendAck([c EXCEPT !.instances[id] = IF IsSettled(known) THEN known ELSE i], ack),
                      id)
    BY <1>5 DEF OnPreAccept, known, HeardOf, i, VotedOn, mine, ack, new
  <2> QED BY <1>11, <2>1 DEF v, u, t
<1> HIDE DEF v
<1>19. Reaches(p, g, n, TryCommit(p, v, id))
  BY <1>17, TryCommitFine
<1> QED BY <1>7, <1>10, <1>18, <1>19 DEF c, g

\* A proposal that arrives is dealt with, and seen unless it was executed before.
LEMMA HandlePreAcceptFine ==
  ASSUME setup \in Setups, NEW p \in Proc, NEW h, NEW n, NEW s, Fine(p, s, n, h),
         NEW m, m.type = "PreAccept", m.id \in Id, m.commands \in Seq(Cmd), m.deps \in DepSet,
         NEW src \in Proc, src = RequesterOf(m.id), src # p,
         <<m.id, m.commands>> \in h.born, <<src, m.id, m.deps>> \in h.votes,
         h.heard[p][src] <= IndexOf(m.id)
  PROVE  \E g : /\ Extends(p, h, g) /\ Fine(p, HandleInstance(p, s, src, m), n, g) /\ g.answered = h.answered
                /\ \A r \in Proc \ {src} : g.heard[p][r] = h.heard[p][r]
                /\ g.heard[p][src] <= IndexOf(m.id) + 1
<1> DEFINE id == m.id
           held == [src |-> src, msg |-> m]
           c == CreateInstance(s, id, m.commands)
           t == OnPreAccept(p, c, src, id, m.deps)
<1>1. WellHistory(h) /\ Local(p, s, h) /\ HistoryType(h)
  BY DEF Fine, WellHistory
<1>2. /\ h.heard[p] \in DepSet /\ h.heard \in [Proc -> DepSet] /\ h.heard[p][src] \in Nat
      /\ IndexOf(id) \in Nat
  BY <1>1, IdParts DEF HistoryType, DepSet
<1>3. CASE HasExecuted(s.executed, id)
  <2>1. HandleInstance(p, s, src, m) = s
    BY <1>3 DEF HandleInstance
  <2>2. Extends(p, h, h)
    BY <1>1, ExtendsSelf
  <2>3. h.heard[p][src] <= IndexOf(m.id) + 1
    BY <1>2
  <2> QED BY <2>1, <2>2, <2>3
<1>4. CASE ~HasExecuted(s.executed, id)
  <2>1. id \notin DOMAIN s.instances
    <3>1. <<p, id>> \notin h.noted
      <4>1. ~(IndexOf(id) < h.heard[p][RequesterOf(id)])
        BY <1>2
      <4> QED BY <1>1, <4>1 DEF WellHistory, NotedInOrder
    <3> QED BY <1>1, <3>1 DEF Local, Knowing, InstanceOK
  <2>2. HandleInstance(p, s, src, m) = Deliver(p, c, held)
    BY <1>4, <2>1 DEF HandleInstance
  <2>3. c.executed = s.executed /\ id \in DOMAIN c.instances
    <3>1. IsShard(s)
      BY <1>1 DEF Local
    <3> QED BY <3>1 DEF CreateInstance, AddInstance, NoteSeen, Put, IsShard, ShardFields
  <2>4. BlockedBy(p, c, m) = {}
    BY DEF BlockedBy
  <2>5. Dispatch(p, c, src, m) = t
    BY <2>3 DEF Dispatch
  <2>6. Deliver(p, c, held) = Release(t, id)
    <3>1. held.src = src /\ held.msg = m
      OBVIOUS
    <3> HIDE DEF held, c, t
    <3> QED BY <1>4, <2>3, <2>4, <2>5, <3>1 DEF Deliver
  <2>7. PICK g : /\ Extends(p, h, g) /\ WellHistory(g)
                 /\ g.heard = [h.heard EXCEPT ![p] = Insert(@, id)] /\ g.answered = h.answered
                 /\ Reaches(p, g, n, t)
    BY <1>4, OnPreAcceptFine
  <2> HIDE DEF t, c, held
  <2>8. PICK f : Extends(p, g, f) /\ f.heard = g.heard /\ f.answered = g.answered /\ Fine(p, t, n, f)
    BY <2>7 DEF Reaches
  <2>9. Fine(p, Release(t, id), n, f)
    BY <2>8, ReleaseFine
  <2>10. Extends(p, h, f)
    <3>1. HistoryType(g) /\ HistoryType(f)
      BY <2>7, <2>8 DEF WellHistory, Fine
    <3> QED BY <1>1, <2>7, <2>8, <3>1, ExtendsTrans
  <2>11. /\ \A r \in Proc \ {src} : f.heard[p][r] = h.heard[p][r]
         /\ f.heard[p][src] <= IndexOf(id) + 1
    <3>1. f.heard[p] = Insert(h.heard[p], id)
      BY <1>2, <2>7, <2>8
    <3>2. \A r \in Proc : \/ Insert(h.heard[p], id)[r] = h.heard[p][r]
                          \/ r = src /\ Insert(h.heard[p], id)[r] = IndexOf(id) + 1
      BY <1>2, InsertType
    <3> QED BY <1>2, <3>1, <3>2
  <2> QED BY <2>2, <2>6, <2>7, <2>8, <2>9, <2>10, <2>11
<1> QED BY <1>3, <1>4

\* p proposes commands of its client, or of one that it votes for.
LEMMA SubmitHereFine ==
  ASSUME setup \in Setups, NEW p \in Proc, NEW h, WellHistory(h), NEW s, Local(p, s, h), s.out = Nothing,
         NEW cs \in Seq(Cmd), EPaxos => p \in AliveReplicas
  PROVE  \E g : /\ Extends(p, h, g) /\ Fine(p, SubmitHere(p, s, cs), h.heard[p][p], g) /\ g.answered = h.answered
                /\ \A r \in Proc \ {p} : g.heard[p][r] = h.heard[p][r]
                /\ g.heard[p][p] = h.heard[p][p] + 1
<1> DEFINE n == h.heard[p][p]
           id == <<p, s.next_uid>>
           deps == DepsFor(s, KeysIn(cs))
           conflicts == [k \in Key |-> IF k \in KeysIn(cs) THEN Insert(s.conflicts[k], id) ELSE s.conflicts[k]]
           new == SetCoordinatorDeps(NewInstance(Leader(id), cs, deps), deps)
           i == IF InFastQuorum(p) THEN RecordPreaccept(new, p, deps) ELSE new
           a == AddInstance(NoteSeen([s EXCEPT !.next_uid = @ + 1], id, KeysIn(cs)), id, i)
           m == [type |-> "PreAccept", id |-> id, deps |-> deps, commands |-> cs]
           t == SendTo(a, Proc, m)
           u == IF ~EPaxos /\ p = setup.leader THEN SwiftLeaderAccept(p, t, id, deps) ELSE t
           g == WithVote(h, p, id, cs, deps)
<1>1. IsShard(s) /\ HistoryType(h)
  BY DEF Local, WellHistory
<1>2. s.next_uid \in Nat /\ n = s.next_uid /\ h.heard[p] \in DepSet /\ h.heard \in [Proc -> DepSet]
  BY <1>1 DEF Local, Noting, HistoryType
<1>3. id \in Id /\ RequesterOf(id) = p /\ IndexOf(id) = n
  BY <1>2 DEF Id, RequesterOf, IndexOf
<1>4. a = [s EXCEPT !.next_uid = n + 1, !.conflicts = conflicts, !.instances = Put(s.instances, id, i)]
  <2>1. s.next_uid = n
    BY <1>2
  <2> HIDE DEF i, id, n
  <2> QED BY <1>1, <2>1 DEF AddInstance, NoteSeen, IsShard, ShardFields
<1> HIDE DEF id, a, i, n
<1>5. t = [s EXCEPT !.next_uid = n + 1, !.conflicts = conflicts, !.instances = Put(s.instances, id, i),
                    !.out = [q \in Proc |-> <<m>>]]
  <2>1. a.out = Nothing
    BY <1>1, <1>4 DEF IsShard, ShardFields
  <2>2. [q \in Proc |-> IF q \in Proc THEN Append(a.out[q], m) ELSE a.out[q]] = [q \in Proc |-> <<m>>]
    BY <2>1 DEF Nothing
  <2>3. t = [a EXCEPT !.out = [q \in Proc |-> <<m>>]]
    BY <2>2 DEF SendTo
  <2> HIDE DEF conflicts, m, t
  <2> QED BY <1>1, <1>4, <2>3 DEF IsShard, ShardFields
<1> HIDE DEF deps, t
<1>6. /\ Adds(s, t, id, cs, i) /\ t.next_uid = n + 1 /\ t.out = [q \in Proc |-> <<m>>]
      /\ t.instances = Put(s.instances, id, i)
  <2>1. conflicts = [k \in Key |-> IF k \in KeysIn(cs) THEN Insert(s.conflicts[k], id) ELSE s.conflicts[k]]
    OBVIOUS
  <2> HIDE DEF conflicts, m
  <2> QED BY <1>1, <1>5, <2>1 DEF Adds, IsShard, ShardFields
<1>7. /\ deps \in DepSet /\ Within(deps, h.heard[p])
      /\ \A k \in KeysIn(cs) : Within(s.conflicts[k], deps)
  BY <1>2, KeysInType, DepsForType DEF Local, Noting, deps
<1>8. MayVote(p, h, id, cs, deps)
  <2>1. Within(deps, Insert(h.heard[p], id))
    BY <1>2, <1>3, <1>7, InsertType, WithinTrans
  <2>2. ASSUME NEW b, NEW k, <<p, b>> \in h.noted, Touches(h, b, k), k \in KeysIn(cs)
        PROVE  Includes(deps, b)
    <3>1. b \in Id /\ Includes(s.conflicts[k], b) /\ k \in Key
      BY <1>1, <2>2, KeysInType DEF Local, Noting, HistoryType
    <3>2. s.conflicts[k] \in DepSet
      BY <3>1 DEF Local, Noting
    <3> QED BY <1>7, <2>2, <3>1, <3>2, WithinIncludes
  <2>3. h.heard[p][RequesterOf(id)] <= IndexOf(id)
    BY <1>2, <1>3 DEF n
  <2> QED BY <1>3, <1>7, <2>1, <2>2, <2>3 DEF MayVote
<1>9. /\ g.born = h.born \cup {<<id, cs>>} /\ g.votes = h.votes \cup {<<p, id, deps>>}
      /\ g.noted = h.noted \cup {<<p, id>>} /\ g.heard = [h.heard EXCEPT ![p] = Insert(@, id)]
      /\ g.answered = h.answered
  BY DEF WithVote
<1>10. WellHistory(g) /\ Extends(p, h, g)
  BY <1>8, VoteKeepsHistory DEF MayVote
<1>11. /\ g.heard[p][p] = n + 1 /\ \A r \in Proc \ {p} : g.heard[p][r] = h.heard[p][r]
       /\ n \in Nat
  BY <1>2, <1>3, <1>9 DEF Insert, DepSet, n
<1> HIDE DEF g
<1>12. ExecutionSound => ~HasExecuted(s.executed, id)
  <2>1. <<p, id>> \notin h.noted
    <3>1. ~(IndexOf(id) < h.heard[p][RequesterOf(id)])
      BY <1>2, <1>3 DEF n
    <3> QED BY <3>1 DEF WellHistory, NotedInOrder
  <2>2. ASSUME NEW ds, <<id, ds>> \in h.born
        PROVE  FALSE
    <3>1. PICK d : <<RequesterOf(id), id, d>> \in h.votes
      BY <2>2 DEF WellHistory, BornOnce
    <3> QED BY <1>3, <2>1, <3>1 DEF WellHistory, VotesOnce
  <2> QED BY <1>3, <2>2 DEF Local, ExecutesSoundly, Executing
<1>13. InstanceOK(p, id, i, g) /\ ~IsCommitted(i)
  <2> DEFINE OK(j) == /\ j \in Instance /\ j.leader = Leader(id) /\ j.commands = cs /\ j.phase = PreAccepted
                      /\ j.accept_acked = {} /\ j.coordinator_deps = deps
                      /\ \A r \in DOMAIN j.preaccepts : <<r, id, j.preaccepts[r]>> \in g.votes
             first == NewInstance(Leader(id), cs, deps)
  <2>1. Leader(id) \in AliveReplicas
    BY <1>3, LeaderIsReplica
  <2>2. first = [leader |-> Leader(id), commands |-> cs, deps |-> deps, phase |-> PreAccepted,
                 preaccepts |-> <<>>, accept_acked |-> {}, coordinator_deps |-> NoDepSet]
    BY DEF NewInstance
  <2>3. first \in Instance
    BY <1>7, <2>1, <2>2, ProposalsType DEF Instance
  <2>4. /\ first.leader = Leader(id) /\ first.commands = cs /\ first.phase = PreAccepted
        /\ first.accept_acked = {} /\ first.preaccepts = <<>> /\ first.coordinator_deps = NoDepSet
    BY <2>2
  <2>5. new = [first EXCEPT !.coordinator_deps = deps]
    BY <2>2 DEF SetCoordinatorDeps
  <2> HIDE DEF first, new
  <2>6. /\ new \in Instance /\ new.leader = first.leader /\ new.commands = first.commands
        /\ new.phase = first.phase /\ new.accept_acked = first.accept_acked
        /\ new.preaccepts = first.preaccepts /\ new.coordinator_deps = deps
    BY <1>7, <2>3, <2>5 DEF Instance
  <2>7. OK(new)
    <3>1. \A r \in DOMAIN <<>> : <<r, id, new.preaccepts[r]>> \in g.votes
      OBVIOUS
    <3> QED BY <2>4, <2>6, <3>1
  <2>8. ASSUME p \in AliveReplicas
        PROVE  OK(RecordPreaccept(new, p, deps))
    <3> DEFINE k == RecordPreaccept(new, p, deps)
    <3>1. /\ k \in Instance
          /\ k = [new EXCEPT !.preaccepts = k.preaccepts]
          /\ DOMAIN k.preaccepts = DOMAIN new.preaccepts \cup {p}
          /\ \A q \in DOMAIN new.preaccepts : k.preaccepts[q] = new.preaccepts[q]
          /\ p \notin DOMAIN new.preaccepts => k.preaccepts[p] = deps
      BY <1>7, <2>6, <2>8, RecordPreacceptType
    <3> HIDE DEF k
    <3>2. /\ k.phase = new.phase /\ k.deps = new.deps /\ k.leader = new.leader /\ k.commands = new.commands
          /\ k.accept_acked = new.accept_acked /\ k.coordinator_deps = new.coordinator_deps
      BY <2>6, <3>1 DEF Instance
    <3>3. \A q \in DOMAIN k.preaccepts : <<q, id, k.preaccepts[q]>> \in g.votes
      BY <1>9, <2>7, <3>1
    <3>4. OK(k)
      BY <2>7, <3>1, <3>2, <3>3
    <3> QED BY <3>4 DEF k
  <2> HIDE DEF OK
  <2>9. OK(i)
    <3>1. InFastQuorum(p) => p \in AliveReplicas
      BY DEF InFastQuorum, IsReplica
    <3>2. i = IF InFastQuorum(p) THEN RecordPreaccept(new, p, deps) ELSE new
      BY DEF i, new, deps
    <3> QED BY <2>7, <2>8, <3>1, <3>2
  <2>10. ~IsSettled(i) /\ i.phase # Accepted /\ ~IsCommitted(i)
    BY <2>9 DEF OK, IsSettled, IsCommitted, PreAccepted, Accepted, Committed
  <2>11. <<p, id>> \in g.noted /\ <<id, cs>> \in g.born /\ <<p, id, deps>> \in g.votes
    BY <1>9
  <2> QED BY <1>3, <2>9, <2>10, <2>11 DEF OK, InstanceOK
<1>14. Local(p, t, g)
  <2>1. g = WithVote(h, p, id, cs, deps) /\ t.next_uid \in Nat /\ t.next_uid = g.heard[p][p]
    BY <1>6, <1>11 DEF g
  <2> QED BY <1>6, <1>8, <1>12, <1>13, <2>1, FirstVote
<1>15. Sending(p, t.out, n, g)
  <2>1. /\ m \in Message /\ m.type = "PreAccept" /\ m.id = id /\ m.commands = cs /\ m.deps = deps
    BY <1>3, <1>7 DEF Message
  <2> HIDE DEF m
  <2>2. \A q : MessageOK(p, q, m, g)
    BY <1>3, <1>9, <2>1 DEF MessageOK, LateOK
  <2>3. \A q \in Proc : t.out[q] = <<m>> /\ DOMAIN t.out[q] = {1} /\ t.out[q][1] = m
    BY <1>6
  <2>4. t.out \in [Proc -> Seq(Message)]
    BY <1>6, <2>1
  <2>5. n <= IndexOf(id)
    BY <1>3, <1>11
  <2> QED BY <2>1, <2>2, <2>3, <2>4, <2>5 DEF Sending
<1>16. Fine(p, t, n, g) /\ id \in DOMAIN t.instances /\ ~IsCommitted(t.instances[id])
  <2>1. id \in DOMAIN t.instances /\ t.instances[id] = i
    BY <1>6 DEF Put
  <2> QED BY <1>10, <1>13, <1>14, <1>15, <2>1 DEF Fine
<1>17. Fine(p, u, n, g) /\ id \in DOMAIN u.instances
  <2>1. <<p, id, deps>> \in g.votes
    BY <1>9
  <2>2. CASE ~EPaxos /\ p = setup.leader
    <3>1. u = SwiftLeaderAccept(p, t, id, deps)
      BY <2>2
    <3> HIDE DEF u
    <3> QED BY <1>16, <2>1, <2>2, <3>1, SwiftLeaderAcceptFine
  <2>3. CASE ~(~EPaxos /\ p = setup.leader)
    BY <1>16, <2>3
  <2> QED BY <2>2, <2>3
<1>18. SubmitHere(p, s, cs) = TryCommit(p, u, id)
  BY DEF SubmitHere, id, deps, i, a, t, u
<1> HIDE DEF u
<1>19. Reaches(p, g, n, TryCommit(p, u, id))
  BY <1>17, TryCommitFine
<1>20. PICK f : /\ Extends(p, g, f) /\ f.heard = g.heard /\ f.answered = g.answered
                /\ Fine(p, TryCommit(p, u, id), n, f)
  BY <1>19 DEF Reaches
<1>21. Extends(p, h, f)
  <2>1. HistoryType(g) /\ HistoryType(f)
    BY <1>10, <1>20 DEF WellHistory, Fine
  <2> QED BY <1>1, <1>10, <1>20, <2>1, ExtendsTrans
<1> QED BY <1>9, <1>11, <1>18, <1>20, <1>21 DEF n

-----------------------------------------------------------------------------
(* The steps of a process *)

\* Before a process sends, it has sent nothing amiss.
LEMMA NothingSent ==
  ASSUME NEW p \in Proc, NEW h, WellHistory(h), NEW s, Local(p, s, h), s.out = Nothing, NEW n
  PROVE  Fine(p, s, n, h)
<1>1. Nothing \in [Proc -> Seq(Message)] /\ \A q \in Proc : DOMAIN Nothing[q] = {}
  BY DEF Nothing
<1> QED BY <1>1 DEF Fine, Sending

\* What clients submit is run here, or handed to a process that votes.
LEMMA SubmitCommandsFine ==
  ASSUME setup \in Setups, NEW p \in Proc, NEW h, WellHistory(h), NEW s, Local(p, s, h), s.out = Nothing,
         NEW cs \in Seq(Cmd)
  PROVE  \E g : /\ Extends(p, h, g) /\ Fine(p, SubmitCommands(p, s, cs), h.heard[p][p], g)
                /\ g.answered = h.answered
                /\ \A r \in Proc \ {p} : g.heard[p][r] = h.heard[p][r]
<1> DEFINE n == h.heard[p][p]
           m == [type |-> "Forward", commands |-> cs]
           away == EPaxos /\ setup.coordinator[p] # p
<1>1. setup.coordinator[p] \in AliveReplicas
  BY SetupType
<1>2. CASE away
  <2>1. m \in Message /\ m.type = "Forward"
    BY DEF Message
  <2> HIDE DEF m
  <2>2. \A q \in {setup.coordinator[p]} \ {p} : MessageOK(p, q, m, h)
    BY <1>1, <2>1 DEF MessageOK, LateOK
  <2>3. Fine(p, s, n, h)
    BY NothingSent
  <2>4. Fine(p, SendTo(s, {setup.coordinator[p]}, m), n, h)
    BY <2>1, <2>2, <2>3, SendFine
  <2>5. SubmitCommands(p, s, cs) = SendTo(s, {setup.coordinator[p]}, m)
    BY <1>2 DEF SubmitCommands, m
  <2>6. Extends(p, h, h)
    BY ExtendsSelf DEF WellHistory
  <2> QED BY <2>4, <2>5, <2>6
<1>3. CASE ~away
  <2>1. EPaxos => p \in AliveReplicas
    BY <1>1, <1>3
  <2>2. SubmitCommands(p, s, cs) = SubmitHere(p, s, cs)
    BY <1>3 DEF SubmitCommands
  <2>3. PICK g : /\ Extends(p, h, g) /\ Fine(p, SubmitHere(p, s, cs), h.heard[p][p], g)
                 /\ g.answered = h.answered
                 /\ \A r \in Proc \ {p} : g.heard[p][r] = h.heard[p][r]
    BY <2>1, SubmitHereFine
  <2> QED BY <2>2, <2>3
<1> QED BY <1>2, <1>3

\* A shard that sleeps forgets which key it has seen an instance for, and nothing else.
LEMMA SleepLocal ==
  ASSUME NEW p \in Proc, NEW h, WellHistory(h), NEW s, Local(p, s, h)
  PROVE  /\ Local(p, TrySleep([s EXCEPT !.out = Nothing]), h)
         /\ TrySleep([s EXCEPT !.out = Nothing]).out = Nothing
<1> DEFINE a == [s EXCEPT !.out = Nothing]
           idle == [k \in Key |-> a.executed.watermark]
           t == TrySleep(a)
<1>1. IsShard(s) /\ Noting(p, s.next_uid, s.conflicts, h)
  BY DEF Local
<1>2. /\ IsShard(a) /\ a.out = Nothing
      /\ a.next_uid = s.next_uid /\ a.conflicts = s.conflicts /\ a.instances = s.instances
      /\ a.decided = s.decided /\ a.deferred = s.deferred /\ a.queue = s.queue /\ a.bundle = s.bundle
      /\ a.pending_fast = s.pending_fast /\ a.pending_slow = s.pending_slow
      /\ a.ack_recipients = s.ack_recipients /\ a.next_read = s.next_read /\ a.reads = s.reads
      /\ a.executed = s.executed /\ a.log = s.log /\ a.missed = s.missed
  BY <1>1 DEF IsShard, ShardFields
<1>3. Local(p, a, h)
  BY <1>2 DEF Local
<1>4. t = a \/ t = Expect(a, FALSE) \/ (t = [a EXCEPT !.conflicts = idle] /\ Seen(a) = a.executed.watermark)
  BY DEF TrySleep
<1> HIDE DEF a, t
<1>5. CASE t = a
  BY <1>2, <1>3, <1>5 DEF a, t
<1>6. CASE t = Expect(a, FALSE)
  <2>1. \A holds : Local(p, Expect(a, holds), h) /\ Expect(a, holds).out = a.out
    BY <1>3, ExpectFine
  <2>2. Local(p, t, h) /\ t.out = Nothing
    BY <1>2, <1>6, <2>1
  <2> QED BY <2>2 DEF t, a
<1>7. CASE t = [a EXCEPT !.conflicts = idle] /\ Seen(a) = a.executed.watermark
  <2>1. Noting(p, a.next_uid, idle, h)
    <3> DEFINE seen == Seen(a)
    <3>1. /\ seen \in DepSet
          /\ \A k \in Key : Within(a.conflicts[k], seen)
          /\ \A lim \in DepSet : (\A k \in Key : Within(a.conflicts[k], lim)) => Within(seen, lim)
      BY <1>1, <1>2, DepsForType DEF Seen, Noting
    <3>2. idle = [k \in Key |-> seen]
      BY <1>7
    <3> HIDE DEF seen, idle
    <3>3. h.heard[p] \in DepSet
      BY DEF WellHistory, HistoryType
    <3>4. Within(seen, h.heard[p])
      BY <1>1, <1>2, <3>1, <3>3 DEF Noting
    <3>5. ASSUME NEW id, NEW k, <<p, id>> \in h.noted, Touches(h, id, k)
          PROVE  Includes(idle[k], id)
      <4>1. id \in Id
        BY <3>5 DEF WellHistory, HistoryType
      <4>2. k \in Key
        BY <3>5, KeysInType DEF Touches, WellHistory, HistoryType
      <4>3. Includes(a.conflicts[k], id) /\ a.conflicts[k] \in DepSet
        BY <1>1, <1>2, <3>5, <4>2 DEF Noting
      <4> QED BY <3>1, <3>2, <4>1, <4>2, <4>3, WithinIncludes
    <3> QED BY <1>1, <1>2, <3>1, <3>2, <3>4, <3>5 DEF Noting
  <2> HIDE DEF idle
  <2>2. /\ IsShard(t) /\ t.out = Nothing
        /\ t.next_uid = a.next_uid /\ t.conflicts = idle /\ t.instances = a.instances
        /\ t.decided = a.decided /\ t.deferred = a.deferred /\ t.queue = a.queue /\ t.bundle = a.bundle
        /\ t.pending_fast = a.pending_fast /\ t.pending_slow = a.pending_slow
        /\ t.ack_recipients = a.ack_recipients /\ t.next_read = a.next_read /\ t.reads = a.reads
        /\ t.executed = a.executed /\ t.log = a.log /\ t.missed = a.missed
    BY <1>2, <1>7 DEF IsShard, ShardFields
  <2>3. Local(p, t, h)
    BY <1>3, <2>1, <2>2 DEF Local
  <2> QED BY <2>2, <2>3 DEF t, a
<1> QED BY <1>4, <1>5, <1>6, <1>7 DEF a, t

-----------------------------------------------------------------------------
(* Reads *)

\* p has asked for key as its n-th read, and counted r's answer to it.
WithRead(h, p, n, key) ==
  [born |-> h.born, noted |-> h.noted, votes |-> h.votes, chosen |-> h.chosen, heard |-> h.heard,
   asked |-> h.asked \cup {<<p, n, key, h.noted>>}, answered |-> h.answered]
WithAnswer(h, p, n, r) ==
  [born |-> h.born, noted |-> h.noted, votes |-> h.votes, chosen |-> h.chosen, heard |-> h.heard,
   asked |-> h.asked, answered |-> h.answered \cup {<<p, n, r>>}]

\* A read may be new, or answered, without a change to the rest of the history.
LEMMA ReadsKeepHistory ==
  ASSUME NEW h, WellHistory(h), NEW p \in Proc, NEW g,
         g.born = h.born, g.noted = h.noted, g.votes = h.votes, g.chosen = h.chosen, g.heard = h.heard,
         h.asked \subseteq g.asked, h.answered \subseteq g.answered,
         \A q, n, k, N : <<q, n, k, N>> \in g.asked => <<q, n, k, N>> \in h.asked \/ q = p,
         \A q, n, r : <<q, n, r>> \in g.answered => <<q, n, r>> \in h.answered \/ q = p,
         HistoryType(g), AskedOnce(g)
  PROVE  WellHistory(g) /\ Extends(p, h, g)
<1>1. \A id, k : Touches(g, id, k) <=> Touches(h, id, k)
  BY DEF Touches
<1>2. \A a, b : Conflict(g, a, b) <=> Conflict(h, a, b)
  BY <1>1 DEF Conflict
<1>3. BornOnce(g) /\ NotedInOrder(g) /\ VotesOnce(g)
  BY DEF WellHistory, BornOnce, NotedInOrder, VotesOnce
<1>4. VotesVisible(g)
  BY <1>2 DEF WellHistory, VotesVisible
<1>5. OwnVisible(g)
  BY <1>2 DEF WellHistory, OwnVisible
<1>6. VotesAcyclic(g)
  BY DEF WellHistory, VotesAcyclic
<1>7. \A id, deps : Backed(g, id, deps) <=> Backed(h, id, deps)
  BY DEF Backed
<1>8. ChosenOnce(g)
  BY <1>7 DEF WellHistory, ChosenOnce
<1>9. Within(h.heard[p], g.heard[p])
  BY DEF WellHistory, HistoryType, DepSet, Within
<1> QED BY <1>3, <1>4, <1>5, <1>6, <1>8, <1>9 DEF WellHistory, Extends

\* A read numbered afresh.
LEMMA ReadKeepsHistory ==
  ASSUME NEW h, WellHistory(h), NEW p \in Proc, NEW n \in Nat, NEW key \in Key,
         \A m, k, N : <<p, m, k, N>> \in h.asked => m < n
  PROVE  WellHistory(WithRead(h, p, n, key)) /\ Extends(p, h, WithRead(h, p, n, key))
<1> DEFINE g == WithRead(h, p, n, key)
<1>1. /\ g.born = h.born /\ g.noted = h.noted /\ g.votes = h.votes /\ g.chosen = h.chosen
      /\ g.heard = h.heard /\ g.asked = h.asked \cup {<<p, n, key, h.noted>>} /\ g.answered = h.answered
  BY DEF WithRead
<1> HIDE DEF g
<1>2. HistoryType(g)
  BY <1>1 DEF WellHistory, HistoryType
<1>3. AskedOnce(g)
  <2>1. \A q, m, k, N : <<q, m, k, N>> \in g.asked =>
          <<q, m, k, N>> \in h.asked \/ (q = p /\ m = n /\ k = key /\ N = h.noted)
    BY <1>1
  <2>2. \A k, N : <<p, n, k, N>> \notin h.asked
    OBVIOUS
  <2>3. \A q, m, k, l, N, M : <<q, m, k, N>> \in g.asked /\ <<q, m, l, M>> \in g.asked => k = l /\ N = M
    BY <2>1, <2>2 DEF WellHistory, AskedOnce
  <2>4. \A q, m, k, N : <<q, m, k, N>> \in g.asked => N \subseteq g.noted
    BY <1>1, <2>1 DEF WellHistory, AskedOnce
  <2>5. \A q, m, r : <<q, m, r>> \in g.answered => \E k, N : <<q, m, k, N>> \in g.asked
    BY <1>1 DEF WellHistory, AskedOnce
  <2> QED BY <2>3, <2>4, <2>5 DEF AskedOnce
<1>4. \A q, m, k, N : <<q, m, k, N>> \in g.asked => <<q, m, k, N>> \in h.asked \/ q = p
  BY <1>1
<1> QED BY <1>1, <1>2, <1>3, <1>4, ReadsKeepHistory DEF g

\* An answer to a read that was asked.
LEMMA AnswerKeepsHistory ==
  ASSUME NEW h, WellHistory(h), NEW p \in Proc, NEW n \in Nat, NEW r \in AliveReplicas,
         \E k, N : <<p, n, k, N>> \in h.asked
  PROVE  WellHistory(WithAnswer(h, p, n, r)) /\ Extends(p, h, WithAnswer(h, p, n, r))
<1> DEFINE g == WithAnswer(h, p, n, r)
<1>1. /\ g.born = h.born /\ g.noted = h.noted /\ g.votes = h.votes /\ g.chosen = h.chosen
      /\ g.heard = h.heard /\ g.asked = h.asked /\ g.answered = h.answered \cup {<<p, n, r>>}
  BY DEF WithAnswer
<1> HIDE DEF g
<1>2. HistoryType(g)
  BY <1>1 DEF WellHistory, HistoryType
<1>3. \A q, m, i : <<q, m, i>> \in g.answered => <<q, m, i>> \in h.answered \/ (q = p /\ m = n)
  BY <1>1
<1>4. AskedOnce(g)
  <2>1. \A q, m, k, l, N, M : <<q, m, k, N>> \in g.asked /\ <<q, m, l, M>> \in g.asked => k = l /\ N = M
    BY <1>1 DEF WellHistory, AskedOnce
  <2>2. \A q, m, k, N : <<q, m, k, N>> \in g.asked => N \subseteq g.noted
    BY <1>1 DEF WellHistory, AskedOnce
  <2>3. ASSUME NEW q, NEW m, NEW i, <<q, m, i>> \in g.answered
        PROVE  \E k, N : <<q, m, k, N>> \in g.asked
    BY <1>1, <1>3, <2>3 DEF WellHistory, AskedOnce
  <2> QED BY <2>1, <2>2, <2>3 DEF AskedOnce
<1> QED BY <1>1, <1>2, <1>3, ReadsKeepHistory, <1>4 DEF g

\* What an answer is worth: it names what its replica had seen when the read was asked.
Answers(h, p, n, src, seen) ==
  /\ n \in Nat /\ src \in AliveReplicas /\ seen \in DepSet
  /\ \E k, N : /\ <<p, n, k, N>> \in h.asked
               /\ \A id : <<src, id>> \in N /\ Touches(h, id, k) => Includes(seen, id)

Counted(read, src, seen) ==
  [read EXCEPT !.answers = @ + 1, !.union = UnionWith(@, seen),
               !.leader_seen = IF src = ReadLeader THEN seen ELSE @]

\* An answer of a replica that had not answered counts.
LEMMA CountedOK ==
  ASSUME setup \in Setups, NEW h, WellHistory(h), NEW p \in Proc, NEW n, NEW src, NEW seen,
         Answers(h, p, n, src, seen), <<p, n, src>> \notin h.answered,
         NEW read, ReadOK(p, n, read, h)
  PROVE  ReadOK(p, n, Counted(read, src, seen), WithAnswer(h, p, n, src))
<1> DEFINE new == Counted(read, src, seen)
           g == WithAnswer(h, p, n, src)
<1>1. /\ g.born = h.born /\ g.noted = h.noted /\ g.asked = h.asked
      /\ g.answered = h.answered \cup {<<p, n, src>>}
  BY DEF WithAnswer
<1>2. \A id, k : Touches(g, id, k) <=> Touches(h, id, k)
  BY <1>1 DEF Touches
<1>3. PICK k, M : /\ <<p, n, k, M>> \in h.asked
                  /\ \A id : <<src, id>> \in M /\ Touches(h, id, k) => Includes(seen, id)
  BY DEF Answers
<1>4. PICK N, T :
       /\ <<p, n, read.key, N>> \in h.asked
       /\ T \subseteq AliveReplicas /\ read.answers <= Cardinality(T)
       /\ \A r \in T : <<p, n, r>> \in h.answered
       /\ \A r \in T : \A id :
            <<r, id>> \in N /\ Touches(h, id, read.key) => Includes(read.union, id)
       /\ read.leader_seen # NoDepSet =>
            ~EPaxos /\ \A id : <<setup.leader, id>> \in N /\ Touches(h, id, read.key) =>
                                 Includes(read.leader_seen, id)
       /\ ExecutionSound =>
            \A c \in read.since : read.key \in KeysOf[c] =>
              \E id, cs, Q :
                /\ <<id, cs>> \in h.born /\ c \in ToSet(cs)
                /\ IsMajority(Q) /\ \A r \in Q : <<r, id>> \in N
                /\ ~EPaxos => <<setup.leader, id>> \in N
  BY DEF ReadOK
<1>5. k = read.key /\ M = N
  BY <1>3, <1>4 DEF WellHistory, AskedOnce
<1>6. /\ DOMAIN read = {"key", "union", "answers", "leader_seen", "since"}
      /\ read.key \in Key /\ read.union \in DepSet /\ read.answers \in Nat
      /\ read.leader_seen \in DepSet \cup {NoDepSet}
  BY DEF ReadOK
<1>7. src \in AliveReplicas /\ seen \in DepSet
  BY DEF Answers
<1>8. /\ DOMAIN new = {"key", "union", "answers", "leader_seen", "since"}
      /\ new.key = read.key /\ new.union = UnionWith(read.union, seen)
      /\ new.answers = read.answers + 1 /\ new.since = read.since
      /\ new.leader_seen = IF src = ReadLeader THEN seen ELSE read.leader_seen
  BY <1>6 DEF Counted
<1> HIDE DEF new, g
<1> DEFINE S == T \cup {src}
<1>9. /\ new.union \in DepSet /\ Within(read.union, new.union) /\ Within(seen, new.union)
  BY <1>6, <1>7, <1>8, UnionWithType
<1>10. S \subseteq AliveReplicas /\ new.answers <= Cardinality(S)
  <2>1. src \notin T
    BY <1>4
  <2>2. IsFiniteSet(T)
    BY <1>4, ProcFinite, FS_Subset
  <2>3. Cardinality(S) = Cardinality(T) + 1 /\ Cardinality(T) \in Nat
    BY <2>1, <2>2, FS_AddElement, FS_CardinalityType
  <2> QED BY <1>4, <1>6, <1>7, <1>8, <2>3
<1>11. \A r \in S : <<p, n, r>> \in g.answered
  BY <1>1, <1>4
<1>12. ASSUME NEW r \in S, NEW id, <<r, id>> \in N, Touches(g, id, new.key)
       PROVE  Includes(new.union, id)
  <2>1. id \in Id
    BY <1>4, <1>12 DEF WellHistory, HistoryType
  <2>2. CASE r = src
    BY <1>2, <1>3, <1>5, <1>7, <1>8, <1>9, <1>12, <2>1, <2>2, WithinIncludes
  <2>3. CASE r \in T
    BY <1>2, <1>4, <1>6, <1>8, <1>9, <1>12, <2>1, <2>3, WithinIncludes
  <2> QED BY <2>2, <2>3
<1>13. new.leader_seen \in DepSet \cup {NoDepSet}
  BY <1>6, <1>7, <1>8
<1>14. new.leader_seen # NoDepSet =>
         ~EPaxos /\ \A id : <<setup.leader, id>> \in N /\ Touches(g, id, new.key) =>
                              Includes(new.leader_seen, id)
  <2>1. CASE src = ReadLeader
    <3>1. ~EPaxos /\ src = setup.leader
      BY <1>7, <2>1, NoneIsNoProc, TopologyAssumption DEF ReadLeader
    <3> QED BY <1>2, <1>3, <1>5, <1>8, <2>1, <3>1
  <2>2. CASE src # ReadLeader
    BY <1>2, <1>4, <1>8, <2>2
  <2> QED BY <2>1, <2>2
<1>15. new.key \in Key /\ new.answers \in Nat
  BY <1>6, <1>8
<1>16. <<p, n, new.key, N>> \in g.asked
  BY <1>1, <1>4, <1>8
<1>17. ExecutionSound =>
            \A c \in new.since : new.key \in KeysOf[c] =>
              \E id, cs, Q :
                /\ <<id, cs>> \in g.born /\ c \in ToSet(cs)
                /\ IsMajority(Q) /\ \A r \in Q : <<r, id>> \in N
                /\ ~EPaxos => <<setup.leader, id>> \in N
  BY <1>1, <1>4, <1>8
<1> HIDE DEF S
<1>18. \E U, V :
       /\ <<p, n, new.key, U>> \in g.asked
       /\ V \subseteq AliveReplicas /\ new.answers <= Cardinality(V)
       /\ \A r \in V : <<p, n, r>> \in g.answered
       /\ \A r \in V : \A id :
            <<r, id>> \in U /\ Touches(g, id, new.key) => Includes(new.union, id)
       /\ new.leader_seen # NoDepSet =>
            ~EPaxos /\ \A id : <<setup.leader, id>> \in U /\ Touches(g, id, new.key) =>
                                 Includes(new.leader_seen, id)
       /\ ExecutionSound =>
            \A c \in new.since : new.key \in KeysOf[c] =>
              \E id, cs, Q :
                /\ <<id, cs>> \in g.born /\ c \in ToSet(cs)
                /\ IsMajority(Q) /\ \A r \in Q : <<r, id>> \in U
                /\ ~EPaxos => <<setup.leader, id>> \in U
  BY <1>10, <1>11, <1>12, <1>14, <1>16, <1>17
<1>19. ReadOK(p, n, new, g)
  BY <1>8, <1>9, <1>13, <1>15, <1>18 DEF ReadOK
<1> QED BY <1>19 DEF new, g

\* The answers to a read that was served, or that has a majority, change nothing.
LEMMA ReceiveReading ==
  ASSUME setup \in Setups, NEW h, WellHistory(h), NEW p \in Proc, NEW n, NEW src, NEW seen,
         Answers(h, p, n, src, seen), <<p, n, src>> \notin h.answered,
         NEW next_read, NEW reads, Reading(p, next_read, reads, h),
         NEW g, g = WithAnswer(h, p, n, src)
  PROVE  /\ WellHistory(g) /\ Extends(p, h, g)
         /\ Reading(p, next_read, Receive(reads, n, src, seen, ReadLeader), g)
<1> DEFINE new == Counted(reads[n], src, seen)
           after == Receive(reads, n, src, seen, ReadLeader)
<1>1. WellHistory(g) /\ Extends(p, h, g) /\ g.asked = h.asked
  <2>1. n \in Nat /\ src \in AliveReplicas /\ \E k, N : <<p, n, k, N>> \in h.asked
    BY DEF Answers
  <2>2. g.asked = h.asked
    BY DEF WithAnswer
  <2> QED BY <2>1, <2>2, AnswerKeepsHistory
<1>2. \A m \in DOMAIN reads : ReadOK(p, m, reads[m], g)
  BY <1>1, ReadKept DEF Reading
<1>3. /\ reads = [m \in DOMAIN reads |-> reads[m]] /\ DOMAIN reads \subseteq Nat
      /\ next_read \in Nat /\ \A m, k, N : <<p, m, k, N>> \in g.asked => m < next_read
  BY <1>1 DEF Reading
<1>4. CASE after = reads
  BY <1>1, <1>2, <1>3, <1>4 DEF Reading
<1>5. CASE n \in DOMAIN reads /\ after = [reads EXCEPT ![n] = new]
  <2>1. ReadOK(p, n, reads[n], h)
    BY <1>5 DEF Reading
  <2>2. ReadOK(p, n, new, g)
    BY <2>1, CountedOK
  <2> HIDE DEF new, after
  <2>3. /\ DOMAIN after = DOMAIN reads /\ after = [m \in DOMAIN after |-> after[m]]
        /\ after[n] = new /\ \A m \in DOMAIN after : m # n => after[m] = reads[m]
    BY <1>3, <1>5
  <2>4. \A m \in DOMAIN after : ReadOK(p, m, after[m], g)
    BY <1>2, <2>2, <2>3
  <2>5. Reading(p, next_read, after, g)
    BY <1>3, <2>3, <2>4 DEF Reading
  <2> QED BY <1>1, <2>5 DEF after
<1>6. after = reads \/ (n \in DOMAIN reads /\ after = [reads EXCEPT ![n] = new])
  <2>1. CASE n \notin DOMAIN reads \/ reads[n].answers >= Majority
    BY <2>1 DEF Receive
  <2>2. CASE n \in DOMAIN reads /\ ~(reads[n].answers >= Majority)
    <3>1. DOMAIN reads[n] = {"key", "union", "answers", "leader_seen", "since"}
      BY <2>2 DEF Reading, ReadOK
    <3>2. after = [reads EXCEPT ![n].answers = @ + 1, ![n].union = UnionWith(@, seen),
                                ![n].leader_seen = IF src = ReadLeader THEN seen ELSE @]
      BY <2>2 DEF Receive
    <3> QED BY <1>3, <2>2, <3>1, <3>2 DEF Counted
  <2> QED BY <2>1, <2>2
<1> QED BY <1>4, <1>5, <1>6

\* What was executed when a read was issued was seen by a majority, and by the leader.
Since(h, since) ==
  ExecutionSound =>
    \A c \in since :
      \E id, cs, Q :
        /\ <<id, cs>> \in h.born /\ c \in ToSet(cs)
        /\ IsMajority(Q) /\ \A r \in Q : <<r, id>> \in h.noted
        /\ ~EPaxos => <<setup.leader, id>> \in h.noted

\* Whatever a process has executed was decided, and thus seen by a majority.
LEMMA ExecutedSeen ==
  ASSUME NEW h, WellHistory(h), \A p \in Proc : Local(p, shard[p], h)
  PROVE  Since(h, Executed)
<1> SUFFICES ASSUME ExecutionSound, NEW c \in Executed
             PROVE  \E id, cs, Q :
                      /\ <<id, cs>> \in h.born /\ c \in ToSet(cs)
                      /\ IsMajority(Q) /\ \A r \in Q : <<r, id>> \in h.noted
                      /\ ~EPaxos => <<setup.leader, id>> \in h.noted
  BY DEF Since
<1>1. PICK p \in Proc : c \in ExecutedBy(shard[p])
  BY DEF Executed
<1> DEFINE log == shard[p].log
<1>2. Executing(shard[p].executed, log, h)
  BY DEF Local, ExecutesSoundly
<1>3. PICK j \in DOMAIN log : c \in ToSet(log[j])
  <2>1. log \in Seq(Seq(Cmd))
    BY <1>2 DEF Executing
  <2>2. PICK cs \in ToSet(log) : c \in ToSet(cs)
    BY <1>1 DEF ExecutedBy
  <2> QED BY <2>1, <2>2 DEF ToSet
<1>4. PICK id, cs, deps : <<id, cs>> \in h.born /\ c \in ToSet(cs) /\ <<id, deps>> \in h.chosen
  BY <1>2, <1>3 DEF Executing
<1>5. Backed(h, id, deps)
  BY <1>4 DEF WellHistory, ChosenOnce
<1>6. ~EPaxos => <<setup.leader, id>> \in h.noted
  BY <1>5 DEF Backed, WellHistory, VotesOnce
<1> QED BY <1>4, <1>5, <1>6 DEF Backed

\* Only what p asked, and asked for, has changed.
LEMMA ReadsLocal ==
  ASSUME NEW p \in Proc, NEW h, NEW g, WellHistory(h), WellHistory(g), Extends(p, h, g),
         g.born = h.born, g.noted = h.noted, g.chosen = h.chosen, g.heard = h.heard,
         NEW s, Local(p, s, h), NEW t, IsShard(t),
         t.next_uid = s.next_uid, t.conflicts = s.conflicts, t.instances = s.instances,
         t.decided = s.decided, t.deferred = s.deferred, t.queue = s.queue, t.bundle = s.bundle,
         t.pending_fast = s.pending_fast, t.pending_slow = s.pending_slow,
         t.ack_recipients = s.ack_recipients,
         t.executed = s.executed, t.log = s.log, t.missed = s.missed,
         Reading(p, t.next_read, t.reads, g)
  PROVE  Local(p, t, g)
<1>1. Noting(p, t.next_uid, t.conflicts, g)
  <2>1. \A id, k : Touches(g, id, k) <=> Touches(h, id, k)
    BY DEF Touches
  <2> QED BY <2>1 DEF Local, Noting
<1>2. Knowing(p, t.instances, t.decided, g)
  <2>1. \A id \in DOMAIN t.instances : InstanceOK(p, id, t.instances[id], g)
    BY InstanceKept DEF Local, Knowing
  <2> QED BY <2>1 DEF Local, Knowing
<1>3. Holding(p, t.deferred, g)
  BY HeldsKept DEF Local, Holding
<1>4. AllHeldOK(p, t.queue, g) /\ AllHeldOK(p, t.bundle, g)
  BY HeldsKept DEF Local
<1>5. AllAcksOK(p, t.pending_fast, g) /\ AllAcksOK(p, t.pending_slow, g)
  BY HeldsKept DEF Local
<1>6. ExecutesSoundly(t.executed, t.log, t.instances, t.missed, g)
  BY ExecutesKept DEF Local
<1>7. t.ack_recipients \subseteq Proc
  BY DEF Local
<1> QED BY <1>1, <1>2, <1>3, <1>4, <1>5, <1>6, <1>7 DEF Local

\* A read that was just issued, before anyone answers.
LEMMA NewReadOK ==
  ASSUME NEW p \in Proc, NEW h, WellHistory(h), NEW n \in Nat, NEW key \in Key,
         NEW since, Since(h, since)
  PROVE  ReadOK(p, n, PendingRead(key, since), WithRead(h, p, n, key))
<1> DEFINE read == PendingRead(key, since)
           g == WithRead(h, p, n, key)
<1>1. read = [key |-> key, union |-> NoDeps, answers |-> 0, leader_seen |-> NoDepSet, since |-> since]
  BY DEF PendingRead
<1>2. g.born = h.born /\ <<p, n, key, h.noted>> \in g.asked
  BY DEF WithRead
<1> HIDE DEF read, g
<1>3. NoDeps \in DepSet
  BY DEF NoDeps, DepSet
<1>4. /\ DOMAIN read = {"key", "union", "answers", "leader_seen", "since"}
      /\ read.key = key /\ read.union \in DepSet /\ read.answers = 0
      /\ read.leader_seen = NoDepSet /\ read.since = since
  BY <1>1, <1>3
<1>5. Cardinality({}) = 0
  BY FS_EmptySet
<1>6. ExecutionSound =>
        \A c \in read.since : read.key \in KeysOf[c] =>
          \E id, cs, Q :
            /\ <<id, cs>> \in g.born /\ c \in ToSet(cs)
            /\ IsMajority(Q) /\ \A r \in Q : <<r, id>> \in h.noted
            /\ ~EPaxos => <<setup.leader, id>> \in h.noted
  BY <1>2, <1>4 DEF Since
<1>7. \E N, T :
       /\ <<p, n, read.key, N>> \in g.asked
       /\ T \subseteq AliveReplicas /\ read.answers <= Cardinality(T)
       /\ \A r \in T : <<p, n, r>> \in g.answered
       /\ \A r \in T : \A id :
            <<r, id>> \in N /\ Touches(g, id, read.key) => Includes(read.union, id)
       /\ read.leader_seen # NoDepSet =>
            ~EPaxos /\ \A id : <<setup.leader, id>> \in N /\ Touches(g, id, read.key) =>
                                 Includes(read.leader_seen, id)
       /\ ExecutionSound =>
            \A c \in read.since : read.key \in KeysOf[c] =>
              \E id, cs, Q :
                /\ <<id, cs>> \in g.born /\ c \in ToSet(cs)
                /\ IsMajority(Q) /\ \A r \in Q : <<r, id>> \in N
                /\ ~EPaxos => <<setup.leader, id>> \in N
  <2> DEFINE T == {}
  <2>1. /\ T \subseteq AliveReplicas /\ read.answers <= Cardinality(T) /\ \A r \in T : FALSE
    BY <1>4, <1>5
  <2> HIDE DEF T
  <2> QED BY <1>2, <1>4, <1>6, <2>1
<1>8. read.key \in Key /\ read.answers \in Nat /\ read.leader_seen \in DepSet \cup {NoDepSet}
  BY <1>4
<1>9. ReadOK(p, n, read, g)
  BY <1>4, <1>7, <1>8 DEF ReadOK
<1> QED BY <1>9 DEF read, g

\* What p sends may be believed.
Told(p, out, h) ==
  /\ out \in [Proc -> Seq(Message)]
  /\ \A q \in Proc \ {p} : \A j \in DOMAIN out[q] : MessageOK(p, q, out[q][j], h)

\* A new read asks every replica, and is answered here if this is one.
LEMMA SubmitReadFine ==
  ASSUME setup \in Setups, NEW p \in Proc, NEW h, WellHistory(h), NEW s, Local(p, s, h), s.out = Nothing,
         NEW key \in Key, NEW since, Since(h, since)
  PROVE  LET n == s.next_read
             m == [type |-> "ReadRequest", read |-> n, key |-> key]
             t == SubmitRead(p, s, key, since)
         IN  /\ n \in Nat
             /\ t.out = [q \in Proc |-> IF q \in AliveReplicas THEN <<m>> ELSE <<>>]
             /\ \E g : /\ Extends(p, h, g) /\ WellHistory(g) /\ Local(p, t, g) /\ Told(p, t.out, g)
                       /\ g.heard = h.heard
                       /\ \A q, k, r : <<q, k, r>> \in g.answered =>
                            <<q, k, r>> \in h.answered \/ (q = p /\ k = n /\ r = p)
                       /\ \A k, N : <<p, n, k, N>> \notin h.asked
<1> DEFINE n == s.next_read
           m == [type |-> "ReadRequest", read |-> n, key |-> key]
           first == WithRead(h, p, n, key)
           seen == DepsFor(s, {key})
           asked == Put(s.reads, n, PendingRead(key, since))
           reads == IF IsReplica(p) THEN Receive(asked, n, p, seen, ReadLeader) ELSE asked
           g == IF IsReplica(p) THEN WithAnswer(first, p, n, p) ELSE first
           out == [q \in Proc |-> IF q \in AliveReplicas THEN <<m>> ELSE <<>>]
           a == [s EXCEPT !.next_read = n + 1, !.reads = reads]
           u == SendTo(a, AliveReplicas, m)
           t == ServeReady(u)
<1>1. /\ n \in Nat /\ \A k, N : <<p, n, k, N>> \notin h.asked
      /\ \A k, l, N : <<p, k, l, N>> \in h.asked => k < n
  BY DEF Local, Reading
<1>2. WellHistory(first) /\ Extends(p, h, first)
  BY <1>1, ReadKeepsHistory
<1>3. /\ first.born = h.born /\ first.noted = h.noted /\ first.chosen = h.chosen
      /\ first.heard = h.heard /\ first.asked = h.asked \cup {<<p, n, key, h.noted>>}
      /\ first.answered = h.answered
  BY DEF WithRead
<1>4. Reading(p, n + 1, asked, first)
  <2>1. ReadOK(p, n, PendingRead(key, since), first)
    BY <1>1, NewReadOK
  <2> HIDE DEF first
  <2>2. \A k \in DOMAIN s.reads : ReadOK(p, k, s.reads[k], first)
    BY <1>2, ReadKept DEF Local, Reading
  <2>3. /\ DOMAIN asked = DOMAIN s.reads \cup {n} /\ asked = [k \in DOMAIN asked |-> asked[k]]
        /\ asked[n] = PendingRead(key, since)
        /\ \A k \in DOMAIN asked : k # n => asked[k] = s.reads[k]
    BY DEF Put
  <2> HIDE DEF asked
  <2>4. \A k \in DOMAIN asked : ReadOK(p, k, asked[k], first)
    BY <2>1, <2>2, <2>3
  <2>5. DOMAIN asked \subseteq Nat
    BY <1>1, <2>3 DEF Local, Reading
  <2>6. \A k, l, N : <<p, k, l, N>> \in first.asked => k < n + 1
    <3>1. \A k, l, N : <<p, k, l, N>> \in first.asked => k < n \/ k = n
      BY <1>1, <1>3
    <3>2. \A k, l, N : <<p, k, l, N>> \in first.asked => k \in Nat
      BY <1>2 DEF WellHistory, HistoryType
    <3> QED BY <1>1, <3>1, <3>2
  <2> QED BY <1>1, <2>3, <2>4, <2>5, <2>6 DEF Reading
<1>5. /\ WellHistory(g) /\ Extends(p, h, g) /\ Reading(p, n + 1, reads, g)
  <2>1. CASE ~IsReplica(p)
    BY <1>2, <1>4, <2>1
  <2>2. CASE IsReplica(p)
    <3>1. seen \in DepSet /\ Within(s.conflicts[key], seen)
      BY DepsForType DEF Local, Noting
    <3>2. \A id : <<p, id>> \in h.noted /\ Touches(first, id, key) => Includes(seen, id)
      <4>1. ASSUME NEW id, <<p, id>> \in h.noted, Touches(first, id, key)
            PROVE  Includes(seen, id)
        <5>1. Touches(h, id, key)
          BY <1>3, <4>1 DEF Touches
        <5>2. id \in Id /\ Includes(s.conflicts[key], id) /\ s.conflicts[key] \in DepSet
          BY <4>1, <5>1 DEF Local, Noting, WellHistory, HistoryType
        <5> QED BY <3>1, <5>2, WithinIncludes
      <4> QED BY <4>1
    <3>3. Answers(first, p, n, p, seen)
      BY <1>1, <1>3, <2>2, <3>1, <3>2 DEF Answers, IsReplica
    <3>4. <<p, n, p>> \notin first.answered
      BY <1>1, <1>3 DEF WellHistory, AskedOnce
    <3>5. g = WithAnswer(first, p, n, p) /\ reads = Receive(asked, n, p, seen, ReadLeader)
      BY <2>2
    <3> HIDE DEF first, asked, seen, g, reads
    <3>6. WellHistory(g) /\ Extends(p, first, g) /\ Reading(p, n + 1, reads, g)
      BY <1>2, <1>4, <3>3, <3>4, <3>5, ReceiveReading
    <3>7. Extends(p, h, g)
      <4>1. HistoryType(h) /\ HistoryType(first) /\ HistoryType(g)
        BY <1>2, <3>6 DEF WellHistory
      <4> QED BY <1>2, <3>6, <4>1, ExtendsTrans
    <3> QED BY <3>6, <3>7
  <2> QED BY <2>1, <2>2
<1>6. /\ g.born = h.born /\ g.noted = h.noted /\ g.chosen = h.chosen /\ g.heard = h.heard
      /\ <<p, n, key, h.noted>> \in g.asked
      /\ \A q, k, r : <<q, k, r>> \in g.answered => <<q, k, r>> \in h.answered \/ (q = p /\ k = n /\ r = p)
  BY <1>3 DEF WithAnswer
<1> HIDE DEF first, asked, seen, g, reads
<1>7. Told(p, out, g)
  <2>1. m \in Message /\ m.type = "ReadRequest" /\ m.read = n /\ m.key = key
    BY <1>1 DEF Message
  <2> HIDE DEF m
  <2>2. \A q \in AliveReplicas : MessageOK(p, q, m, g)
    BY <1>6, <2>1 DEF MessageOK, LateOK
  <2>3. out \in [Proc -> Seq(Message)]
    BY <2>1
  <2>4. ASSUME NEW q \in Proc, NEW j \in DOMAIN out[q]
        PROVE  q \in AliveReplicas /\ out[q][j] = m
    BY <2>4
  <2> QED BY <2>2, <2>3, <2>4 DEF Told
<1>8. u = [a EXCEPT !.out = out]
  <2>1. IsShard(s)
    BY DEF Local
  <2>2. a.out = Nothing
    BY <2>1 DEF IsShard, ShardFields
  <2>3. \A q \in Proc : Append(Nothing[q], m) = <<m>> /\ Nothing[q] = <<>>
    BY DEF Nothing
  <2> HIDE DEF a, m
  <2>4. u = [a EXCEPT !.out = [q \in Proc |-> IF q \in AliveReplicas THEN Append(Nothing[q], m) ELSE Nothing[q]]]
    BY <2>2 DEF SendTo
  <2>5. [q \in Proc |-> IF q \in AliveReplicas THEN Append(Nothing[q], m) ELSE Nothing[q]] = out
    BY <2>3
  <2> QED BY <2>4, <2>5
<1> HIDE DEF u, out, m
<1>9. /\ IsShard(u) /\ u.out = out /\ u.next_read = n + 1 /\ u.reads = reads
      /\ u.next_uid = s.next_uid /\ u.conflicts = s.conflicts /\ u.instances = s.instances
      /\ u.decided = s.decided /\ u.deferred = s.deferred /\ u.queue = s.queue /\ u.bundle = s.bundle
      /\ u.pending_fast = s.pending_fast /\ u.pending_slow = s.pending_slow
      /\ u.ack_recipients = s.ack_recipients
      /\ u.executed = s.executed /\ u.log = s.log /\ u.missed = s.missed
  BY <1>8 DEF Local, IsShard, ShardFields
<1>10. Local(p, u, g)
  BY <1>5, <1>6, <1>9, ReadsLocal
<1>11. Local(p, t, g) /\ t.out = out
  BY <1>5, <1>9, <1>10, ServeReadyLocal
<1>12. SubmitRead(p, s, key, since) = t
  BY DEF SubmitRead, t, u, a, reads, asked, seen, m, n
<1> HIDE DEF t
<1> QED BY <1>1, <1>5, <1>6, <1>7, <1>11, <1>12 DEF out, m

AnswerTo(s, m) == [type |-> "ReadResponse", read |-> m.read, seen |-> DepsFor(s, {m.key})]
OnlyTo(src, m) == [q \in Proc |-> IF q \in {src} THEN <<m>> ELSE <<>>]

\* To be asked changes nothing, and the answer names what was seen before the read was issued.
LEMMA AnswerFine ==
  ASSUME NEW p \in Proc, NEW h, WellHistory(h), NEW s, Local(p, s, h), s.out = Nothing,
         NEW src \in Proc, NEW m, m.type = "ReadRequest", m.read \in Nat, m.key \in Key,
         MessageOK(src, p, m, h)
  PROVE  LET t == Handle(p, s, src, m)
         IN  Local(p, t, h) /\ Told(p, t.out, h) /\ t.out = OnlyTo(src, AnswerTo(s, m))
<1> DEFINE seen == DepsFor(s, {m.key})
           answer == [type |-> "ReadResponse", read |-> m.read, seen |-> seen]
           out == [q \in Proc |-> IF q \in {src} THEN <<answer>> ELSE <<>>]
           t == SendTo(s, {src}, answer)
<1>1. Handle(p, s, src, m) = t
  BY DEF Handle
<1>2. IsShard(s)
  BY DEF Local
<1>3. t = [s EXCEPT !.out = out]
  <2>1. \A q \in Proc : Append(Nothing[q], answer) = <<answer>> /\ Nothing[q] = <<>>
    BY DEF Nothing
  <2> HIDE DEF answer
  <2>2. t = [s EXCEPT !.out = [q \in Proc |-> IF q \in {src} THEN Append(Nothing[q], answer) ELSE Nothing[q]]]
    BY DEF SendTo
  <2>3. [q \in Proc |-> IF q \in {src} THEN Append(Nothing[q], answer) ELSE Nothing[q]] = out
    BY <2>1
  <2> QED BY <2>2, <2>3
<1>4. Told(p, out, h)
  <2>1. p \in AliveReplicas /\ \E N : <<src, m.read, m.key, N>> \in h.asked
    BY DEF MessageOK
  <2>2. PICK N : <<src, m.read, m.key, N>> \in h.asked
    BY <2>1
  <2>3. seen \in DepSet /\ Within(s.conflicts[m.key], seen)
    BY DepsForType DEF Local, Noting
  <2>4. ASSUME NEW id, <<p, id>> \in N, Touches(h, id, m.key)
        PROVE  Includes(seen, id)
    <3>1. <<p, id>> \in h.noted
      BY <2>2, <2>4 DEF WellHistory, AskedOnce
    <3>2. id \in Id /\ Includes(s.conflicts[m.key], id) /\ s.conflicts[m.key] \in DepSet
      BY <2>4, <3>1 DEF Local, Noting, WellHistory, HistoryType
    <3> QED BY <2>3, <3>2, WithinIncludes
  <2>5. answer \in Message /\ answer.type = "ReadResponse" /\ answer.read = m.read /\ answer.seen = seen
    BY <2>3 DEF Message
  <2> HIDE DEF answer, seen
  <2>6. MessageOK(p, src, answer, h)
    BY <2>1, <2>2, <2>4, <2>5 DEF MessageOK, LateOK
  <2>7. out \in [Proc -> Seq(Message)]
    BY <2>5
  <2>8. ASSUME NEW q \in Proc, NEW j \in DOMAIN out[q]
        PROVE  q = src /\ out[q][j] = answer
    BY <2>8
  <2> QED BY <2>6, <2>7, <2>8 DEF Told
<1> HIDE DEF t, out
<1>5. /\ IsShard(t) /\ t.out = out
      /\ t.next_uid = s.next_uid /\ t.conflicts = s.conflicts /\ t.instances = s.instances
      /\ t.decided = s.decided /\ t.deferred = s.deferred /\ t.queue = s.queue /\ t.bundle = s.bundle
      /\ t.pending_fast = s.pending_fast /\ t.pending_slow = s.pending_slow
      /\ t.ack_recipients = s.ack_recipients /\ t.next_read = s.next_read /\ t.reads = s.reads
      /\ t.executed = s.executed /\ t.log = s.log /\ t.missed = s.missed
  BY <1>2, <1>3 DEF IsShard, ShardFields
<1>6. Local(p, t, h)
  BY <1>5 DEF Local
<1> QED BY <1>1, <1>4, <1>5, <1>6 DEF out, OnlyTo, AnswerTo

\* An answer is counted once.
LEMMA AnsweredFine ==
  ASSUME setup \in Setups, NEW p \in Proc, NEW h, WellHistory(h), NEW s, Local(p, s, h), s.out = Nothing,
         NEW src \in Proc, NEW m, m.type = "ReadResponse", m.read \in Nat, m.seen \in DepSet,
         MessageOK(src, p, m, h), <<p, m.read, src>> \notin h.answered
  PROVE  LET t == Handle(p, s, src, m)
         IN  /\ t.out = Nothing
             /\ \E g : /\ Extends(p, h, g) /\ WellHistory(g) /\ Local(p, t, g)
                       /\ g.heard = h.heard /\ g.answered = h.answered \cup {<<p, m.read, src>>}
<1> DEFINE reads == Receive(s.reads, m.read, src, m.seen, ReadLeader)
           a == [s EXCEPT !.reads = reads]
           t == ServeReady(a)
           g == WithAnswer(h, p, m.read, src)
<1>1. Handle(p, s, src, m) = t
  BY DEF Handle
<1>2. Answers(h, p, m.read, src, m.seen)
  BY DEF MessageOK, Answers
<1>3. WellHistory(g) /\ Extends(p, h, g) /\ Reading(p, s.next_read, reads, g)
  BY <1>2, ReceiveReading DEF Local
<1>4. /\ g.born = h.born /\ g.noted = h.noted /\ g.chosen = h.chosen /\ g.heard = h.heard
      /\ g.answered = h.answered \cup {<<p, m.read, src>>}
  BY DEF WithAnswer
<1> HIDE DEF g, reads
<1>5. /\ IsShard(a) /\ a.out = Nothing /\ a.next_read = s.next_read /\ a.reads = reads
      /\ a.next_uid = s.next_uid /\ a.conflicts = s.conflicts /\ a.instances = s.instances
      /\ a.decided = s.decided /\ a.deferred = s.deferred /\ a.queue = s.queue /\ a.bundle = s.bundle
      /\ a.pending_fast = s.pending_fast /\ a.pending_slow = s.pending_slow
      /\ a.ack_recipients = s.ack_recipients
      /\ a.executed = s.executed /\ a.log = s.log /\ a.missed = s.missed
  BY DEF Local, IsShard, ShardFields
<1> HIDE DEF a
<1>6. Local(p, a, g)
  BY <1>3, <1>4, <1>5, ReadsLocal
<1>7. Local(p, t, g) /\ t.out = Nothing
  BY <1>3, <1>5, <1>6, ServeReadyLocal
<1> HIDE DEF t
<1> QED BY <1>1, <1>3, <1>4, <1>7

-----------------------------------------------------------------------------
(* Messages in flight *)

\* Proposals arrive in their order, and none that was heard of.
ChannelOK(src, dest, c, h) ==
  /\ c \in Seq(Message)
  /\ src = dest => c = <<>>
  /\ \A j \in DOMAIN c : MessageOK(src, dest, c[j], h)
  /\ \A j \in DOMAIN c : c[j].type = "PreAccept" => h.heard[dest][src] <= IndexOf(c[j].id)
  /\ \A j, k \in DOMAIN c : c[j].type = "PreAccept" /\ c[k].type = "PreAccept" /\ j < k =>
       IndexOf(c[j].id) < IndexOf(c[k].id)

NetOK(chan, h) ==
  /\ chan \in [Proc -> [Proc -> Seq(Message)]]
  /\ \A src, dest \in Proc : ChannelOK(src, dest, chan[src][dest], h)

\* p sends at most one proposal, its n-th or later, and before anything else.
Posts(p, out, n, h) ==
  /\ out \in [Proc -> Seq(Message)]
  /\ \A q \in Proc \ {p} : \A j \in DOMAIN out[q] :
       /\ MessageOK(p, q, out[q][j], h)
       /\ out[q][j].type = "PreAccept" => j = 1 /\ n <= IndexOf(out[q][j].id)

\* What remains of a sequence without its head.
LEMMA TailOf ==
  ASSUME NEW S, NEW c \in Seq(S), c # <<>>
  PROVE  /\ Tail(c) \in Seq(S) /\ 1 \in DOMAIN c /\ Head(c) = c[1] /\ Head(c) \in S
         /\ \A j \in DOMAIN Tail(c) : j \in Nat /\ j > 0 /\ j + 1 \in DOMAIN c /\ Tail(c)[j] = c[j + 1]
OBVIOUS

\* What is left when the oldest message is taken, which is no proposal to come.
LEMMA ChannelTail ==
  ASSUME NEW src, NEW dest, NEW h, NEW c, ChannelOK(src, dest, c, h), c # <<>>
  PROVE  /\ src # dest /\ Head(c) \in Message /\ MessageOK(src, dest, Head(c), h)
         /\ ChannelOK(src, dest, Tail(c), h)
         /\ Head(c).type = "PreAccept" =>
              /\ h.heard[dest][src] <= IndexOf(Head(c).id)
              /\ \A j \in DOMAIN Tail(c) : Tail(c)[j].type = "PreAccept" =>
                   IndexOf(Head(c).id) < IndexOf(Tail(c)[j].id)
<1> DEFINE t == Tail(c)
<1>1. /\ t \in Seq(Message) /\ 1 \in DOMAIN c /\ Head(c) = c[1] /\ Head(c) \in Message
      /\ \A j \in DOMAIN t : j \in Nat /\ j > 0 /\ j + 1 \in DOMAIN c /\ t[j] = c[j + 1]
  BY TailOf DEF ChannelOK
<1> HIDE DEF t
<1>2. src # dest /\ MessageOK(src, dest, Head(c), h)
  BY <1>1 DEF ChannelOK
<1>3. \A j \in DOMAIN t : MessageOK(src, dest, t[j], h) /\ (t[j].type = "PreAccept" => h.heard[dest][src] <= IndexOf(t[j].id))
  BY <1>1 DEF ChannelOK
<1>4. ASSUME NEW j \in DOMAIN t, NEW k \in DOMAIN t, t[j].type = "PreAccept", t[k].type = "PreAccept", j < k
      PROVE  IndexOf(t[j].id) < IndexOf(t[k].id)
  <2>1. j + 1 < k + 1 /\ j + 1 \in DOMAIN c /\ k + 1 \in DOMAIN c /\ t[j] = c[j + 1] /\ t[k] = c[k + 1]
    BY <1>1, <1>4
  <2> QED BY <1>4, <2>1 DEF ChannelOK
<1>5. ASSUME Head(c).type = "PreAccept"
      PROVE  /\ h.heard[dest][src] <= IndexOf(Head(c).id)
             /\ \A j \in DOMAIN t : t[j].type = "PreAccept" => IndexOf(Head(c).id) < IndexOf(t[j].id)
  <2>1. \A j \in DOMAIN t : 1 < j + 1 /\ j + 1 \in DOMAIN c /\ t[j] = c[j + 1]
    BY <1>1
  <2> QED BY <1>1, <1>5, <2>1 DEF ChannelOK
<1>6. ChannelOK(src, dest, t, h)
  BY <1>1, <1>2, <1>3, <1>4 DEF ChannelOK
<1> QED BY <1>1, <1>2, <1>5, <1>6 DEF t

\* What p does leaves what holds of a channel, if its receiver heard of nothing in it.
LEMMA ChannelKept ==
  ASSUME NEW p \in Proc, NEW h, NEW g, WellHistory(h), WellHistory(g), Extends(p, h, g),
         NEW src, NEW dest, NEW c, ChannelOK(src, dest, c, h),
         \A j \in DOMAIN c : c[j].type = "PreAccept" => g.heard[dest][src] <= IndexOf(c[j].id)
  PROVE  ChannelOK(src, dest, c, g)
<1>1. \A j \in DOMAIN c : MessageOK(src, dest, c[j], g)
  BY MessageKept DEF ChannelOK
<1> QED BY <1>1 DEF ChannelOK

\* What p sends comes after what it has sent.
LEMMA ChannelAppend ==
  ASSUME NEW p \in Proc, NEW q \in Proc \ {p}, NEW h, NEW g, WellHistory(h), WellHistory(g), Extends(p, h, g),
         NEW c, ChannelOK(p, q, c, h),
         NEW out, Posts(p, out, h.heard[p][p], g)
  PROVE  ChannelOK(p, q, c \o out[q], g)
<1> DEFINE o == out[q]
           n == h.heard[p][p]
           b == c \o o
<1>1. /\ o \in Seq(Message)
      /\ \A j \in DOMAIN o : MessageOK(p, q, o[j], g) /\ (o[j].type = "PreAccept" => j = 1 /\ n <= IndexOf(o[j].id))
  BY DEF Posts
<1>2. /\ g.heard[q][p] = h.heard[q][p] /\ g.heard[q][p] \in Nat /\ n \in Nat /\ g.heard[q][p] <= n
  BY DEF Extends, WellHistory, HistoryType, DepSet, NotedInOrder
<1>3. ChannelOK(p, q, c, g)
  BY <1>2, ChannelKept DEF ChannelOK
<1>4. \A j \in DOMAIN c : c[j].type = "PreAccept" => IndexOf(c[j].id) < n
  <2> SUFFICES ASSUME NEW j \in DOMAIN c, c[j].type = "PreAccept"
               PROVE  IndexOf(c[j].id) < n
    OBVIOUS
  <2>1. p = RequesterOf(c[j].id) /\ <<p, c[j].id, c[j].deps>> \in h.votes
    BY DEF ChannelOK, MessageOK
  <2>2. <<p, c[j].id>> \in h.noted
    BY <2>1 DEF WellHistory, VotesOnce
  <2> QED BY <2>1, <2>2 DEF WellHistory, NotedInOrder
<1>5. \A j \in DOMAIN c : c[j] \in Message
  BY <1>3 DEF ChannelOK
<1>6. \A j \in DOMAIN c \cup DOMAIN o : j \in Nat
  BY <1>1, <1>3 DEF ChannelOK
<1> HIDE DEF o, n
<1>7. /\ b \in Seq(Message)
      /\ \A j \in DOMAIN b : \/ j \in DOMAIN c /\ b[j] = c[j]
                             \/ j \notin DOMAIN c /\ \E k \in DOMAIN o : b[j] = o[k] /\ j = Len(c) + k
      /\ Len(c) \in Nat /\ DOMAIN c = 1 .. Len(c) /\ \A j \in DOMAIN b : j \in Nat
  BY <1>1, <1>3 DEF ChannelOK
<1> HIDE DEF b
<1>8. \A j \in DOMAIN b : MessageOK(p, q, b[j], g)
  BY <1>1, <1>3, <1>7 DEF ChannelOK
<1>9. ASSUME NEW j \in DOMAIN b, b[j].type = "PreAccept"
      PROVE  /\ g.heard[q][p] <= IndexOf(b[j].id)
             /\ IndexOf(b[j].id) \in Nat
             /\ j \notin DOMAIN c => n <= IndexOf(b[j].id) /\ j = Len(c) + 1
  <2>1. IndexOf(b[j].id) \in Nat
    <3>1. b[j] \in Message
      BY <1>7
    <3>2. b[j].id \in Id
      BY <1>9, <3>1, MessageType, LateMsgType
    <3> QED BY <3>2, IdParts
  <2>2. CASE j \in DOMAIN c /\ b[j] = c[j]
    BY <1>3, <1>9, <2>1, <2>2 DEF ChannelOK
  <2>3. CASE j \notin DOMAIN c
    <3>1. PICK k \in DOMAIN o : b[j] = o[k] /\ j = Len(c) + k
      BY <1>7, <2>3
    <3> QED BY <1>1, <1>2, <1>9, <2>1, <3>1
  <2> QED BY <1>7, <2>2, <2>3
<1>10. ASSUME NEW j \in DOMAIN b, NEW k \in DOMAIN b, b[j].type = "PreAccept", b[k].type = "PreAccept", j < k
       PROVE  IndexOf(b[j].id) < IndexOf(b[k].id)
  <2>1. CASE k \in DOMAIN c
    <3>1. j \in DOMAIN c
      BY <1>7, <1>10, <2>1
    <3>2. b[j] = c[j] /\ b[k] = c[k]
      BY <1>7, <2>1, <3>1
    <3> QED BY <1>3, <1>10, <2>1, <3>1, <3>2 DEF ChannelOK
  <2>2. CASE k \notin DOMAIN c
    <3>1. n <= IndexOf(b[k].id) /\ k = Len(c) + 1 /\ IndexOf(b[k].id) \in Nat
      BY <1>9, <1>10, <2>2
    <3>2. j \in DOMAIN c
      BY <1>7, <1>10, <3>1
    <3>3. b[j] = c[j] /\ IndexOf(b[j].id) < n
      BY <1>4, <1>7, <1>10, <3>2
    <3>4. IndexOf(b[j].id) \in Nat
      BY <1>9, <1>10
    <3> QED BY <1>2, <3>1, <3>3, <3>4
  <2> QED BY <2>1, <2>2
<1>11. ChannelOK(p, q, b, g)
  BY <1>7, <1>8, <1>9, <1>10 DEF ChannelOK
<1> QED BY <1>11 DEF b, o

\* What is in flight after p has sent out.
Posted(p, chan, out) ==
  [chan EXCEPT ![p] = [q \in Proc |-> IF q = p THEN @[q] ELSE @[q] \o out[q]]]

\* Only p's channels change.
LEMMA PostedParts ==
  ASSUME NEW p \in Proc, NEW chan \in [Proc -> [Proc -> Seq(Message)]], NEW out \in [Proc -> Seq(Message)]
  PROVE  /\ Posted(p, chan, out) \in [Proc -> [Proc -> Seq(Message)]]
         /\ \A r \in Proc \ {p} : Posted(p, chan, out)[p][r] = chan[p][r] \o out[r]
         /\ \A q, r \in Proc : q # p \/ r = p => Posted(p, chan, out)[q][r] = chan[q][r]
<1> DEFINE row == [q \in Proc |-> IF q = p THEN chan[p][q] ELSE chan[p][q] \o out[q]]
<1>1. Posted(p, chan, out) = [chan EXCEPT ![p] = row]
  BY DEF Posted
<1>2. \A q \in Proc : chan[p][q] \o out[q] \in Seq(Message)
  BY Concatenated
<1>3. row \in [Proc -> Seq(Message)]
  BY <1>2
<1>4. \A q \in Proc : row[q] = IF q = p THEN chan[p][q] ELSE chan[p][q] \o out[q]
  OBVIOUS
<1> HIDE DEF row
<1> DEFINE next == Posted(p, chan, out)
<1>5. /\ next \in [Proc -> [Proc -> Seq(Message)]] /\ next[p] = row
      /\ \A q \in Proc : q # p => next[q] = chan[q]
  BY <1>1, <1>3
<1> HIDE DEF next
<1>6. \A r \in Proc \ {p} : next[p][r] = chan[p][r] \o out[r]
  BY <1>4, <1>5
<1>7. \A q, r \in Proc : q # p \/ r = p => next[q][r] = chan[q][r]
  BY <1>4, <1>5
<1> QED BY <1>5, <1>6, <1>7 DEF next

\* A step of p keeps what holds of every channel.
LEMMA NetStep ==
  ASSUME NEW p \in Proc, NEW h, NEW g, WellHistory(h), WellHistory(g), Extends(p, h, g),
         NEW chan, NetOK(chan, h), NEW out, Posts(p, out, h.heard[p][p], g),
         \A q \in Proc : \A j \in DOMAIN chan[q][p] :
           chan[q][p][j].type = "PreAccept" => g.heard[p][q] <= IndexOf(chan[q][p][j].id)
  PROVE  NetOK(Posted(p, chan, out), g)
<1> DEFINE next == Posted(p, chan, out)
<1>1. /\ next \in [Proc -> [Proc -> Seq(Message)]]
      /\ \A r \in Proc \ {p} : next[p][r] = chan[p][r] \o out[r]
      /\ \A q, r \in Proc : q # p \/ r = p => next[q][r] = chan[q][r]
  <2>1. chan \in [Proc -> [Proc -> Seq(Message)]] /\ out \in [Proc -> Seq(Message)]
    BY DEF NetOK, Posts
  <2> QED BY <2>1, PostedParts
<1> HIDE DEF next
<1>2. ASSUME NEW src \in Proc, NEW dest \in Proc
      PROVE  ChannelOK(src, dest, next[src][dest], g)
  <2>1. ChannelOK(src, dest, chan[src][dest], h)
    BY DEF NetOK
  <2>2. CASE src = p /\ dest # p
    <3>1. ChannelOK(p, dest, chan[p][dest] \o out[dest], g)
      BY <2>1, <2>2, ChannelAppend
    <3>2. next[src][dest] = chan[p][dest] \o out[dest]
      BY <1>1, <2>2
    <3> QED BY <2>2, <3>1, <3>2
  <2>3. CASE dest = p
    BY <1>1, <2>1, <2>3, ChannelKept
  <2>4. CASE src # p /\ dest # p
    <3>1. g.heard[dest][src] = h.heard[dest][src]
      BY <2>4 DEF Extends
    <3>2. \A j \in DOMAIN chan[src][dest] : chan[src][dest][j].type = "PreAccept" =>
            g.heard[dest][src] <= IndexOf(chan[src][dest][j].id)
      BY <2>1, <3>1 DEF ChannelOK
    <3> QED BY <1>1, <2>1, <2>4, <3>2, ChannelKept
  <2> QED BY <2>2, <2>3, <2>4
<1>3. NetOK(next, g)
  BY <1>1, <1>2 DEF NetOK
<1> QED BY <1>3 DEF next

\* A step in which p hears of nothing.
LEMMA NetQuiet ==
  ASSUME NEW p \in Proc, NEW h, NEW g, WellHistory(h), WellHistory(g), Extends(p, h, g),
         \A r \in Proc \ {p} : g.heard[p][r] = h.heard[p][r],
         NEW chan, NetOK(chan, h), NEW out, Posts(p, out, h.heard[p][p], g)
  PROVE  NetOK(Posted(p, chan, out), g)
<1>1. ASSUME NEW q \in Proc, NEW j \in DOMAIN chan[q][p], chan[q][p][j].type = "PreAccept"
      PROVE  g.heard[p][q] <= IndexOf(chan[q][p][j].id)
  <2>1. ChannelOK(q, p, chan[q][p], h)
    BY DEF NetOK
  <2>2. q # p
    BY <2>1, <1>1 DEF ChannelOK
  <2> QED BY <1>1, <2>1, <2>2 DEF ChannelOK
<1> QED BY <1>1, NetStep

\* A message taken from its channel.
LEMMA NetTail ==
  ASSUME NEW h, NEW chan, NetOK(chan, h), NEW src \in Proc, NEW dest \in Proc, chan[src][dest] # <<>>
  PROVE  LET next == [chan EXCEPT ![src][dest] = Tail(@)]
         IN  /\ NetOK(next, h) /\ next[src][dest] = Tail(chan[src][dest])
             /\ \A q, r \in Proc : q # src \/ r # dest => next[q][r] = chan[q][r]
<1> DEFINE next == [chan EXCEPT ![src][dest] = Tail(@)]
           row == [chan[src] EXCEPT ![dest] = Tail(chan[src][dest])]
<1>1. chan \in [Proc -> [Proc -> Seq(Message)]]
  BY DEF NetOK
<1>2. next = [chan EXCEPT ![src] = row]
  BY <1>1
<1>3. Tail(chan[src][dest]) \in Seq(Message)
  BY <1>1, TailOf
<1>4. row \in [Proc -> Seq(Message)] /\ row[dest] = Tail(chan[src][dest])
      /\ \A r \in Proc : r # dest => row[r] = chan[src][r]
  BY <1>1, <1>3
<1> HIDE DEF row
<1>5. /\ next \in [Proc -> [Proc -> Seq(Message)]] /\ next[src] = row
      /\ \A q \in Proc : q # src => next[q] = chan[q]
  BY <1>1, <1>2, <1>4
<1> HIDE DEF next
<1>6. next[src][dest] = Tail(chan[src][dest]) /\ \A q, r \in Proc : q # src \/ r # dest => next[q][r] = chan[q][r]
  BY <1>4, <1>5
<1>7. ChannelOK(src, dest, Tail(chan[src][dest]), h)
  BY ChannelTail DEF NetOK
<1>8. NetOK(next, h)
  BY <1>5, <1>6, <1>7 DEF NetOK
<1> QED BY <1>6, <1>8 DEF next

-----------------------------------------------------------------------------
(* Reads in flight *)

IsAsk(m, n)    == m.type = "ReadRequest" /\ m.read = n
IsAnswer(m, n) == m.type = "ReadResponse" /\ m.read = n

\* p's n-th read is not with r, and will not be answered by it.
Gone(there, back, n) ==
  /\ \A j \in DOMAIN there : ~IsAsk(there[j], n)
  /\ \A j \in DOMAIN back : ~IsAnswer(back[j], n)

\* A read of p's is on its way to r, or its answer on its way back, or neither is, for
\* good once the answer was counted.
Once(p, r, there, back, h) ==
  /\ \A n : \A j, k \in DOMAIN there : IsAsk(there[j], n) /\ IsAsk(there[k], n) => j = k
  /\ \A n : \A j, k \in DOMAIN back : IsAnswer(back[j], n) /\ IsAnswer(back[k], n) => j = k
  /\ \A n : \A j \in DOMAIN there, k \in DOMAIN back : ~(IsAsk(there[j], n) /\ IsAnswer(back[k], n))
  /\ \A n : <<p, n, r>> \in h.answered => Gone(there, back, n)

NetOnce(chan, h) ==
  \A p, r \in Proc : p # r => Once(p, r, chan[p][r], chan[r][p], h)

\* Of c's messages of a type, some.
Fewer(type, b, c) ==
  \E f : /\ \A j \in DOMAIN b : b[j].type = type => f[j] \in DOMAIN c /\ b[j] = c[f[j]]
         /\ \A j, k \in DOMAIN b : f[j] = f[k] => j = k

\* Fewer reads are as good.
LEMMA FewerOnce ==
  ASSUME NEW p, NEW r, NEW there, NEW back, NEW h, Once(p, r, there, back, h),
         NEW b, Fewer("ReadRequest", b, there), NEW c, Fewer("ReadResponse", c, back), NEW g,
         \A n : <<p, n, r>> \in g.answered => <<p, n, r>> \in h.answered
  PROVE  Once(p, r, b, c, g)
<1>1. PICK f : /\ \A j \in DOMAIN b : b[j].type = "ReadRequest" => f[j] \in DOMAIN there /\ b[j] = there[f[j]]
               /\ \A j, k \in DOMAIN b : f[j] = f[k] => j = k
  BY DEF Fewer
<1>2. PICK e : /\ \A j \in DOMAIN c : c[j].type = "ReadResponse" => e[j] \in DOMAIN back /\ c[j] = back[e[j]]
               /\ \A j, k \in DOMAIN c : e[j] = e[k] => j = k
  BY DEF Fewer
<1>3. \A n : \A j \in DOMAIN b : IsAsk(b[j], n) => f[j] \in DOMAIN there /\ IsAsk(there[f[j]], n)
  BY <1>1 DEF IsAsk
<1>4. \A n : \A j \in DOMAIN c : IsAnswer(c[j], n) => e[j] \in DOMAIN back /\ IsAnswer(back[e[j]], n)
  BY <1>2 DEF IsAnswer
<1>5. \A n : \A j, k \in DOMAIN b : IsAsk(b[j], n) /\ IsAsk(b[k], n) => j = k
  BY <1>1, <1>3 DEF Once
<1>6. \A n : \A j, k \in DOMAIN c : IsAnswer(c[j], n) /\ IsAnswer(c[k], n) => j = k
  BY <1>2, <1>4 DEF Once
<1>7. \A n : \A j \in DOMAIN b, k \in DOMAIN c : ~(IsAsk(b[j], n) /\ IsAnswer(c[k], n))
  BY <1>3, <1>4 DEF Once
<1>8. \A n : <<p, n, r>> \in g.answered => Gone(b, c, n)
  BY <1>3, <1>4 DEF Once, Gone
<1> QED BY <1>5, <1>6, <1>7, <1>8 DEF Once

\* A sequence has no more than itself, and so has its tail, and what it grows to without them.
LEMMA FewerCases ==
  ASSUME NEW c \in Seq(Message), NEW type
  PROVE  /\ Fewer(type, c, c)
         /\ c # <<>> => Fewer(type, Tail(c), c)
         /\ \A o \in Seq(Message) : (\A j \in DOMAIN o : o[j].type # type) => Fewer(type, c \o o, c)
<1>1. Fewer(type, c, c)
  <2> DEFINE f == [j \in DOMAIN c |-> j]
  <2>1. \A j \in DOMAIN c : f[j] = j
    OBVIOUS
  <2> HIDE DEF f
  <2> QED BY <2>1 DEF Fewer
<1>2. ASSUME c # <<>>
      PROVE  Fewer(type, Tail(c), c)
  <2> DEFINE b == Tail(c)
             f == [j \in DOMAIN b |-> j + 1]
  <2>1. \A j \in DOMAIN b : j \in Nat /\ j + 1 \in DOMAIN c /\ b[j] = c[j + 1]
    BY <1>2, TailOf
  <2>2. \A j \in DOMAIN b : f[j] = j + 1
    OBVIOUS
  <2> HIDE DEF f, b
  <2>3. \A j, k \in DOMAIN b : f[j] = f[k] => j = k
    BY <2>1, <2>2
  <2>4. Fewer(type, b, c)
    BY <2>1, <2>2, <2>3 DEF Fewer
  <2> QED BY <2>4 DEF b
<1>3. ASSUME NEW o \in Seq(Message), \A j \in DOMAIN o : o[j].type # type
      PROVE  Fewer(type, c \o o, c)
  <2> DEFINE b == c \o o
             f == [j \in DOMAIN b |-> j]
  <2>1. \A j \in DOMAIN b : (j \in DOMAIN c /\ b[j] = c[j]) \/ \E k \in DOMAIN o : b[j] = o[k]
    BY Concatenated
  <2>2. \A j \in DOMAIN b : f[j] = j
    OBVIOUS
  <2> HIDE DEF f, b
  <2>3. \A j \in DOMAIN b : b[j].type = type => f[j] \in DOMAIN c /\ b[j] = c[f[j]]
    BY <1>3, <2>1, <2>2
  <2>4. Fewer(type, b, c)
    BY <2>2, <2>3 DEF Fewer
  <2> QED BY <2>4 DEF b
<1> QED BY <1>1, <1>2, <1>3

\* What p sends concerns the reads it shares with the receiver.
LEMMA OncePosted ==
  ASSUME NEW p \in Proc, NEW h, NEW g, Extends(p, h, g), NEW chan \in [Proc -> [Proc -> Seq(Message)]],
         NetOnce(chan, h), NEW out \in [Proc -> Seq(Message)],
         \A r \in Proc \ {p} : /\ Once(p, r, chan[p][r] \o out[r], chan[r][p], g)
                               /\ Once(r, p, chan[r][p], chan[p][r] \o out[r], g)
  PROVE  NetOnce(Posted(p, chan, out), g)
<1> DEFINE next == Posted(p, chan, out)
<1>1. /\ next \in [Proc -> [Proc -> Seq(Message)]]
      /\ \A r \in Proc \ {p} : next[p][r] = chan[p][r] \o out[r]
      /\ \A q, r \in Proc : q # p \/ r = p => next[q][r] = chan[q][r]
  BY PostedParts
<1> HIDE DEF next
<1>2. ASSUME NEW q \in Proc, NEW r \in Proc, q # r
      PROVE  Once(q, r, next[q][r], next[r][q], g)
  <2>1. CASE q = p
    <3>1. next[q][r] = chan[p][r] \o out[r] /\ next[r][q] = chan[r][p]
      BY <1>1, <1>2, <2>1
    <3> QED BY <1>2, <2>1, <3>1
  <2>2. CASE r = p
    <3>1. next[q][r] = chan[q][p] /\ next[r][q] = chan[p][q] \o out[q]
      BY <1>1, <1>2, <2>2
    <3> QED BY <1>2, <2>2, <3>1
  <2>3. CASE q # p /\ r # p
    <3>1. next[q][r] = chan[q][r] /\ next[r][q] = chan[r][q]
      BY <1>1, <2>3
    <3>2. Once(q, r, chan[q][r], chan[r][q], h)
      BY <1>2 DEF NetOnce
    <3>3. \A n : <<q, n, r>> \in g.answered => <<q, n, r>> \in h.answered
      BY <2>3 DEF Extends
    <3>4. Fewer("ReadRequest", chan[q][r], chan[q][r]) /\ Fewer("ReadResponse", chan[r][q], chan[r][q])
      BY FewerCases
    <3> QED BY <3>1, <3>2, <3>3, <3>4, FewerOnce
  <2> QED BY <2>1, <2>2, <2>3
<1>3. NetOnce(next, g)
  BY <1>2 DEF NetOnce
<1> QED BY <1>3 DEF next

\* A message that is taken from its channel is not there any more.
LEMMA OnceTail ==
  ASSUME NEW h, NEW chan, NetOK(chan, h), NetOnce(chan, h),
         NEW src \in Proc, NEW dest \in Proc, chan[src][dest] # <<>>
  PROVE  LET next == [chan EXCEPT ![src][dest] = Tail(@)]
             m == Head(chan[src][dest])
         IN  /\ NetOnce(next, h)
             /\ \A n : IsAsk(m, n) =>
                  Gone(next[src][dest], next[dest][src], n) /\ <<src, n, dest>> \notin h.answered
             /\ \A n : IsAnswer(m, n) =>
                  Gone(next[dest][src], next[src][dest], n) /\ <<dest, n, src>> \notin h.answered
<1> DEFINE next == [chan EXCEPT ![src][dest] = Tail(@)]
           c == chan[src][dest]
           b == chan[dest][src]
           m == Head(c)
<1>1. /\ c \in Seq(Message) /\ b \in Seq(Message)
      /\ next[src][dest] = Tail(c) /\ \A q, r \in Proc : q # src \/ r # dest => next[q][r] = chan[q][r]
  BY NetTail DEF NetOK
<1>2. src # dest
  BY DEF NetOK, ChannelOK
<1>3. Once(src, dest, c, b, h) /\ Once(dest, src, b, c, h)
  BY <1>2 DEF NetOnce
<1> HIDE DEF next
<1>4. ASSUME NEW q \in Proc, NEW r \in Proc, q # r
      PROVE  Once(q, r, next[q][r], next[r][q], h)
  <2>1. Once(q, r, chan[q][r], chan[r][q], h) /\ chan[q][r] \in Seq(Message) /\ chan[r][q] \in Seq(Message)
    BY <1>4 DEF NetOnce, NetOK
  <2>2. Fewer("ReadRequest", next[q][r], chan[q][r])
    BY <1>1, <2>1, FewerCases
  <2>3. Fewer("ReadResponse", next[r][q], chan[r][q])
    BY <1>1, <2>1, FewerCases
  <2> QED BY <2>1, <2>2, <2>3, FewerOnce
<1>5. /\ 1 \in DOMAIN c /\ m = c[1]
      /\ \A j \in DOMAIN Tail(c) : j \in Nat /\ j > 0 /\ j + 1 \in DOMAIN c /\ Tail(c)[j] = c[j + 1]
  BY <1>1, TailOf
<1> DEFINE t == Tail(c)
<1> HIDE DEF t, c, b, m
<1>6. ASSUME NEW n, IsAsk(m, n)
      PROVE  Gone(t, b, n) /\ <<src, n, dest>> \notin h.answered
  <2>1. \A j \in DOMAIN t : j + 1 # 1 /\ j + 1 \in DOMAIN c /\ t[j] = c[j + 1]
    BY <1>5 DEF t
  <2>2. \A j \in DOMAIN t : ~IsAsk(t[j], n)
    BY <1>3, <1>5, <1>6, <2>1 DEF Once
  <2>3. \A j \in DOMAIN b : ~IsAnswer(b[j], n)
    BY <1>3, <1>5, <1>6 DEF Once
  <2>4. <<src, n, dest>> \notin h.answered
    BY <1>3, <1>5, <1>6 DEF Once, Gone
  <2> QED BY <2>2, <2>3, <2>4 DEF Gone
<1>7. ASSUME NEW n, IsAnswer(m, n)
      PROVE  Gone(b, t, n) /\ <<dest, n, src>> \notin h.answered
  <2>1. \A j \in DOMAIN t : j + 1 # 1 /\ j + 1 \in DOMAIN c /\ t[j] = c[j + 1]
    BY <1>5 DEF t
  <2>2. \A j \in DOMAIN t : ~IsAnswer(t[j], n)
    BY <1>3, <1>5, <1>7, <2>1 DEF Once
  <2>3. \A j \in DOMAIN b : ~IsAsk(b[j], n)
    BY <1>3, <1>5, <1>7 DEF Once
  <2>4. <<dest, n, src>> \notin h.answered
    BY <1>3, <1>5, <1>7 DEF Once, Gone
  <2> QED BY <2>2, <2>3, <2>4 DEF Gone
<1>8. next[src][dest] = t /\ next[dest][src] = b
  BY <1>1, <1>2 DEF t, b, c
<1>9. NetOnce(next, h)
  BY <1>4 DEF NetOnce
<1> QED BY <1>6, <1>7, <1>8, <1>9 DEF next, m, c

\* A read that is gone may be asked, or answered, or its answer counted.
LEMMA OnceMore ==
  ASSUME NEW p, NEW r, NEW there \in Seq(Message), NEW back \in Seq(Message), NEW h, Once(p, r, there, back, h),
         NEW n, Gone(there, back, n), NEW g, NEW m \in Message,
         \A k : <<p, k, r>> \in g.answered => <<p, k, r>> \in h.answered \/ k = n
  PROVE  /\ Once(p, r, there, back, g)
         /\ IsAsk(m, n) /\ <<p, n, r>> \notin g.answered => Once(p, r, there \o <<m>>, back, g)
         /\ IsAnswer(m, n) /\ <<p, n, r>> \notin g.answered => Once(p, r, there, back \o <<m>>, g)
<1>1. Once(p, r, there, back, g)
  BY DEF Once, Gone
<1>2. ASSUME NEW c \in Seq(Message)
      PROVE  \A j \in DOMAIN (c \o <<m>>) :
               \/ j \in DOMAIN c /\ (c \o <<m>>)[j] = c[j]
               \/ j = Len(c) + 1 /\ (c \o <<m>>)[j] = m
  OBVIOUS
<1>3. ASSUME IsAsk(m, n), <<p, n, r>> \notin g.answered
      PROVE  Once(p, r, there \o <<m>>, back, g)
  <2> DEFINE b == there \o <<m>>
  <2>1. \A j \in DOMAIN b : \/ j \in DOMAIN there /\ b[j] = there[j]
                            \/ j = Len(there) + 1 /\ b[j] = m
    BY <1>2
  <2>2. \A k : IsAsk(m, k) => k = n
    BY <1>3 DEF IsAsk
  <2> HIDE DEF b
  <2>3. \A k : \A j, i \in DOMAIN b : IsAsk(b[j], k) /\ IsAsk(b[i], k) => j = i
    BY <1>1, <2>1, <2>2 DEF Once, Gone
  <2>4. \A k : \A j \in DOMAIN b, i \in DOMAIN back : ~(IsAsk(b[j], k) /\ IsAnswer(back[i], k))
    BY <1>1, <2>1, <2>2 DEF Once, Gone
  <2>5. \A k : <<p, k, r>> \in g.answered => Gone(b, back, k)
    BY <1>1, <1>3, <2>1, <2>2 DEF Once, Gone
  <2>6. Once(p, r, b, back, g)
    BY <1>1, <2>3, <2>4, <2>5 DEF Once
  <2> QED BY <2>6 DEF b
<1>4. ASSUME IsAnswer(m, n), <<p, n, r>> \notin g.answered
      PROVE  Once(p, r, there, back \o <<m>>, g)
  <2> DEFINE b == back \o <<m>>
  <2>1. \A j \in DOMAIN b : \/ j \in DOMAIN back /\ b[j] = back[j]
                            \/ j = Len(back) + 1 /\ b[j] = m
    BY <1>2
  <2>2. \A k : IsAnswer(m, k) => k = n
    BY <1>4 DEF IsAnswer
  <2> HIDE DEF b
  <2>3. \A k : \A j, i \in DOMAIN b : IsAnswer(b[j], k) /\ IsAnswer(b[i], k) => j = i
    BY <1>1, <2>1, <2>2 DEF Once, Gone
  <2>4. \A k : \A j \in DOMAIN there, i \in DOMAIN b : ~(IsAsk(there[j], k) /\ IsAnswer(b[i], k))
    BY <1>1, <2>1, <2>2 DEF Once, Gone
  <2>5. \A k : <<p, k, r>> \in g.answered => Gone(there, b, k)
    BY <1>1, <1>4, <2>1, <2>2 DEF Once, Gone
  <2>6. Once(p, r, there, b, g)
    BY <1>1, <2>3, <2>4, <2>5 DEF Once
  <2> QED BY <2>6 DEF b
<1> QED BY <1>1, <1>3, <1>4

Quiet(p, out) ==
  /\ out \in [Proc -> Seq(Message)]
  /\ \A q \in Proc \ {p} : \A j \in DOMAIN out[q] : out[q][j].type \notin {"ReadRequest", "ReadResponse"}

\* What p sends is no read.
LEMMA OnceQuiet ==
  ASSUME NEW p \in Proc, NEW h, NEW g, Extends(p, h, g), NEW chan \in [Proc -> [Proc -> Seq(Message)]],
         NetOnce(chan, h), NEW out, Quiet(p, out), g.answered = h.answered
  PROVE  NetOnce(Posted(p, chan, out), g)
<1>1. ASSUME NEW r \in Proc \ {p}
      PROVE  /\ Once(p, r, chan[p][r] \o out[r], chan[r][p], g)
             /\ Once(r, p, chan[r][p], chan[p][r] \o out[r], g)
  <2>1. Once(p, r, chan[p][r], chan[r][p], h) /\ Once(r, p, chan[r][p], chan[p][r], h)
    BY DEF NetOnce
  <2>2. chan[p][r] \in Seq(Message) /\ chan[r][p] \in Seq(Message) /\ out[r] \in Seq(Message)
    BY DEF Quiet
  <2>3. \A type \in {"ReadRequest", "ReadResponse"} :
          Fewer(type, chan[p][r] \o out[r], chan[p][r]) /\ Fewer(type, chan[r][p], chan[r][p])
    <3>1. \A type \in {"ReadRequest", "ReadResponse"} : \A j \in DOMAIN out[r] : out[r][j].type # type
      BY DEF Quiet
    <3> QED BY <2>2, <3>1, FewerCases
  <2>4. /\ Fewer("ReadRequest", chan[p][r] \o out[r], chan[p][r])
        /\ Fewer("ReadResponse", chan[p][r] \o out[r], chan[p][r])
        /\ Fewer("ReadRequest", chan[r][p], chan[r][p])
        /\ Fewer("ReadResponse", chan[r][p], chan[r][p])
    BY <2>3
  <2> QED BY <2>1, <2>4, FewerOnce
<1>2. out \in [Proc -> Seq(Message)]
  BY DEF Quiet
<1> QED BY <1>1, <1>2, OncePosted

\* Between p and r, of which p has sent nothing that is the other's business.
LEMMA OnceOther ==
  ASSUME NEW q, NEW r, NEW there \in Seq(Message), NEW back \in Seq(Message), NEW h, Once(q, r, there, back, h),
         NEW g, \A n : <<q, n, r>> \in g.answered => <<q, n, r>> \in h.answered,
         NEW o \in Seq(Message)
  PROVE  /\ (\A j \in DOMAIN o : o[j].type # "ReadRequest") => Once(q, r, there \o o, back, g)
         /\ (\A j \in DOMAIN o : o[j].type # "ReadResponse") => Once(q, r, there, back \o o, g)
<1>1. ASSUME \A j \in DOMAIN o : o[j].type # "ReadRequest"
      PROVE  Once(q, r, there \o o, back, g)
  <2>1. Fewer("ReadRequest", there \o o, there) /\ Fewer("ReadResponse", back, back)
    BY <1>1, FewerCases
  <2> QED BY <2>1, FewerOnce
<1>2. ASSUME \A j \in DOMAIN o : o[j].type # "ReadResponse"
      PROVE  Once(q, r, there, back \o o, g)
  <2>1. Fewer("ReadRequest", there, there) /\ Fewer("ReadResponse", back \o o, back)
    BY <1>2, FewerCases
  <2> QED BY <2>1, FewerOnce
<1> QED BY <1>1, <1>2

AsksAll(m) == [q \in Proc |-> IF q \in AliveReplicas THEN <<m>> ELSE <<>>]

\* Of p's n-th read nothing is heard, but that p may have answered it.
NewRead(p, n, chan, h, g) ==
  /\ \A q, k, r : <<q, k, r>> \in g.answered => <<q, k, r>> \in h.answered \/ (q = p /\ k = n /\ r = p)
  /\ \A r \in Proc : <<p, n, r>> \notin h.answered
  /\ \A r \in Proc \ {p} : Gone(chan[p][r], chan[r][p], n)

\* A new read goes out.
LEMMA OnceAsked ==
  ASSUME NEW p \in Proc, NEW h, NEW g, Extends(p, h, g), NEW chan \in [Proc -> [Proc -> Seq(Message)]],
         NetOnce(chan, h), NEW n, NEW m \in Message, IsAsk(m, n),
         NewRead(p, n, chan, h, g)
  PROVE  NetOnce(Posted(p, chan, AsksAll(m)), g)
<1> DEFINE out == AsksAll(m)
<1>1. /\ m.type = "ReadRequest" /\ out = [q \in Proc |-> IF q \in AliveReplicas THEN <<m>> ELSE <<>>]
      /\ out \in [Proc -> Seq(Message)]
  BY DEF IsAsk, AsksAll
<1> HIDE DEF out
<1>2. ASSUME NEW r \in Proc \ {p}
      PROVE  /\ Once(p, r, chan[p][r] \o out[r], chan[r][p], g)
             /\ Once(r, p, chan[r][p], chan[p][r] \o out[r], g)
  <2>1. Once(p, r, chan[p][r], chan[r][p], h) /\ Once(r, p, chan[r][p], chan[p][r], h)
    BY DEF NetOnce
  <2>2. chan[p][r] \in Seq(Message) /\ chan[r][p] \in Seq(Message) /\ out[r] \in Seq(Message)
    BY <1>1
  <2>3. \A j \in DOMAIN out[r] : out[r][j] = m
    BY <1>1
  <2>4. \A k : <<r, k, p>> \in g.answered => <<r, k, p>> \in h.answered
    BY DEF NewRead
  <2>5. Once(r, p, chan[r][p], chan[p][r] \o out[r], g)
    <3>1. \A j \in DOMAIN out[r] : out[r][j].type # "ReadResponse"
      BY <1>1, <2>3
    <3> QED BY <2>1, <2>2, <2>4, <3>1, OnceOther
  <2>6. CASE r \in AliveReplicas
    <3>1. out[r] = <<m>>
      BY <1>1, <2>6
    <3>2. \A k : <<p, k, r>> \in g.answered => <<p, k, r>> \in h.answered
      BY DEF NewRead
    <3>3. <<p, n, r>> \notin h.answered /\ Gone(chan[p][r], chan[r][p], n)
      BY DEF NewRead
    <3>4. <<p, n, r>> \notin g.answered
      BY <3>2, <3>3
    <3>5. Once(p, r, chan[p][r] \o <<m>>, chan[r][p], g)
      BY <2>1, <2>2, <3>2, <3>3, <3>4, OnceMore
    <3> QED BY <2>5, <3>1, <3>5
  <2>7. CASE r \notin AliveReplicas
    <3>1. out[r] = <<>>
      BY <1>1, <2>7
    <3>2. \A j \in DOMAIN out[r] : out[r][j].type # "ReadRequest"
      BY <3>1
    <3>3. \A k : <<p, k, r>> \in g.answered => <<p, k, r>> \in h.answered
      BY DEF NewRead
    <3> QED BY <2>1, <2>2, <2>5, <3>2, <3>3, OnceOther
  <2> QED BY <2>6, <2>7
<1>3. NetOnce(Posted(p, chan, out), g)
  BY <1>1, <1>2, OncePosted
<1> QED BY <1>3 DEF out

\* A read that has arrived is answered.
LEMMA OnceAnswered ==
  ASSUME NEW p \in Proc, NEW h, WellHistory(h), NEW chan \in [Proc -> [Proc -> Seq(Message)]],
         NetOnce(chan, h), NEW src \in Proc, NEW n, NEW m \in Message, IsAnswer(m, n),
         Gone(chan[src][p], chan[p][src], n), <<src, n, p>> \notin h.answered
  PROVE  NetOnce(Posted(p, chan, OnlyTo(src, m)), h)
<1> DEFINE out == OnlyTo(src, m)
<1>1. m.type = "ReadResponse" /\ out \in [Proc -> Seq(Message)]
  BY DEF IsAnswer, OnlyTo
<1>2. \A r \in Proc : out[r] = IF r = src THEN <<m>> ELSE <<>>
  BY DEF OnlyTo
<1> HIDE DEF out
<1>3. ASSUME NEW r \in Proc \ {p}
      PROVE  /\ Once(p, r, chan[p][r] \o out[r], chan[r][p], h)
             /\ Once(r, p, chan[r][p], chan[p][r] \o out[r], h)
  <2>1. Once(p, r, chan[p][r], chan[r][p], h) /\ Once(r, p, chan[r][p], chan[p][r], h)
    BY DEF NetOnce
  <2>2. chan[p][r] \in Seq(Message) /\ chan[r][p] \in Seq(Message) /\ out[r] \in Seq(Message)
    BY <1>1
  <2>3. \A j \in DOMAIN out[r] : out[r][j] = m
    <3>1. \A j \in DOMAIN <<m>> : <<m>>[j] = m
      OBVIOUS
    <3>2. out[r] = <<m>> \/ out[r] = <<>>
      BY <1>2
    <3> QED BY <3>1, <3>2
  <2>4. Once(p, r, chan[p][r] \o out[r], chan[r][p], h)
    <3>1. \A j \in DOMAIN out[r] : out[r][j].type # "ReadRequest"
      BY <1>1, <2>3
    <3> QED BY <2>1, <2>2, <3>1, OnceOther
  <2>5. CASE r = src
    <3>1. out[r] = <<m>>
      BY <1>2, <2>5
    <3>2. Once(r, p, chan[r][p], chan[p][r] \o <<m>>, h)
      BY <2>1, <2>2, <2>5, OnceMore
    <3> QED BY <2>4, <3>1, <3>2
  <2>6. CASE r # src
    <3>1. out[r] = <<>>
      BY <1>2, <2>6
    <3>2. \A j \in DOMAIN out[r] : out[r][j].type # "ReadResponse"
      BY <3>1
    <3> QED BY <2>1, <2>2, <2>4, <3>2, OnceOther
  <2> QED BY <2>5, <2>6
<1>4. Extends(p, h, h)
  BY ExtendsSelf DEF WellHistory
<1> QED BY <1>1, <1>3, <1>4, OncePosted DEF out

\* An answer that has arrived is counted.
LEMMA OnceCounted ==
  ASSUME NEW p \in Proc, NEW h, NEW g, Extends(p, h, g), NEW chan \in [Proc -> [Proc -> Seq(Message)]],
         NetOnce(chan, h), NEW src \in Proc, NEW n, g.answered = h.answered \cup {<<p, n, src>>},
         Gone(chan[p][src], chan[src][p], n)
  PROVE  NetOnce(Posted(p, chan, Nothing), g)
<1>1. Nothing \in [Proc -> Seq(Message)]
  BY DEF Nothing
<1>2. ASSUME NEW r \in Proc \ {p}
      PROVE  /\ Once(p, r, chan[p][r] \o Nothing[r], chan[r][p], g)
             /\ Once(r, p, chan[r][p], chan[p][r] \o Nothing[r], g)
  <2>1. Once(p, r, chan[p][r], chan[r][p], h) /\ Once(r, p, chan[r][p], chan[p][r], h)
    BY DEF NetOnce
  <2>2. chan[p][r] \in Seq(Message) /\ chan[r][p] \in Seq(Message) /\ Nothing[r] \in Seq(Message)
    BY <1>1
  <2>3. \A j \in DOMAIN Nothing[r] : FALSE
    BY DEF Nothing
  <2>4. Once(p, r, chan[p][r], chan[r][p], g)
    <3>1. CASE r = src
      <4>1. \A k : <<p, k, r>> \in g.answered => <<p, k, r>> \in h.answered \/ k = n
        OBVIOUS
      <4>2. \E m : m \in Message
        <5>1. [type |-> "Forward", commands |-> <<>>] \in Message
          BY DEF Message
        <5> QED BY <5>1
      <4> QED BY <2>1, <2>2, <3>1, <4>1, <4>2, OnceMore
    <3>2. CASE r # src
      <4>1. \A k : <<p, k, r>> \in g.answered => <<p, k, r>> \in h.answered
        BY <3>2
      <4>2. Fewer("ReadRequest", chan[p][r], chan[p][r]) /\ Fewer("ReadResponse", chan[r][p], chan[r][p])
        BY <2>2, FewerCases
      <4> QED BY <2>1, <4>1, <4>2, FewerOnce
    <3> QED BY <3>1, <3>2
  <2>5. Once(p, r, chan[p][r] \o Nothing[r], chan[r][p], g)
    BY <2>2, <2>3, <2>4, OnceOther
  <2>6. \A k : <<r, k, p>> \in g.answered => <<r, k, p>> \in h.answered
    OBVIOUS
  <2>7. Once(r, p, chan[r][p], chan[p][r] \o Nothing[r], g)
    BY <2>1, <2>2, <2>3, <2>6, OnceOther
  <2> QED BY <2>5, <2>7
<1> QED BY <1>1, <1>2, OncePosted

-----------------------------------------------------------------------------
(* The inductive invariant: some history tells of all that the processes and *)
(* the messages in flight know                                               *)

DepInv(h, shards, chan) ==
  /\ setup \in Setups
  /\ WellHistory(h)
  /\ shards = [p \in Proc |-> shards[p]]
  /\ \A p \in Proc : Local(p, shards[p], h) /\ shards[p].out = Nothing
  /\ NetOK(chan, h) /\ NetOnce(chan, h)

Inv ==
  /\ \E h, shards, chan : shards = shard /\ chan = net /\ DepInv(h, shards, chan)
  /\ unsent \in [Proc -> Seq(Cmd)] /\ unread \in [Proc -> Seq(Key)]

\* While the set-up stays, so does what a history is.
LEMMA HistoryPrimed ==
  ASSUME setup' = setup, NEW h, WellHistory(h)
  PROVE  WellHistory(h)'
<1>1. HistoryType(h)'
  BY DEF WellHistory, HistoryType
<1>2. BornOnce(h)'
  BY DEF WellHistory, BornOnce, EPaxos
<1>3. NotedInOrder(h)'
  BY DEF WellHistory, NotedInOrder
<1>4. VotesOnce(h)'
  BY DEF WellHistory, VotesOnce, EPaxos
<1>5. VotesVisible(h)' /\ OwnVisible(h)'
  BY DEF WellHistory, VotesVisible, OwnVisible, Conflict, Touches
<1>6. VotesAcyclic(h)'
  BY DEF WellHistory, VotesAcyclic, EPaxos
<1>7. ChosenOnce(h)'
  BY DEF WellHistory, ChosenOnce, Backed, EPaxos
<1>8. AskedOnce(h)'
  BY DEF WellHistory, AskedOnce
<1> QED BY <1>1, <1>2, <1>3, <1>4, <1>5, <1>6, <1>7, <1>8 DEF WellHistory

\* And what holds of an instance, a read, and a message.
LEMMA PartsPrimed ==
  ASSUME setup' = setup, NEW h
  PROVE  /\ \A p, id, i : InstanceOK(p, id, i, h) => InstanceOK(p, id, i, h)'
         /\ \A p, n, read : ReadOK(p, n, read, h) => ReadOK(p, n, read, h)'
         /\ \A src, m : LateOK(src, m, h) => LateOK(src, m, h)'
<1>1. ASSUME NEW p, NEW id, NEW i, InstanceOK(p, id, i, h)
      PROVE  InstanceOK(p, id, i, h)'
  BY <1>1 DEF InstanceOK, EPaxos, Leader, Backed
<1>2. ASSUME NEW p, NEW n, NEW read, ReadOK(p, n, read, h)
      PROVE  ReadOK(p, n, read, h)'
  BY <1>2 DEF ReadOK, EPaxos
<1>3. ASSUME NEW src, NEW m, LateOK(src, m, h)
      PROVE  LateOK(src, m, h)'
  BY <1>3 DEF LateOK, EPaxos
<1> QED BY <1>1, <1>2, <1>3

\* And what holds of messages that are held.
LEMMA HeldPrimed ==
  ASSUME setup' = setup, NEW h
  PROVE  /\ \A p, helds : AllHeldOK(p, helds, h) => AllHeldOK(p, helds, h)'
         /\ \A p, acks : AllAcksOK(p, acks, h) => AllAcksOK(p, acks, h)'
<1>1. ASSUME NEW p, NEW helds, AllHeldOK(p, helds, h)
      PROVE  AllHeldOK(p, helds, h)'
  BY <1>1, PartsPrimed DEF AllHeldOK, HeldOK
<1>2. ASSUME NEW p, NEW acks, AllAcksOK(p, acks, h)
      PROVE  AllAcksOK(p, acks, h)'
  BY <1>2, PartsPrimed DEF AllAcksOK
<1> QED BY <1>1, <1>2

\* And of a process.
LEMMA LocalPrimed ==
  ASSUME setup' = setup, NEW h, NEW p, NEW s, Local(p, s, h)
  PROVE  Local(p, s, h)'
<1>1. IsShard(s)' /\ Noting(p, s.next_uid, s.conflicts, h)'
  BY DEF Local, IsShard, Noting, Touches
<1>2. Knowing(p, s.instances, s.decided, h)'
  BY PartsPrimed DEF Local, Knowing, EPaxos
<1>3. Holding(p, s.deferred, h)'
  BY HeldPrimed DEF Local, Holding
<1>4. AllHeldOK(p, s.queue, h)' /\ AllHeldOK(p, s.bundle, h)'
  BY HeldPrimed DEF Local
<1>5. AllAcksOK(p, s.pending_fast, h)' /\ AllAcksOK(p, s.pending_slow, h)'
  BY HeldPrimed DEF Local
<1>6. Reading(p, s.next_read, s.reads, h)'
  BY PartsPrimed DEF Local, Reading
<1>7. ExecutesSoundly(s.executed, s.log, s.instances, s.missed, h)'
  BY DEF Local, ExecutesSoundly, Executing
<1>8. (s.ack_recipients \subseteq Proc)'
  BY DEF Local
<1> QED BY <1>1, <1>2, <1>3, <1>4, <1>5, <1>6, <1>7, <1>8 DEF Local

\* And of the messages in flight.
LEMMA NetPrimed ==
  ASSUME setup' = setup, NEW h, NEW chan, NetOK(chan, h), NetOnce(chan, h)
  PROVE  NetOK(chan, h)' /\ NetOnce(chan, h)'
<1>1. NetOnce(chan, h)'
  BY DEF NetOnce, Once, Gone, IsAsk, IsAnswer
<1>2. ASSUME NEW src, NEW dest, NEW m, MessageOK(src, dest, m, h)
      PROVE  MessageOK(src, dest, m, h)'
  BY <1>2, PartsPrimed, HeldPrimed DEF MessageOK, Touches
<1>3. ASSUME NEW src, NEW dest, NEW c, ChannelOK(src, dest, c, h)
      PROVE  ChannelOK(src, dest, c, h)'
  BY <1>2, <1>3 DEF ChannelOK
<1> QED BY <1>1, <1>3 DEF NetOK

\* What a step of p has to leave: a history that tells of p, and of what is in flight then.
StepOK(p, h, s, from) ==
  \E g : /\ Extends(p, h, g) /\ WellHistory(g) /\ Local(p, s, g)
         /\ NetOK(Posted(p, from, s.out), g) /\ NetOnce(Posted(p, from, s.out), g)

\* Such a step keeps the invariant.
LEMMA StepInv ==
  ASSUME setup' = setup, NEW h, NEW shards, NEW chan, DepInv(h, shards, chan), shards = shard,
         NEW p \in Proc, NEW s, NEW from, Become(p, s, from), StepOK(p, h, s, from),
         (unsent \in [Proc -> Seq(Cmd)])', (unread \in [Proc -> Seq(Key)])'
  PROVE  Inv'
<1> DEFINE t == TrySleep([s EXCEPT !.out = Nothing])
           ss == [shards EXCEPT ![p] = t]
           cc == Posted(p, from, s.out)
<1>1. PICK g : /\ Extends(p, h, g) /\ WellHistory(g) /\ Local(p, s, g)
               /\ NetOK(cc, g) /\ NetOnce(cc, g)
  BY DEF StepOK
<1>2. shard' = ss /\ net' = cc
  BY DEF Become, Posted
<1>3. Local(p, t, g) /\ t.out = Nothing
  BY <1>1, SleepLocal
<1> HIDE DEF t, cc
<1>4. /\ ss = [q \in Proc |-> ss[q]] /\ ss[p] = t
      /\ \A q \in Proc \ {p} : ss[q] = shards[q]
  BY DEF DepInv
<1> HIDE DEF ss
<1>5. ASSUME NEW q \in Proc
      PROVE  Local(q, ss[q], g) /\ ss[q].out = Nothing
  <2>1. CASE q = p
    BY <1>3, <1>4, <2>1
  <2>2. CASE q # p
    <3>1. Local(q, shards[q], h) /\ shards[q].out = Nothing /\ WellHistory(h)
      BY DEF DepInv
    <3>2. Local(q, shards[q], g)
      BY <1>1, <2>2, <3>1, OthersKept
    <3> QED BY <1>4, <2>2, <3>1, <3>2
  <2> QED BY <2>1, <2>2
<1>6. PICK es, ec : es = ss /\ ec = cc
  OBVIOUS
<1>7. \A q \in Proc : Local(q, es[q], g) /\ es[q].out = Nothing
  BY <1>5, <1>6
<1>8. \A q \in Proc : Local(q, es[q], g)' /\ es[q].out = Nothing
  BY <1>7, LocalPrimed
<1>9. NetOK(ec, g)' /\ NetOnce(ec, g)'
  BY <1>1, <1>6, NetPrimed
<1>10. WellHistory(g)'
  BY <1>1, HistoryPrimed
<1>11. (setup \in Setups)' /\ es = [q \in Proc |-> es[q]]
  BY <1>4, <1>6 DEF DepInv
<1>12. DepInv(g, es, ec)'
  BY <1>8, <1>9, <1>10, <1>11 DEF DepInv, Nothing
<1>13. es = shard' /\ ec = net'
  BY <1>2, <1>6
<1> QED BY <1>12, <1>13 DEF Inv

-----------------------------------------------------------------------------
(* Every step keeps the invariant *)

\* A step that sends no read, and after which p has heard of nothing still to arrive.
LEMMA FineStep ==
  ASSUME NEW p \in Proc, NEW h, WellHistory(h), NEW from, NetOK(from, h), NetOnce(from, h),
         NEW g, Extends(p, h, g), g.answered = h.answered, NEW t, Fine(p, t, h.heard[p][p], g),
         \A q \in Proc : \A j \in DOMAIN from[q][p] :
           from[q][p][j].type = "PreAccept" => g.heard[p][q] <= IndexOf(from[q][p][j].id)
  PROVE  StepOK(p, h, t, from)
<1>1. WellHistory(g) /\ Local(p, t, g) /\ Sending(p, t.out, h.heard[p][p], g)
  BY DEF Fine
<1>2. Posts(p, t.out, h.heard[p][p], g)
  BY <1>1 DEF Sending, Posts
<1>3. NetOK(Posted(p, from, t.out), g)
  BY <1>1, <1>2, NetStep
<1>4. NetOnce(Posted(p, from, t.out), g)
  <2>1. from \in [Proc -> [Proc -> Seq(Message)]]
    BY DEF NetOK
  <2>2. Quiet(p, t.out)
    BY <1>1 DEF Sending, Quiet
  <2> QED BY <2>1, <2>2, OnceQuiet
<1> QED BY <1>1, <1>3, <1>4 DEF StepOK

\* What a process has heard of is not still to arrive.
LEMMA NothingHeard ==
  ASSUME NEW p \in Proc, NEW h, NEW from, NetOK(from, h),
         NEW g, \A r \in Proc \ {p} : g.heard[p][r] = h.heard[p][r]
  PROVE  \A q \in Proc : \A j \in DOMAIN from[q][p] :
           from[q][p][j].type = "PreAccept" => g.heard[p][q] <= IndexOf(from[q][p][j].id)
<1> SUFFICES ASSUME NEW q \in Proc, NEW j \in DOMAIN from[q][p], from[q][p][j].type = "PreAccept"
             PROVE  g.heard[p][q] <= IndexOf(from[q][p][j].id)
  OBVIOUS
<1>1. ChannelOK(q, p, from[q][p], h)
  BY DEF NetOK
<1>2. q # p
  BY <1>1 DEF ChannelOK
<1> QED BY <1>1, <1>2 DEF ChannelOK

\* A step that only tells of what was known.
LEMMA ReachesStep ==
  ASSUME NEW p \in Proc, NEW h, WellHistory(h), NEW from, NetOK(from, h), NetOnce(from, h),
         NEW t, Reaches(p, h, h.heard[p][p], t)
  PROVE  StepOK(p, h, t, from)
<1>1. PICK g : /\ Extends(p, h, g) /\ g.heard = h.heard /\ g.answered = h.answered
               /\ Fine(p, t, h.heard[p][p], g)
  BY DEF Reaches
<1>2. \A r \in Proc \ {p} : g.heard[p][r] = h.heard[p][r]
  BY <1>1
<1>3. \A q \in Proc : \A j \in DOMAIN from[q][p] :
        from[q][p][j].type = "PreAccept" => g.heard[p][q] <= IndexOf(from[q][p][j].id)
  BY <1>2, NothingHeard
<1> QED BY <1>1, <1>3, FineStep

\* Submitting commands.
LEMMA SubmitStep ==
  ASSUME NEW h, NEW shards, NEW chan, DepInv(h, shards, chan), NEW p \in Proc, NEW cs \in Seq(Cmd)
  PROVE  StepOK(p, h, SubmitCommands(p, shards[p], cs), chan)
<1>1. /\ setup \in Setups /\ WellHistory(h) /\ Local(p, shards[p], h) /\ shards[p].out = Nothing
      /\ NetOK(chan, h) /\ NetOnce(chan, h)
  BY DEF DepInv
<1>2. PICK g : /\ Extends(p, h, g) /\ Fine(p, SubmitCommands(p, shards[p], cs), h.heard[p][p], g)
               /\ g.answered = h.answered
               /\ \A r \in Proc \ {p} : g.heard[p][r] = h.heard[p][r]
  BY <1>1, SubmitCommandsFine
<1>3. \A q \in Proc : \A j \in DOMAIN chan[q][p] :
        chan[q][p][j].type = "PreAccept" => g.heard[p][q] <= IndexOf(chan[q][p][j].id)
  BY <1>1, <1>2, NothingHeard
<1> QED BY <1>1, <1>2, <1>3, FineStep

\* Issuing a read.
LEMMA ReadStep ==
  ASSUME NEW h, NEW shards, NEW chan, DepInv(h, shards, chan), NEW p \in Proc, NEW key \in Key,
         NEW since, Since(h, since)
  PROVE  StepOK(p, h, SubmitRead(p, shards[p], key, since), chan)
<1> DEFINE s == shards[p]
           n == s.next_read
           m == [type |-> "ReadRequest", read |-> n, key |-> key]
           t == SubmitRead(p, s, key, since)
           out == AsksAll(m)
<1>1. /\ setup \in Setups /\ WellHistory(h) /\ Local(p, s, h) /\ s.out = Nothing
      /\ NetOK(chan, h) /\ NetOnce(chan, h)
  BY DEF DepInv
<1>2. /\ n \in Nat /\ t.out = out
      /\ \E g : /\ Extends(p, h, g) /\ WellHistory(g) /\ Local(p, t, g) /\ Told(p, t.out, g)
                /\ g.heard = h.heard
                /\ \A q, k, r : <<q, k, r>> \in g.answered =>
                     <<q, k, r>> \in h.answered \/ (q = p /\ k = n /\ r = p)
                /\ \A k, N : <<p, n, k, N>> \notin h.asked
  BY <1>1, SubmitReadFine DEF AsksAll
<1> HIDE DEF s, n, t
<1>3. PICK g : /\ Extends(p, h, g) /\ WellHistory(g) /\ Local(p, t, g) /\ Told(p, out, g)
               /\ g.heard = h.heard
               /\ \A q, k, r : <<q, k, r>> \in g.answered =>
                    <<q, k, r>> \in h.answered \/ (q = p /\ k = n /\ r = p)
               /\ \A k, N : <<p, n, k, N>> \notin h.asked
  BY <1>2
<1>4. m \in Message /\ IsAsk(m, n) /\ m.type # "PreAccept"
  BY <1>2 DEF Message, IsAsk
<1> HIDE DEF m
<1>5. Posts(p, out, h.heard[p][p], g)
  <2>1. \A q \in Proc : \A j \in DOMAIN out[q] : out[q][j] = m
    BY DEF AsksAll
  <2> HIDE DEF out
  <2> QED BY <1>3, <1>4, <2>1 DEF Told, Posts
<1>6. NetOK(Posted(p, chan, out), g)
  BY <1>1, <1>3, <1>5, NetQuiet
<1>7. ASSUME NEW r \in Proc \ {p}
      PROVE  Gone(chan[p][r], chan[r][p], n)
  <2>1. ChannelOK(p, r, chan[p][r], h) /\ ChannelOK(r, p, chan[r][p], h)
    BY <1>1 DEF NetOK
  <2>2. ASSUME NEW j \in DOMAIN chan[p][r], IsAsk(chan[p][r][j], n)
        PROVE  FALSE
    BY <1>3, <2>1, <2>2 DEF ChannelOK, MessageOK, IsAsk
  <2>3. ASSUME NEW j \in DOMAIN chan[r][p], IsAnswer(chan[r][p][j], n)
        PROVE  FALSE
    BY <1>3, <2>1, <2>3 DEF ChannelOK, MessageOK, IsAnswer
  <2> QED BY <2>2, <2>3 DEF Gone
<1>8. \A r : <<p, n, r>> \notin h.answered
  BY <1>1, <1>3 DEF WellHistory, AskedOnce
<1>9. NetOnce(Posted(p, chan, out), g)
  <2>1. chan \in [Proc -> [Proc -> Seq(Message)]]
    BY <1>1 DEF NetOK
  <2>2. NewRead(p, n, chan, h, g)
    BY <1>3, <1>7, <1>8 DEF NewRead
  <2>3. Extends(p, h, g)
    BY <1>3
  <2> QED BY <1>1, <1>4, <2>1, <2>2, <2>3, OnceAsked
<1> HIDE DEF out
<1>10. StepOK(p, h, t, chan)
  BY <1>2, <1>3, <1>6, <1>9 DEF StepOK
<1> QED BY <1>10 DEF t, s

\* Being asked, and counting an answer.
LEMMA ReadMessageStep ==
  ASSUME NEW h, NEW shards, NEW chan, DepInv(h, shards, chan), NEW p \in Proc, NEW src \in Proc,
         chan[src][p] # <<>>, Head(chan[src][p]).type \in {"ReadRequest", "ReadResponse"}
  PROVE  StepOK(p, h, Handle(p, shards[p], src, Head(chan[src][p])), [chan EXCEPT ![src][p] = Tail(@)])
<1> DEFINE s == shards[p]
           m == Head(chan[src][p])
           from == [chan EXCEPT ![src][p] = Tail(@)]
           t == Handle(p, s, src, m)
<1>1. /\ setup \in Setups /\ WellHistory(h) /\ Local(p, s, h) /\ s.out = Nothing
      /\ NetOK(chan, h) /\ NetOnce(chan, h)
  BY DEF DepInv
<1>2. src # p /\ m \in Message /\ MessageOK(src, p, m, h)
  BY <1>1, ChannelTail DEF NetOK
<1>3. NetOK(from, h)
  BY <1>1, NetTail
<1>4. /\ NetOnce(from, h)
      /\ \A n : IsAsk(m, n) =>
           Gone(from[src][p], from[p][src], n) /\ <<src, n, p>> \notin h.answered
      /\ \A n : IsAnswer(m, n) =>
           Gone(from[p][src], from[src][p], n) /\ <<p, n, src>> \notin h.answered
  BY <1>1, OnceTail
<1>5. m.type \in {"ReadRequest", "ReadResponse"}
  OBVIOUS
<1>6. m.read \in Nat
  BY <1>2, <1>5, MessageType, LateMsgType
<1> HIDE DEF s, from, t, m
<1>7. from \in [Proc -> [Proc -> Seq(Message)]]
  BY <1>3 DEF NetOK
<1>8. CASE m.type = "ReadRequest"
  <2> DEFINE answer == AnswerTo(s, m)
             out == OnlyTo(src, answer)
  <2>1. m.key \in Key
    BY <1>2, <1>8, MessageType, LateMsgType
  <2>2. Local(p, t, h) /\ Told(p, t.out, h) /\ t.out = out
    BY <1>1, <1>2, <1>6, <1>8, <2>1, AnswerFine DEF t
  <2>3. answer \in Message /\ IsAnswer(answer, m.read) /\ answer.type = "ReadResponse"
    <3>1. DepsFor(s, {m.key}) \in DepSet
      BY <1>1, <2>1, DepsForType DEF Local, Noting
    <3> QED BY <1>6, <3>1 DEF Message, IsAnswer, AnswerTo
  <2> HIDE DEF answer
  <2>4. Posts(p, out, h.heard[p][p], h)
    <3>1. \A q \in Proc : \A j \in DOMAIN out[q] : out[q][j] = answer
      BY DEF OnlyTo
    <3> HIDE DEF out
    <3> QED BY <2>2, <2>3, <3>1 DEF Told, Posts
  <2>5. Extends(p, h, h)
    BY <1>1, ExtendsSelf DEF WellHistory
  <2>6. NetOK(Posted(p, from, out), h)
    BY <1>1, <1>3, <2>4, <2>5, NetQuiet
  <2>7. Gone(from[src][p], from[p][src], m.read) /\ <<src, m.read, p>> \notin h.answered
    BY <1>4, <1>8 DEF IsAsk
  <2>8. NetOnce(Posted(p, from, out), h)
    BY <1>1, <1>4, <1>7, <2>3, <2>7, OnceAnswered
  <2> HIDE DEF out
  <2>9. StepOK(p, h, t, from)
    BY <1>1, <2>2, <2>5, <2>6, <2>8 DEF StepOK
  <2> QED BY <2>9 DEF t, s, from, m
<1>9. CASE m.type = "ReadResponse"
  <2>1. m.seen \in DepSet
    BY <1>2, <1>9, MessageType, LateMsgType
  <2>2. Gone(from[p][src], from[src][p], m.read) /\ <<p, m.read, src>> \notin h.answered
    BY <1>4, <1>9 DEF IsAnswer
  <2>3. /\ t.out = Nothing
        /\ \E g : /\ Extends(p, h, g) /\ WellHistory(g) /\ Local(p, t, g)
                  /\ g.heard = h.heard /\ g.answered = h.answered \cup {<<p, m.read, src>>}
    BY <1>1, <1>2, <1>6, <1>9, <2>1, <2>2, AnsweredFine DEF t
  <2>4. PICK g : /\ Extends(p, h, g) /\ WellHistory(g) /\ Local(p, t, g)
                 /\ g.heard = h.heard /\ g.answered = h.answered \cup {<<p, m.read, src>>}
    BY <2>3
  <2>5. Posts(p, Nothing, h.heard[p][p], g)
    <3>1. Nothing \in [Proc -> Seq(Message)] /\ \A q \in Proc : DOMAIN Nothing[q] = {}
      BY DEF Nothing
    <3> QED BY <3>1 DEF Posts
  <2>6. NetOK(Posted(p, from, Nothing), g)
    BY <1>1, <1>3, <2>4, <2>5, NetQuiet
  <2>7. NetOnce(Posted(p, from, Nothing), g)
    BY <1>4, <1>7, <2>2, <2>4, OnceCounted
  <2>8. StepOK(p, h, t, from)
    BY <2>3, <2>4, <2>6, <2>7 DEF StepOK
  <2> QED BY <2>8 DEF t, s, from, m
<1> QED BY <1>5, <1>8, <1>9

\* A process that takes messages from a queue of its own.
LEMMA TakeHeld ==
  ASSUME NEW p, NEW h, NEW helds, AllHeldOK(p, helds, h), helds # <<>>
  PROVE  /\ AllHeldOK(p, Tail(helds), h) /\ Head(helds) \in HeldMsg /\ HeldOK(p, Head(helds), h)
         /\ Head(helds).src \in Proc \ {p} /\ Head(helds).msg \in LateMsg
         /\ LateOK(Head(helds).src, Head(helds).msg, h)
<1>1. /\ Tail(helds) \in Seq(HeldMsg) /\ 1 \in DOMAIN helds /\ Head(helds) = helds[1] /\ Head(helds) \in HeldMsg
      /\ \A j \in DOMAIN Tail(helds) : j + 1 \in DOMAIN helds /\ Tail(helds)[j] = helds[j + 1]
  BY TailOf DEF AllHeldOK
<1>2. HeldOK(p, Head(helds), h)
  BY <1>1 DEF AllHeldOK
<1>3. AllHeldOK(p, Tail(helds), h)
  BY <1>1 DEF AllHeldOK
<1> QED BY <1>1, <1>2, <1>3 DEF HeldOK, HeldMsg

ToDeliver(s, queue, bundle) == [s EXCEPT !.queue = queue, !.bundle = bundle]

\* What is to be delivered yet, and nothing else, has changed.
LEMMA HoldingFine ==
  ASSUME NEW p, NEW h, NEW s, Local(p, s, h), NEW queue, AllHeldOK(p, queue, h), NEW bundle, AllHeldOK(p, bundle, h)
  PROVE  LET t == ToDeliver(s, queue, bundle)
         IN  Local(p, t, h) /\ t.out = s.out
<1> DEFINE t == ToDeliver(s, queue, bundle)
<1>1. /\ IsShard(t) /\ t.out = s.out /\ t.queue = queue /\ t.bundle = bundle
      /\ t.next_uid = s.next_uid /\ t.conflicts = s.conflicts /\ t.instances = s.instances
      /\ t.decided = s.decided /\ t.deferred = s.deferred
      /\ t.pending_fast = s.pending_fast /\ t.pending_slow = s.pending_slow
      /\ t.ack_recipients = s.ack_recipients /\ t.next_read = s.next_read /\ t.reads = s.reads
      /\ t.executed = s.executed /\ t.log = s.log /\ t.missed = s.missed
  BY DEF Local, IsShard, ShardFields, ToDeliver
<1> HIDE DEF t
<1>2. Local(p, t, h)
  BY <1>1 DEF Local
<1> QED BY <1>1, <1>2 DEF t

\* A handler that goes on.
LEMMA ContinueStep ==
  ASSUME NEW h, NEW shards, NEW chan, DepInv(h, shards, chan), NEW p \in Proc, NEW s, shards[p] = s
  PROVE  /\ s.queue # <<>> => StepOK(p, h, Deliver(p, [s EXCEPT !.queue = Tail(@)], Head(s.queue)), chan)
         /\ s.bundle # <<>> =>
              StepOK(p, h, HandleInstance(p, [s EXCEPT !.bundle = Tail(@)], Head(s.bundle).src, Head(s.bundle).msg), chan)
<1>1. /\ setup \in Setups /\ WellHistory(h) /\ Local(p, s, h) /\ s.out = Nothing
      /\ NetOK(chan, h) /\ NetOnce(chan, h)
  BY DEF DepInv
<1>2. AllHeldOK(p, s.queue, h) /\ AllHeldOK(p, s.bundle, h) /\ IsShard(s)
  BY <1>1 DEF Local
<1>3. ASSUME s.queue # <<>>
      PROVE  StepOK(p, h, Deliver(p, [s EXCEPT !.queue = Tail(@)], Head(s.queue)), chan)
  <2> DEFINE t == [s EXCEPT !.queue = Tail(@)]
             held == Head(s.queue)
  <2>1. AllHeldOK(p, Tail(s.queue), h) /\ held \in HeldMsg /\ HeldOK(p, held, h)
    BY <1>2, <1>3, TakeHeld
  <2>2. t = ToDeliver(s, Tail(s.queue), s.bundle)
    BY <1>2 DEF IsShard, ShardFields, ToDeliver
  <2> HIDE DEF t, held
  <2>3. Local(p, t, h) /\ t.out = Nothing
    <3>1. PICK queue, bundle : ToDeliver(s, queue, bundle) = t /\ AllHeldOK(p, queue, h) /\ AllHeldOK(p, bundle, h)
      BY <1>2, <2>1, <2>2
    <3>2. Local(p, ToDeliver(s, queue, bundle), h) /\ ToDeliver(s, queue, bundle).out = s.out
      BY <1>1, <3>1, HoldingFine
    <3> QED BY <1>1, <3>1, <3>2
  <2>4. Fine(p, t, h.heard[p][p], h)
    BY <1>1, <2>3, NothingSent
  <2>5. Reaches(p, h, h.heard[p][p], Deliver(p, t, held))
    BY <1>1, <2>1, <2>4, DeliverFine
  <2>6. StepOK(p, h, Deliver(p, t, held), chan)
    BY <1>1, <2>5, ReachesStep
  <2> QED BY <2>6 DEF t, held
<1>4. ASSUME s.bundle # <<>>
      PROVE  StepOK(p, h, HandleInstance(p, [s EXCEPT !.bundle = Tail(@)], Head(s.bundle).src, Head(s.bundle).msg), chan)
  <2> DEFINE t == [s EXCEPT !.bundle = Tail(@)]
             held == Head(s.bundle)
  <2>1. /\ AllHeldOK(p, Tail(s.bundle), h) /\ held.src \in Proc \ {p} /\ held.msg \in LateMsg
        /\ LateOK(held.src, held.msg, h)
    BY <1>2, <1>4, TakeHeld
  <2>2. t = ToDeliver(s, s.queue, Tail(s.bundle))
    BY <1>2 DEF IsShard, ShardFields, ToDeliver
  <2> HIDE DEF t, held
  <2>3. Local(p, t, h) /\ t.out = Nothing
    <3>1. PICK queue, bundle : ToDeliver(s, queue, bundle) = t /\ AllHeldOK(p, queue, h) /\ AllHeldOK(p, bundle, h)
      BY <1>2, <2>1, <2>2
    <3>2. Local(p, ToDeliver(s, queue, bundle), h) /\ ToDeliver(s, queue, bundle).out = s.out
      BY <1>1, <3>1, HoldingFine
    <3> QED BY <1>1, <3>1, <3>2
  <2>4. Fine(p, t, h.heard[p][p], h)
    BY <1>1, <2>3, NothingSent
  <2>5. Reaches(p, h, h.heard[p][p], HandleInstance(p, t, held.src, held.msg))
    BY <1>1, <2>1, <2>4, HandleLateFine
  <2>6. StepOK(p, h, HandleInstance(p, t, held.src, held.msg), chan)
    BY <1>1, <2>5, ReachesStep
  <2> QED BY <2>6 DEF t, held
<1> QED BY <1>3, <1>4

\* Acks leave.
LEMMA FlushStep ==
  ASSUME NEW h, NEW shards, NEW chan, DepInv(h, shards, chan), NEW p \in Proc, NEW s, s = shards[p],
         s.pending_fast \o s.pending_slow # <<>>
  PROVE  StepOK(p, h, Flush(s), chan)
<1>1. /\ setup \in Setups /\ WellHistory(h) /\ Local(p, s, h) /\ s.out = Nothing
      /\ NetOK(chan, h) /\ NetOnce(chan, h)
  BY DEF DepInv
<1>2. Fine(p, s, h.heard[p][p], h)
  BY <1>1, NothingSent
<1>3. Fine(p, Flush(s), h.heard[p][p], h)
  BY <1>2, FlushFine
<1>4. Reaches(p, h, h.heard[p][p], Flush(s))
  BY <1>3, ReachesSelf
<1> QED BY <1>1, <1>4, ReachesStep

\* A message of another kind that arrives.
LEMMA MessageStep ==
  ASSUME NEW h, NEW shards, NEW chan, DepInv(h, shards, chan), NEW p \in Proc, NEW src \in Proc,
         chan[src][p] # <<>>, Head(chan[src][p]).type \notin {"ReadRequest", "ReadResponse"}
  PROVE  StepOK(p, h, Handle(p, shards[p], src, Head(chan[src][p])), [chan EXCEPT ![src][p] = Tail(@)])
<1> DEFINE s == shards[p]
           m == Head(chan[src][p])
           from == [chan EXCEPT ![src][p] = Tail(@)]
           n == h.heard[p][p]
           t == Handle(p, s, src, m)
<1>1. /\ setup \in Setups /\ WellHistory(h) /\ Local(p, s, h) /\ s.out = Nothing
      /\ NetOK(chan, h) /\ NetOnce(chan, h)
  BY DEF DepInv
<1>2. /\ src # p /\ m \in Message /\ MessageOK(src, p, m, h)
      /\ m.type = "PreAccept" =>
           /\ h.heard[p][src] <= IndexOf(m.id)
           /\ \A j \in DOMAIN Tail(chan[src][p]) : Tail(chan[src][p])[j].type = "PreAccept" =>
                IndexOf(m.id) < IndexOf(Tail(chan[src][p])[j].id)
  BY <1>1, ChannelTail DEF NetOK
<1>3. /\ NetOK(from, h) /\ from[src][p] = Tail(chan[src][p])
  BY <1>1, NetTail
<1>4. NetOnce(from, h)
  BY <1>1, OnceTail
<1>5. m.type \notin {"ReadRequest", "ReadResponse"}
  OBVIOUS
<1> HIDE DEF s, from, t, m
<1>6. Fine(p, s, n, h)
  BY <1>1, NothingSent
<1>7. CASE m \in LateMsg
  <2>1. LateOK(src, m, h)
    BY <1>2 DEF MessageOK
  <2>2. m.type \in {"PreAcceptOk", "Accept", "AcceptOk", "Commit"}
    BY <1>7, LateMsgType
  <2>3. t = HandleInstance(p, s, src, m)
    BY <2>2 DEF t, Handle
  <2>4. Reaches(p, h, n, t)
    BY <1>1, <1>2, <1>6, <1>7, <2>1, <2>3, HandleLateFine
  <2>5. StepOK(p, h, t, from)
    BY <1>1, <1>3, <1>4, <2>4, ReachesStep
  <2> QED BY <2>5 DEF t, s, from, m
<1>8. CASE m.type = "PreAccept" /\ m.id \in Id /\ m.deps \in DepSet /\ m.commands \in Seq(Cmd)
  <2>1. t = HandleInstance(p, s, src, m)
    BY <1>8 DEF t, Handle
  <2>2. /\ src = RequesterOf(m.id) /\ <<m.id, m.commands>> \in h.born /\ <<src, m.id, m.deps>> \in h.votes
    BY <1>2, <1>8 DEF MessageOK
  <2>3. PICK g : /\ Extends(p, h, g) /\ Fine(p, t, n, g) /\ g.answered = h.answered
                 /\ \A r \in Proc \ {src} : g.heard[p][r] = h.heard[p][r]
                 /\ g.heard[p][src] <= IndexOf(m.id) + 1
    BY <1>1, <1>2, <1>6, <1>8, <2>1, <2>2, HandlePreAcceptFine
  <2>4. ASSUME NEW q \in Proc, NEW j \in DOMAIN from[q][p], from[q][p][j].type = "PreAccept"
        PROVE  g.heard[p][q] <= IndexOf(from[q][p][j].id)
    <3>1. ChannelOK(q, p, from[q][p], h)
      BY <1>3 DEF NetOK
    <3>2. CASE q # src
      BY <2>3, <2>4, <3>1, <3>2 DEF ChannelOK
    <3>3. CASE q = src
      <4>1. IndexOf(m.id) < IndexOf(from[q][p][j].id)
        BY <1>2, <1>3, <1>8, <2>4, <3>3
      <4>2. from[q][p][j] \in Message
        BY <3>1 DEF ChannelOK
      <4>3. from[q][p][j].id \in Id
        BY <2>4, <4>2, MessageType, LateMsgType
      <4>4. IndexOf(m.id) \in Nat /\ IndexOf(from[q][p][j].id) \in Nat
        BY <1>8, <4>3, IdParts
      <4>5. g.heard[p][src] \in Nat
        BY <2>3 DEF Fine, WellHistory, HistoryType, DepSet
      <4>6. IndexOf(m.id) + 1 <= IndexOf(from[q][p][j].id)
        BY <4>1, <4>4
      <4> QED BY <2>3, <3>3, <4>4, <4>5, <4>6
    <3> QED BY <3>2, <3>3
  <2>5. StepOK(p, h, t, from)
    BY <1>1, <1>3, <1>4, <2>3, <2>4, FineStep
  <2> QED BY <2>5 DEF t, s, from, m
<1>9. CASE m.type = "Forward" /\ m.commands \in Seq(Cmd)
  <2>1. t = SubmitHere(p, s, m.commands)
    BY <1>9 DEF t, Handle
  <2>2. EPaxos => p \in AliveReplicas
    BY <1>2, <1>9 DEF MessageOK
  <2>3. PICK g : /\ Extends(p, h, g) /\ Fine(p, t, n, g) /\ g.answered = h.answered
                 /\ \A r \in Proc \ {p} : g.heard[p][r] = h.heard[p][r]
    BY <1>1, <1>9, <2>1, <2>2, SubmitHereFine
  <2>4. \A q \in Proc : \A j \in DOMAIN from[q][p] :
          from[q][p][j].type = "PreAccept" => g.heard[p][q] <= IndexOf(from[q][p][j].id)
    BY <1>3, <2>3, NothingHeard
  <2>5. StepOK(p, h, t, from)
    BY <1>1, <1>3, <1>4, <2>3, <2>4, FineStep
  <2> QED BY <2>5 DEF t, s, from, m
<1>10. CASE m.type = "DepAcks" /\ m.acks \in Seq(AckMsg)
  <2> DEFINE bundle == [k \in DOMAIN Tail(m.acks) |-> [src |-> src, msg |-> Tail(m.acks)[k]]]
             a == [s EXCEPT !.bundle = bundle]
             first == Head(m.acks)
  <2>1. m.acks # <<>> /\ AllAcksOK(src, m.acks, h)
    BY <1>2, <1>10 DEF MessageOK
  <2>2. /\ Tail(m.acks) \in Seq(AckMsg) /\ 1 \in DOMAIN m.acks /\ first = m.acks[1] /\ first \in AckMsg
        /\ \A j \in DOMAIN Tail(m.acks) : j + 1 \in DOMAIN m.acks /\ Tail(m.acks)[j] = m.acks[j + 1]
    BY <1>10, <2>1, TailOf
  <2>3. LateOK(src, first, h) /\ first \in LateMsg
    BY <2>1, <2>2 DEF AllAcksOK, LateMsg
  <2>4. AllHeldOK(p, bundle, h)
    <3>1. \A j \in DOMAIN Tail(m.acks) : LateOK(src, Tail(m.acks)[j], h) /\ Tail(m.acks)[j] \in LateMsg
      BY <2>1, <2>2 DEF AllAcksOK, LateMsg
    <3>2. \A j \in DOMAIN Tail(m.acks) : [src |-> src, msg |-> Tail(m.acks)[j]] \in HeldMsg
      BY <3>1 DEF HeldMsg
    <3>3. DOMAIN Tail(m.acks) = 1 .. Len(Tail(m.acks)) /\ Len(Tail(m.acks)) \in Nat
      BY <2>2
    <3>4. bundle \in Seq(HeldMsg) /\ DOMAIN bundle = DOMAIN Tail(m.acks)
      BY <3>2, <3>3, IsSequence
    <3>5. \A j \in DOMAIN bundle : HeldOK(p, bundle[j], h)
      BY <1>2, <3>1, <3>4 DEF HeldOK
    <3> HIDE DEF bundle
    <3> QED BY <3>4, <3>5 DEF AllHeldOK
  <2>5. t = HandleInstance(p, a, src, first)
    BY <1>10 DEF t, Handle
  <2> HIDE DEF bundle, first
  <2>6. Local(p, a, h) /\ a.out = Nothing
    <3>1. a = ToDeliver(s, s.queue, bundle)
      BY <1>1 DEF Local, IsShard, ShardFields, ToDeliver
    <3> HIDE DEF a
    <3>2. AllHeldOK(p, s.queue, h)
      BY <1>1 DEF Local
    <3>3. PICK queue : ToDeliver(s, queue, bundle) = a /\ AllHeldOK(p, queue, h)
      BY <3>1, <3>2
    <3>4. Local(p, ToDeliver(s, queue, bundle), h) /\ ToDeliver(s, queue, bundle).out = s.out
      BY <1>1, <2>4, <3>3, HoldingFine
    <3> QED BY <1>1, <3>3, <3>4
  <2> HIDE DEF a
  <2>7. Fine(p, a, n, h)
    BY <1>1, <2>6, NothingSent
  <2>8. Reaches(p, h, n, t)
    BY <1>1, <1>2, <2>3, <2>5, <2>7, HandleLateFine
  <2>9. StepOK(p, h, t, from)
    BY <1>1, <1>3, <1>4, <2>8, ReachesStep
  <2> QED BY <2>9 DEF t, s, from, m
<1> QED BY <1>2, <1>5, <1>7, <1>8, <1>9, <1>10, MessageType

-----------------------------------------------------------------------------
(* The invariant holds of every run *)

\* Nothing has happened yet.
NoHistory ==
  [born |-> {}, noted |-> {}, votes |-> {}, chosen |-> {}, heard |-> [p \in Proc |-> NoDeps],
   asked |-> {}, answered |-> {}]

\* So does a history start.
LEMMA NoHistoryWell ==
  WellHistory(NoHistory)
<1> DEFINE h == NoHistory
<1>1. /\ h.born = {} /\ h.noted = {} /\ h.votes = {} /\ h.chosen = {} /\ h.asked = {} /\ h.answered = {}
      /\ h.heard = [p \in Proc |-> NoDeps]
  BY DEF NoHistory
<1> HIDE DEF h
<1>2. HistoryType(h)
  BY <1>1 DEF HistoryType, NoDeps, DepSet
<1>3. BornOnce(h) /\ VotesOnce(h) /\ VotesVisible(h) /\ OwnVisible(h) /\ VotesAcyclic(h)
  BY <1>1 DEF BornOnce, VotesOnce, VotesVisible, OwnVisible, VotesAcyclic
<1>4. NotedInOrder(h)
  BY <1>1 DEF NotedInOrder, NoDeps
<1>5. ChosenOnce(h) /\ AskedOnce(h)
  BY <1>1 DEF ChosenOnce, AskedOnce
<1> QED BY <1>2, <1>3, <1>4, <1>5 DEF WellHistory, h

\* A process that starts knows that.
LEMMA NewShardLocal ==
  ASSUME NEW p \in Proc
  PROVE  Local(p, NewShard(p), NoHistory) /\ NewShard(p).out = Nothing
<1> DEFINE h == NoHistory
           s == NewShard(p)
<1>1. /\ h.born = {} /\ h.noted = {} /\ h.chosen = {} /\ h.asked = {} /\ h.heard[p] = NoDeps
  BY DEF NoHistory
<1>2. /\ IsShard(s) /\ s.out = Nothing /\ s.next_uid = 0 /\ s.next_read = 0
      /\ s.conflicts = [k \in Key |-> NoDeps] /\ s.executed = NoneExecuted
      /\ s.instances = <<>> /\ s.deferred = <<>> /\ s.reads = <<>> /\ s.decided = <<>>
      /\ s.queue = <<>> /\ s.bundle = <<>> /\ s.pending_fast = <<>> /\ s.pending_slow = <<>>
      /\ s.ack_recipients = {} /\ s.log = <<>> /\ s.missed = {}
  BY DEF NewShard, IsShard, ShardFields
<1> HIDE DEF h, s
<1>3. NoDeps \in DepSet /\ NoDeps[p] = 0 /\ \A id \in Id : ~Includes(NoDeps, id)
  BY IdParts DEF NoDeps, DepSet, Includes
<1>4. Noting(p, s.next_uid, s.conflicts, h)
  BY <1>1, <1>2, <1>3 DEF Noting, Within, Touches, NoDeps
<1>5. Knowing(p, s.instances, s.decided, h)
  <2>1. IsFiniteSet({}) /\ DOMAIN s.instances = {} /\ DOMAIN s.decided = {}
    BY <1>2, FS_EmptySet
  <2>2. s.instances = [id \in DOMAIN s.instances |-> s.instances[id]]
    BY <1>2
  <2> QED BY <1>1, <2>1, <2>2 DEF Knowing
<1>6. Holding(p, s.deferred, h)
  BY <1>2 DEF Holding
<1>7. /\ AllHeldOK(p, s.queue, h) /\ AllHeldOK(p, s.bundle, h)
      /\ AllAcksOK(p, s.pending_fast, h) /\ AllAcksOK(p, s.pending_slow, h)
  BY <1>2 DEF AllHeldOK, AllAcksOK
<1>8. Reading(p, s.next_read, s.reads, h)
  BY <1>1, <1>2 DEF Reading
<1>9. ExecutesSoundly(s.executed, s.log, s.instances, s.missed, h)
  <2>1. IsFiniteSet({})
    BY FS_EmptySet
  <2>2. /\ s.executed.watermark = NoDeps /\ s.executed.ahead = {}
        /\ s.executed \in [watermark : DepSet, ahead : SUBSET Id]
    BY <1>2, <1>3 DEF NoneExecuted
  <2>3. IsExecuted(s.executed)
    BY <2>1, <2>2 DEF IsExecuted
  <2>4. \A id \in Id : ~HasExecuted(s.executed, id)
    BY <1>3, <2>2 DEF HasExecuted
  <2>5. s.log \in Seq(Seq(Cmd)) /\ DOMAIN s.log = {} /\ DOMAIN s.instances = {} /\ s.missed = {}
    BY <1>2
  <2> QED BY <2>2, <2>3, <2>4, <2>5 DEF ExecutesSoundly, Executing
<1> QED BY <1>2, <1>4, <1>5, <1>6, <1>7, <1>8, <1>9 DEF Local, h, s

\* The invariant holds at first.
LEMMA InvInit ==
  ASSUME Init
  PROVE  Inv
<1>1. setup \in Setups /\ unsent \in [Proc -> Seq(Cmd)] /\ unread \in [Proc -> Seq(Key)]
  BY SetupType DEF Init
<1>2. PICK shards, chan : shards = shard /\ chan = net
  OBVIOUS
<1>3. shards = [p \in Proc |-> shards[p]] /\ \A p \in Proc : shards[p] = NewShard(p)
  BY <1>2 DEF Init
<1>4. \A p \in Proc : Local(p, shards[p], NoHistory) /\ shards[p].out = Nothing
  BY <1>3, NewShardLocal
<1>5. /\ chan \in [Proc -> [Proc -> Seq(Message)]]
      /\ \A p, q \in Proc : chan[p][q] = <<>>
  BY <1>2 DEF Init
<1>6. NetOK(chan, NoHistory)
  BY <1>5 DEF NetOK, ChannelOK
<1>7. NetOnce(chan, NoHistory)
  BY <1>5 DEF NetOnce, Once, Gone
<1>8. DepInv(NoHistory, shards, chan)
  BY <1>1, <1>3, <1>4, <1>6, <1>7, NoHistoryWell DEF DepInv
<1> QED BY <1>1, <1>2, <1>8 DEF Inv

\* A step of the system.
LEMMA InvNext ==
  ASSUME Inv, Next
  PROVE  Inv'
<1>1. PICK h, shards, chan : shards = shard /\ chan = net /\ DepInv(h, shards, chan)
  BY DEF Inv
<1>2. unsent \in [Proc -> Seq(Cmd)] /\ unread \in [Proc -> Seq(Key)]
  BY DEF Inv
<1>3. ASSUME NEW p \in Proc, Submit(p)
      PROVE  Inv'
  <2>1. PICK n \in IF setup.batch_commands THEN 1 .. Len(unsent[p]) ELSE {1} :
          /\ Become(p, SubmitCommands(p, shard[p], SubSeq(unsent[p], 1, n)), net)
          /\ unsent' = [unsent EXCEPT ![p] = SubSeq(@, n + 1, Len(@))]
    BY <1>3 DEF Submit
  <2>2. unsent[p] \in Seq(Cmd) /\ unsent[p] # <<>> /\ Len(unsent[p]) \in Nat /\ Len(unsent[p]) > 0
    BY <1>2, <1>3 DEF Submit
  <2>3. n \in 1 .. Len(unsent[p])
    BY <2>2
  <2>4. SubSeq(unsent[p], 1, n) \in Seq(Cmd) /\ SubSeq(unsent[p], n + 1, Len(unsent[p])) \in Seq(Cmd)
    BY <2>2, <2>3
  <2>5. StepOK(p, h, SubmitCommands(p, shards[p], SubSeq(unsent[p], 1, n)), chan)
    BY <1>1, <2>4, SubmitStep
  <2>6. Become(p, SubmitCommands(p, shards[p], SubSeq(unsent[p], 1, n)), chan)
    BY <1>1, <2>1
  <2>7. (unsent \in [Proc -> Seq(Cmd)])'
    BY <1>2, <2>1, <2>4
  <2>8. setup' = setup /\ (unread \in [Proc -> Seq(Key)])'
    BY <1>2, <1>3 DEF Submit
  <2> QED BY <1>1, <2>5, <2>6, <2>7, <2>8, StepInv
<1>4. ASSUME NEW p \in Proc, SubmitARead(p)
      PROVE  Inv'
  <2>1. /\ unread[p] # <<>> /\ Become(p, SubmitRead(p, shard[p], Head(unread[p]), Executed), net)
        /\ unread' = [unread EXCEPT ![p] = Tail(@)] /\ setup' = setup /\ unsent' = unsent
    BY <1>4 DEF SubmitARead
  <2>2. unread[p] \in Seq(Key)
    BY <1>2
  <2>3. Head(unread[p]) \in Key /\ Tail(unread[p]) \in Seq(Key)
    BY <2>1, <2>2, TailOf
  <2>4. Since(h, Executed)
    BY <1>1, ExecutedSeen DEF DepInv
  <2>5. PICK since : since = Executed
    OBVIOUS
  <2>6. StepOK(p, h, SubmitRead(p, shards[p], Head(unread[p]), since), chan)
    BY <1>1, <2>3, <2>4, <2>5, ReadStep
  <2>7. Become(p, SubmitRead(p, shards[p], Head(unread[p]), since), chan)
    BY <1>1, <2>1, <2>5
  <2>8. (unread \in [Proc -> Seq(Key)])' /\ (unsent \in [Proc -> Seq(Cmd)])'
    BY <1>2, <2>1, <2>3
  <2> QED BY <1>1, <2>1, <2>6, <2>7, <2>8, StepInv
<1>5. ASSUME NEW p \in Proc, Continue(p)
      PROVE  Inv'
  <2>1. /\ Busy(shard[p]) /\ setup' = setup /\ unsent' = unsent /\ unread' = unread
        /\ Become(p, IF shard[p].queue # <<>>
                     THEN Deliver(p, [shard[p] EXCEPT !.queue = Tail(@)], Head(shard[p].queue))
                     ELSE HandleInstance(p, [shard[p] EXCEPT !.bundle = Tail(@)],
                                         Head(shard[p].bundle).src, Head(shard[p].bundle).msg), net)
    BY <1>5 DEF Continue
  <2>2. (unread \in [Proc -> Seq(Key)])' /\ (unsent \in [Proc -> Seq(Cmd)])'
    BY <1>2, <2>1
  <2>3. PICK s : s = shards[p]
    OBVIOUS
  <2>4. CASE s.queue # <<>>
    <3>1. StepOK(p, h, Deliver(p, [s EXCEPT !.queue = Tail(@)], Head(s.queue)), chan)
      BY <1>1, <2>3, <2>4, ContinueStep
    <3>2. Become(p, Deliver(p, [s EXCEPT !.queue = Tail(@)], Head(s.queue)), chan)
      BY <1>1, <2>1, <2>3, <2>4
    <3> QED BY <1>1, <2>1, <2>2, <3>1, <3>2, StepInv
  <2>5. CASE s.queue = <<>>
    <3>1. s.bundle # <<>>
      BY <1>1, <2>1, <2>3, <2>5 DEF Busy
    <3>2. StepOK(p, h, HandleInstance(p, [s EXCEPT !.bundle = Tail(@)], Head(s.bundle).src, Head(s.bundle).msg), chan)
      BY <1>1, <2>3, <3>1, ContinueStep
    <3>3. Become(p, HandleInstance(p, [s EXCEPT !.bundle = Tail(@)], Head(s.bundle).src, Head(s.bundle).msg), chan)
      BY <1>1, <2>1, <2>3, <2>5
    <3> QED BY <1>1, <2>1, <2>2, <3>2, <3>3, StepInv
  <2> QED BY <2>4, <2>5
<1>6. ASSUME NEW p \in Proc, FlushAcks(p)
      PROVE  Inv'
  <2>1. /\ shard[p].pending_fast \o shard[p].pending_slow # <<>>
        /\ setup' = setup /\ unsent' = unsent /\ unread' = unread
        /\ Become(p, Flush(shard[p]), net)
    BY <1>6 DEF FlushAcks
  <2>2. PICK s : s = shards[p]
    OBVIOUS
  <2>3. StepOK(p, h, Flush(s), chan)
    BY <1>1, <2>1, <2>2, FlushStep
  <2>4. Become(p, Flush(s), chan)
    BY <1>1, <2>1, <2>2
  <2>5. (unread \in [Proc -> Seq(Key)])' /\ (unsent \in [Proc -> Seq(Cmd)])'
    BY <1>2, <2>1
  <2> QED BY <1>1, <2>1, <2>3, <2>4, <2>5, StepInv
<1>7. ASSUME NEW p \in Proc, NEW q \in Proc, ReceiveFrom(p, q)
      PROVE  Inv'
  <2>1. /\ net[q][p] # <<>> /\ setup' = setup /\ unsent' = unsent /\ unread' = unread
        /\ Become(p, Handle(p, shard[p], q, Head(net[q][p])), [net EXCEPT ![q][p] = Tail(@)])
    BY <1>7 DEF ReceiveFrom
  <2>2. StepOK(p, h, Handle(p, shards[p], q, Head(chan[q][p])), [chan EXCEPT ![q][p] = Tail(@)])
    <3>1. chan[q][p] # <<>>
      BY <1>1, <2>1
    <3>2. CASE Head(chan[q][p]).type \in {"ReadRequest", "ReadResponse"}
      BY <1>1, <3>1, <3>2, ReadMessageStep
    <3>3. CASE Head(chan[q][p]).type \notin {"ReadRequest", "ReadResponse"}
      BY <1>1, <3>1, <3>3, MessageStep
    <3> QED BY <3>2, <3>3
  <2>3. Become(p, Handle(p, shards[p], q, Head(chan[q][p])), [chan EXCEPT ![q][p] = Tail(@)])
    BY <1>1, <2>1
  <2>4. (unread \in [Proc -> Seq(Key)])' /\ (unsent \in [Proc -> Seq(Cmd)])'
    BY <1>2, <2>1
  <2> QED BY <1>1, <2>1, <2>2, <2>3, <2>4, StepInv
<1> QED BY <1>3, <1>4, <1>5, <1>6, <1>7 DEF Next

\* A step that changes nothing.
LEMMA InvStutters ==
  ASSUME Inv, UNCHANGED vars
  PROVE  Inv'
<1>1. PICK h, shards, chan : shards = shard /\ chan = net /\ DepInv(h, shards, chan)
  BY DEF Inv
<1>2. setup' = setup /\ shard' = shard /\ net' = net /\ unsent' = unsent /\ unread' = unread
  BY DEF vars
<1>3. WellHistory(h)' /\ NetOK(chan, h)' /\ NetOnce(chan, h)'
  BY <1>1, <1>2, HistoryPrimed, NetPrimed DEF DepInv
<1>4. \A p \in Proc : Local(p, shards[p], h)' /\ shards[p].out = Nothing
  BY <1>1, <1>2, LocalPrimed DEF DepInv
<1>5. (setup \in Setups)' /\ shards = [p \in Proc |-> shards[p]]
  BY <1>1, <1>2 DEF DepInv
<1>6. DepInv(h, shards, chan)'
  BY <1>3, <1>4, <1>5 DEF DepInv, Nothing
<1> QED BY <1>1, <1>2, <1>6 DEF Inv

\* In every run, some history tells of all that the processes and the messages in
\* flight know: who proposed, saw, voted for and decided what.
THEOREM HistoryTells == Spec => []Inv
<1>1. Init => Inv
  BY InvInit
<1>2. Inv /\ [Next]_vars => Inv'
  BY InvNext, InvStutters
<1> QED BY <1>1, <1>2, PTL DEF Spec

-----------------------------------------------------------------------------
(* What the invariant says of the processes *)

\* What has committed somewhere was chosen.
LEMMA CommittedChosen ==
  ASSUME NEW h, WellHistory(h), \A p \in Proc : Local(p, shard[p], h), NEW x \in CommittedAnywhere
  PROVE  /\ x = <<x[1], x[2]>> /\ IsDecision(x[2]) /\ x[1] \in Id /\ x[2].deps \in DepSet
         /\ <<x[1], x[2].deps>> \in h.chosen
         /\ \E cs \in Seq(Cmd) : <<x[1], cs>> \in h.born /\ x[2].keys = KeysIn(cs)
<1>0. PICK p \in Proc : \E id \in DOMAIN shard[p].decided : x = <<id, shard[p].decided[id]>>
  BY DEF CommittedAnywhere
<1>1. PICK id \in DOMAIN shard[p].decided : x = <<id, shard[p].decided[id]>>
  BY <1>0
<1>2. /\ <<id, shard[p].decided[id].deps>> \in h.chosen
      /\ IsDecision(shard[p].decided[id])
      /\ \E cs : <<id, cs>> \in h.born /\ shard[p].decided[id].keys = KeysIn(cs)
  <2>1. Knowing(p, shard[p].instances, shard[p].decided, h)
    BY DEF Local
  <2> QED BY <1>1, <2>1 DEF Knowing
<1>3. HistoryType(h)
  BY DEF WellHistory
<1>4. id \in Id /\ shard[p].decided[id].deps \in DepSet
  BY <1>2, <1>3 DEF HistoryType
<1>5. \E cs \in Seq(Cmd) : <<id, cs>> \in h.born /\ shard[p].decided[id].keys = KeysIn(cs)
  BY <1>2, <1>3 DEF HistoryType
<1> QED BY <1>1, <1>2, <1>4, <1>5

\* Of two chosen instances that conflict, one names the other.
LEMMA ChosenVisible ==
  ASSUME NEW h, WellHistory(h), NEW a, NEW b, NEW da \in DepSet, NEW db \in DepSet, a \in Id, b \in Id,
         <<a, da>> \in h.chosen, <<b, db>> \in h.chosen, a # b, Conflict(h, a, b)
  PROVE  Includes(da, b) \/ Includes(db, a)
<1>1. Backed(h, a, da) /\ Backed(h, b, db)
  BY DEF WellHistory, ChosenOnce
<1>2. CASE EPaxos
  <2>1. PICK A : IsMajority(A) /\ \A r \in A : \E d : <<r, a, d>> \in h.votes /\ Within(d, da)
    BY <1>1, <1>2 DEF Backed
  <2>2. PICK B : IsMajority(B) /\ \A r \in B : \E d : <<r, b, d>> \in h.votes /\ Within(d, db)
    BY <1>1, <1>2 DEF Backed
  <2>3. PICK r \in A : r \in B
    BY <2>1, <2>2, MajoritiesMeet
  <2>4. PICK c, d : /\ <<r, a, c>> \in h.votes /\ Within(c, da)
                    /\ <<r, b, d>> \in h.votes /\ Within(d, db)
    BY <2>1, <2>2, <2>3
  <2>5. c \in DepSet /\ d \in DepSet
    BY <2>4 DEF WellHistory, HistoryType
  <2>6. Includes(c, b) \/ Includes(d, a)
    BY <2>4 DEF WellHistory, VotesVisible
  <2> QED BY <2>4, <2>5, <2>6, WithinIncludes
<1>3. CASE ~EPaxos
  BY <1>1, <1>3 DEF Backed, WellHistory, VotesVisible
<1> QED BY <1>2, <1>3

\* The theorem: everyone commits an instance with the same dependencies, and of two
\* instances that conflict one names the other, whichever majorities decided them
\* (deps.rs, EPaxos and SwiftPaxos).
THEOREM CommitsConflictVisibly == Spec => []ConflictsVisible
<1>1. Inv => ConflictsVisible
  <2> SUFFICES ASSUME Inv, NEW x \in CommittedAnywhere, NEW y \in CommittedAnywhere
               PROVE  /\ x[1] = y[1] => x[2] = y[2]
                      /\ x[1] # y[1] /\ x[2].keys \cap y[2].keys # {} =>
                           Includes(x[2].deps, y[1]) \/ Includes(y[2].deps, x[1])
    BY DEF ConflictsVisible
  <2>1. PICK h : WellHistory(h) /\ \A p \in Proc : Local(p, shard[p], h)
    BY DEF Inv, DepInv
  <2>2. /\ IsDecision(x[2]) /\ x[1] \in Id /\ x[2].deps \in DepSet /\ <<x[1], x[2].deps>> \in h.chosen
        /\ IsDecision(y[2]) /\ y[1] \in Id /\ y[2].deps \in DepSet /\ <<y[1], y[2].deps>> \in h.chosen
    BY <2>1, CommittedChosen
  <2>3. PICK cs \in Seq(Cmd) : <<x[1], cs>> \in h.born /\ x[2].keys = KeysIn(cs)
    BY <2>1, CommittedChosen
  <2>4. PICK ds \in Seq(Cmd) : <<y[1], ds>> \in h.born /\ y[2].keys = KeysIn(ds)
    BY <2>1, CommittedChosen
  <2>5. ASSUME x[1] = y[1]
        PROVE  x[2] = y[2]
    <3>1. x[2].deps = y[2].deps
      BY <2>1, <2>2, <2>5 DEF WellHistory, ChosenOnce
    <3>2. x[2].keys = y[2].keys
      BY <2>1, <2>3, <2>4, <2>5 DEF WellHistory, BornOnce
    <3> QED BY <2>2, <3>1, <3>2 DEF IsDecision
  <2>6. ASSUME x[1] # y[1], x[2].keys \cap y[2].keys # {}
        PROVE  Includes(x[2].deps, y[1]) \/ Includes(y[2].deps, x[1])
    <3>1. PICK k : k \in KeysIn(cs) /\ k \in KeysIn(ds)
      BY <2>3, <2>4, <2>6
    <3>2. k \in Key
      BY <3>1, KeysInType
    <3>3. Conflict(h, x[1], y[1])
      BY <2>3, <2>4, <3>1, <3>2 DEF Conflict, Touches
    <3> QED BY <2>1, <2>2, <2>6, <3>3, ChosenVisible
  <2> QED BY <2>5, <2>6
<1> QED BY <1>1, HistoryTells, PTL

\* The theorem: under SwiftPaxos no two instances name each other, because all that is
\* committed is what the leader, which voted for one before the other, would have it be.
THEOREM SwiftPaxosCommitsNoCycle == Spec => []SwiftPaxosAcyclic
<1>1. Inv => SwiftPaxosAcyclic
  <2> SUFFICES ASSUME Inv, ~EPaxos, NEW x \in CommittedAnywhere, NEW y \in CommittedAnywhere, x[1] # y[1]
               PROVE  ~(Includes(x[2].deps, y[1]) /\ Includes(y[2].deps, x[1]))
    BY DEF SwiftPaxosAcyclic
  <2>1. PICK h : WellHistory(h) /\ \A p \in Proc : Local(p, shard[p], h)
    BY DEF Inv, DepInv
  <2>2. <<x[1], x[2].deps>> \in h.chosen /\ <<y[1], y[2].deps>> \in h.chosen
    BY <2>1, CommittedChosen
  <2>3. /\ <<setup.leader, x[1], x[2].deps>> \in h.votes
        /\ <<setup.leader, y[1], y[2].deps>> \in h.votes
    BY <2>1, <2>2 DEF WellHistory, ChosenOnce, Backed
  <2> QED BY <2>1, <2>3 DEF WellHistory, VotesAcyclic
<1> QED BY <1>1, HistoryTells, PTL

\* The theorem: if no more is executed than what was committed (ExecutionSound), a read
\* sees every write that some process had executed before it was submitted (deps.rs,
\* read_tracker.rs).
THEOREM DepReadsLinearizable ==
  ASSUME ExecutionSound
  PROVE  Spec => []ReadsLinearizable
<1>1. Inv => ReadsLinearizable
  BY DEF Inv, DepInv, Local, ExecutesSoundly, ReadsLinearizable
<1> QED BY <1>1, HistoryTells, PTL

\* What is held is about instances.
LEMMA HeldIds ==
  ASSUME NEW p, NEW h
  PROVE  /\ \A helds : AllHeldOK(p, helds, h) => \A held \in ToSet(helds) : held.msg.id \in Id
         /\ \A acks : AllAcksOK(p, acks, h) => \A m \in ToSet(acks) : m.id \in Id
<1>1. ASSUME NEW helds, AllHeldOK(p, helds, h), NEW held \in ToSet(helds)
      PROVE  held.msg.id \in Id
  <2>1. held \in HeldMsg
    BY <1>1 DEF AllHeldOK, ToSet
  <2>2. held.msg \in LateMsg
    BY <2>1 DEF HeldMsg
  <2> QED BY <2>2, LateMsgType
<1>2. ASSUME NEW acks, AllAcksOK(p, acks, h), NEW m \in ToSet(acks)
      PROVE  m.id \in Id
  <2>1. m \in AckMsg
    BY <1>2 DEF AllAcksOK, ToSet
  <2> QED BY <2>1, AckMsgType
<1> QED BY <1>1, <1>2

\* And so is all that a process keeps to handle or to send.
LEMMA MsgIds ==
  ASSUME NEW p, NEW s, NEW h, Local(p, s, h), NEW m \in Msgs(s)
  PROVE  m.id \in Id
<1>1. CASE m \in ToSet(s.pending_fast) \cup ToSet(s.pending_slow)
  BY <1>1, HeldIds DEF Local
<1>2. CASE m \notin ToSet(s.pending_fast) \cup ToSet(s.pending_slow)
  <2>1. PICK held \in Held(s) : m = held.msg
    BY <1>2 DEF Msgs
  <2>2. CASE held \in ToSet(s.queue) \cup ToSet(s.bundle)
    BY <2>1, <2>2, HeldIds DEF Local
  <2>3. CASE held \notin ToSet(s.queue) \cup ToSet(s.bundle)
    <3>1. PICK id \in DOMAIN s.deferred : held \in ToSet(s.deferred[id])
      BY <2>3 DEF Held
    <3>2. AllHeldOK(p, s.deferred[id], h)
      BY <3>1 DEF Local, Holding
    <3> QED BY <2>1, <3>1, <3>2, HeldIds
  <2> QED BY <2>2, <2>3
<1> QED BY <1>1, <1>2

\* The theorem: if no more is executed than what was committed (ExecutionSound), the
\* shard of every process is well formed (deps.rs, deps/instance.rs).
THEOREM DepTypeCorrect ==
  ASSUME ExecutionSound
  PROVE  Spec => []TypeOK
<1>1. Inv => TypeOK
  <2> SUFFICES ASSUME Inv
               PROVE  TypeOK
    OBVIOUS
  <2>1. PICK h, shards : /\ shards = shard /\ shards = [p \in Proc |-> shards[p]] /\ setup \in Setups
                         /\ \A p \in Proc : Local(p, shards[p], h) /\ shards[p].out = Nothing
    BY DEF Inv, DepInv
  <2>2. ASSUME NEW p \in Proc
        PROVE  /\ shard[p].conflicts \in [Key -> DepSet]
               /\ shard[p].executed.watermark \in DepSet
               /\ shard[p].executed.ahead \subseteq Id
               /\ DOMAIN shard[p].instances \subseteq Id
               /\ \A id \in DOMAIN shard[p].instances : IsInstance(shard[p].instances[id])
               /\ \A m \in Msgs(shard[p]) : m.id \in Id
               /\ shard[p].out = Nothing
    <3> DEFINE s == shard[p]
    <3>1. Local(p, s, h) /\ s.out = Nothing
      BY <2>1
    <3> HIDE DEF s
    <3>2. s.conflicts \in [Key -> DepSet]
      BY <3>1 DEF Local, Noting
    <3>3. s.executed \in [watermark : DepSet, ahead : SUBSET Id]
      BY <3>1 DEF Local, ExecutesSoundly, Executing
    <3>4. \A id \in DOMAIN s.instances : InstanceOK(p, id, s.instances[id], h)
      BY <3>1 DEF Local, Knowing
    <3>5. DOMAIN s.instances \subseteq Id /\ \A id \in DOMAIN s.instances : IsInstance(s.instances[id])
      BY <3>4, InstanceIsInstance DEF InstanceOK
    <3>6. \A m \in Msgs(s) : m.id \in Id
      BY <3>1, MsgIds
    <3> QED BY <3>1, <3>2, <3>3, <3>5, <3>6 DEF s
  <2>3. DOMAIN shard = Proc
    BY <2>1
  <2> QED BY <2>1, <2>2, <2>3 DEF TypeOK
<1> QED BY <1>1, HistoryTells, PTL
=============================================================================
