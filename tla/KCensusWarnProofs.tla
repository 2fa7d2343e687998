--------------------------- MODULE KCensusWarnProofs ---------------------------
(***************************************************************************)
(* Why no replica takes a slot decided in the fallback for a fast one, for    *)
(* every plan that tells any two commands apart.  The invariant is Warned of  *)
(* KCensusWarnings, on top of Explained: handlers are followed once more, for *)
(* what they make, send and take out of what was held back.                   *)
(***************************************************************************)
EXTENDS KCensusAgreementProofs, KCensusWarnings

-----------------------------------------------------------------------------
(* What exists stays *)

\* From S to T counters and logs only grow.
Later(S, T) ==
  \A q \in Proc : /\ S[q].next_uid <= T[q].next_uid
                  /\ Slot(S[q]) <= Slot(T[q])
                  /\ \A i \in 1 .. Slot(S[q]) : T[q].log[i] = S[q].log[i]

\* A value names values, which were made by someone.
LEMMA NamedType ==
  ASSUME NEW v \in Uid, NEW u \in Named(v)
  PROVE  u \in Uid /\ u.pid \in Proc /\ u.seq \in Nat
BY DEF Named, Uid, Command, Batch

\* A member of a batch is no batch.
LEMMA MemberIsSingle ==
  ASSUME NEW v \in Uid, NEW u \in v.members
  PROVE  u \in Command /\ u \in Uid /\ ~IsBatch(u) /\ IsBatch(v)
BY DEF Uid, Command, Batch, IsBatch

LEMMA LaterIsReflexive ==
  ASSUME NEW S \in [Proc -> Shards]
  PROVE  Later(S, S)
<1>1. \A q \in Proc : S[q].next_uid \in Nat /\ Slot(S[q]) \in Nat
  BY SlotType DEF Shards
<1> QED BY <1>1 DEF Later

LEMMA MadeLater ==
  ASSUME NEW S \in [Proc -> Shards], NEW T \in [Proc -> Shards], Later(S, T),
         NEW v \in Uid \cup {NoV}, Made(S, v)
  PROVE  Made(T, v)
<1> SUFFICES ASSUME v # NoV, NEW u \in Named(v) PROVE u.seq < T[u.pid].next_uid
  BY DEF Made
<1>1. u.pid \in Proc /\ u.seq \in Nat
  BY NamedType
<1>2. u.seq < S[u.pid].next_uid /\ S[u.pid].next_uid <= T[u.pid].next_uid
  BY <1>1 DEF Made, Later
<1>3. S[u.pid].next_uid \in Nat /\ T[u.pid].next_uid \in Nat
  BY <1>1 DEF Shards
<1> QED BY <1>1, <1>2, <1>3

LEMMA NewInLater ==
  ASSUME NEW S \in [Proc -> Shards], NEW T \in [Proc -> Shards], Later(S, T),
         NEW v \in Uid, NEW n \in Nat, NewIn(S, v, n)
  PROVE  NewIn(T, v, n)
<1>1. v.pid \in Proc
  BY DEF Uid, Command, Batch
<1>2. Slot(S[v.pid]) \in Nat /\ Slot(T[v.pid]) \in Nat
  BY <1>1, SlotType
<1>3. n <= Slot(S[v.pid]) /\ Slot(S[v.pid]) <= Slot(T[v.pid])
  BY <1>1 DEF Later, NewIn
<1>4. ASSUME NEW i \in 1 .. n PROVE v \notin Named(T[v.pid].log[i].v)
  <2>1. i \in 1 .. Slot(S[v.pid])
    BY <1>2, <1>3
  <2>2. T[v.pid].log[i] = S[v.pid].log[i]
    BY <1>1, <2>1 DEF Later
  <2> QED BY <2>2 DEF NewIn
<1> QED BY <1>2, <1>3, <1>4 DEF NewIn

\* A message is made of what exists, whatever its kind.
LEMMA MsgMadeLater ==
  ASSUME NEW S \in [Proc -> Shards], NEW T \in [Proc -> Shards], Later(S, T),
         NEW m \in Message, MsgMade(S, m)
  PROVE  MsgMade(T, m)
<1>1. m.v \in Uid /\ Made(T, m.v)
  BY MessageKinds, MadeLater DEF MsgMade
<1>2. ASSUME m.type = "Spread", NEW q \in Proc PROVE Made(T, m.remote_states[q].v)
  <2>1. m.remote_states[q].v \in Uid \cup {NoV}
    BY <1>2, MessageKinds DEF SpreadMsg, NodeStates
  <2> QED BY <1>2, <2>1, MadeLater DEF MsgMade
<1>3. ASSUME m.type \in {"Spread", "PaxosAccept"}, m.new_value PROVE NewIn(T, m.v, m.slot)
  <2>1. m.slot \in Nat
    BY <1>3, MessageKinds DEF SpreadMsg, PaxosAcceptMsg
  <2> QED BY <1>1, <1>3, <2>1, NewInLater DEF MsgMade
<1> QED BY <1>1, <1>2, <1>3 DEF MsgMade

LEMMA ShardMadeLater ==
  ASSUME NEW S \in [Proc -> Shards], NEW T \in [Proc -> Shards], Later(S, T),
         NEW s \in Shards, ShardMade(S, s)
  PROVE  ShardMade(T, s)
<1>1. \A v \in s.queued_commands : v \in Uid
  BY DEF Shards
<1>2. \A q \in Proc : s.round_state.node_states[q].v \in Uid \cup {NoV}
  BY DEF Shards, RoundStates, NodeStates
<1>3. ASSUME NEW i \in DOMAIN s.log PROVE s.log[i].v \in Uid
  <2> DEFINE Entry == [v : Uid, fast : BOOLEAN]
  <2>1. s.log \in Seq(Entry)
    BY DEF Shards
  <2> HIDE DEF Entry
  <2>2. s.log[i] \in Entry
    BY <2>1
  <2> QED BY <2>2 DEF Entry
<1>4. ASSUME NEW i \in DOMAIN s.queued_messages PROVE s.queued_messages[i] \in Message
  <2>1. s.queued_messages \in Seq(Message)
    BY DEF Shards
  <2> QED BY <2>1
<1> QED BY <1>1, <1>2, <1>3, <1>4, MadeLater, MsgMadeLater DEF ShardMade

LEMMA OvertakenLater ==
  ASSUME NEW S \in [Proc -> Shards], NEW T \in [Proc -> Shards], Later(S, T),
         NEW m \in PaxosAcceptMsg, Overtaken(S, m)
  PROVE  Overtaken(T, m)
<1>1. PICK u \in Named(m.v) : /\ m.slot < Slot(S[u.pid])
                              /\ u \notin Named(S[u.pid].log[m.slot + 1].v)
  BY DEF Overtaken
<1>2. m.v \in Uid /\ m.slot \in Nat
  BY DEF PaxosAcceptMsg
<1>3. u.pid \in Proc
  BY <1>2, NamedType
<1>4. Slot(S[u.pid]) \in Nat /\ Slot(T[u.pid]) \in Nat /\ Slot(S[u.pid]) <= Slot(T[u.pid])
  BY <1>3, SlotType DEF Later
<1>5. m.slot + 1 \in 1 .. Slot(S[u.pid])
  BY <1>1, <1>2, <1>4
<1>6. T[u.pid].log[m.slot + 1] = S[u.pid].log[m.slot + 1]
  BY <1>3, <1>5 DEF Later
<1> QED BY <1>1, <1>2, <1>4, <1>6 DEF Overtaken

-----------------------------------------------------------------------------
(* One process takes a step, seen by the warnings *)

\* In its slot p goes from s to t and sends out; M is what it has in hand.
Goes(p, s, M, t, out) ==
  /\ t.log = s.log /\ t.queued_messages = s.queued_messages /\ t.scan = s.scan
  /\ s.slot_left_fast_path => t.slot_left_fast_path
  /\ p \in AliveReplicas =>
       \A m \in M : m.type = "PaxosAccept" /\ m.slot = Slot(s) => t.slot_left_fast_path
  /\ \A d \in Proc : \A i \in DOMAIN out[d] : out[d][i].type # "Commit"
  /\ Mine(t.round_state, p).accept_round = p =>
       \/ Mine(s.round_state, p).accept_round = p /\ MyV(t, p) = MyV(s, p)
       \/ \A d \in AliveReplicas \ {p} : \E m \in Range(out[d]) : IsAccept(m, Slot(s), MyV(t, p))
  /\ \/ t.queued_commands = s.queued_commands /\ t.next_uid = s.next_uid
     \/ \E b \in Uid : /\ b.pid = p /\ b.seq = s.next_uid /\ t.next_uid = s.next_uid + 1
                       /\ t.queued_commands = s.queued_commands \cup {b}

\* Or it commits its slot; D are then the decisions.
Commits(p, s, t, out, D) ==
  /\ \E v \in Uid : \E f \in BOOLEAN :
       /\ t.log = Append(s.log, [v |-> v, fast |-> f])
       /\ p \in AliveReplicas /\ f => FastSlot(D, Slot(s))
       /\ \A d \in Proc : \A i \in DOMAIN out[d] :
            out[d][i].type = "Commit" =>
              /\ d # p /\ out[d][i].slot = Slot(s) /\ out[d][i].v = v
              /\ \/ FastSlot(D, Slot(s))
                 \/ Mine(s.round_state, p).accept_round = p /\ MyV(s, p) = v
  /\ t.queued_messages = s.queued_messages /\ t.scan = 1
  /\ t.round_state = ClearRound
  /\ t.queued_commands \subseteq s.queued_commands /\ t.next_uid = s.next_uid

\* What p has in hand it may process.
MayHold(p, s, M) ==
  /\ M \subseteq MessageTo(p)
  /\ \A m \in M : m.type = "PaxosAccept" => m.slot <= Slot(s)

\* A commit adds one entry to the log.
LEMMA CommitLog ==
  ASSUME NEW s \in Shards, NEW t \in Shards, NEW v \in Uid, NEW f \in BOOLEAN,
         t.log = Append(s.log, [v |-> v, fast |-> f])
  PROVE  /\ Slot(s) \in Nat /\ Slot(t) = Slot(s) + 1
         /\ \A i \in 1 .. Slot(s) : t.log[i] = s.log[i]
         /\ t.log[Slot(s) + 1] = [v |-> v, fast |-> f]
         /\ DOMAIN t.log = 1 .. Slot(s) + 1
<1> DEFINE e == [v |-> v, fast |-> f]
           Entry == [v : Uid, fast : BOOLEAN]
<1>1. s.log \in Seq(Entry) /\ e \in Entry /\ t.log = Append(s.log, e)
  BY DEF Shards
<1> HIDE DEF e, Entry
<1>2. /\ Len(s.log) \in Nat /\ Len(t.log) = Len(s.log) + 1
      /\ \A i \in 1 .. Len(s.log) : t.log[i] = s.log[i]
      /\ t.log[Len(s.log) + 1] = e
      /\ DOMAIN t.log = 1 .. Len(s.log) + 1
  BY <1>1
<1> QED BY <1>2 DEF Slot, e

\* What p left, it has left.
LEMMA LeftStays ==
  ASSUME NEW p \in AliveReplicas, NEW s \in Shards, NEW t \in Shards, NEW M, MayHold(p, s, M),
         NEW out, NEW D, Goes(p, s, M, t, out) \/ Commits(p, s, t, out, D),
         NEW n \in Nat
  PROVE  /\ Left(s, n) => Left(t, n)
         /\ \A m \in M : \A v : IsAccept(m, n, v) => Left(t, n)
         /\ Slot(s) \in Nat /\ Slot(t) \in Nat
<1>1. Slot(s) \in Nat /\ Slot(t) \in Nat
  BY SlotType
<1>2. CASE Goes(p, s, M, t, out)
  <2>1. Slot(t) = Slot(s)
    BY <1>2 DEF Goes, Slot
  <2>2. Left(s, n) => Left(t, n)
    BY <1>2, <2>1 DEF Goes, Left
  <2>3. ASSUME NEW m \in M, NEW v, IsAccept(m, n, v) PROVE Left(t, n)
    <3>1. n <= Slot(s) /\ (n = Slot(s) => t.slot_left_fast_path)
      BY <1>2, <2>3 DEF MayHold, IsAccept, Goes
    <3> QED BY <1>1, <2>1, <3>1 DEF Left
  <2> QED BY <1>1, <2>2, <2>3
<1>3. CASE Commits(p, s, t, out, D)
  <2>1. Slot(t) = Slot(s) + 1
    BY <1>3, CommitLog DEF Commits
  <2>2. Left(s, n) => Left(t, n)
    BY <1>1, <2>1 DEF Left
  <2>3. ASSUME NEW m \in M, NEW v, IsAccept(m, n, v) PROVE Left(t, n)
    <3>1. n <= Slot(s)
      BY <2>3 DEF MayHold, IsAccept
    <3> QED BY <1>1, <2>1, <3>1 DEF Left
  <2> QED BY <1>1, <2>2, <2>3
<1> QED BY <1>2, <1>3

\* What p heard, it has heard.
LEMMA HeardStays ==
  ASSUME NEW p \in AliveReplicas, NEW s \in Shards, NEW t \in Shards, NEW M, MayHold(p, s, M),
         NEW out, NEW D, Goes(p, s, M, t, out) \/ Commits(p, s, t, out, D),
         NEW n \in Nat, NEW v, Heard(s, M, n, v)
  PROVE  Heard(t, {}, n, v)
<1>1. t.queued_messages = s.queued_messages
  BY DEF Goes, Commits
<1>2. CASE Left(s, n)
  BY <1>2, LeftStays DEF Heard
<1>3. CASE \E m \in M : IsAccept(m, n, v)
  BY <1>3, LeftStays DEF Heard
<1>4. CASE \E m \in Range(s.queued_messages) : IsAccept(m, n, v)
  BY <1>1, <1>4 DEF Heard
<1> QED BY <1>2, <1>3, <1>4 DEF Heard

\* Every element of c \o o is one of c, at its place, or one of o.
LEMMA JoinedAt ==
  ASSUME NEW X, NEW c \in Seq(X), NEW o \in Seq(X)
  PROVE  /\ DOMAIN c = 1 .. Len(c) /\ Len(c) \in Nat
         /\ \A i \in DOMAIN c : i \in DOMAIN (c \o o) /\ (c \o o)[i] = c[i]
         /\ \A i \in DOMAIN (c \o o) :
              i \in DOMAIN c \/ (Len(c) < i /\ \E k \in DOMAIN o : (c \o o)[i] = o[k])
         /\ \A k \in DOMAIN o : \E i \in DOMAIN (c \o o) : (c \o o)[i] = o[k]
<1>1. /\ DOMAIN c = 1 .. Len(c) /\ Len(c) \in Nat /\ DOMAIN o = 1 .. Len(o) /\ Len(o) \in Nat
      /\ DOMAIN (c \o o) = 1 .. Len(c) + Len(o)
      /\ \A i \in 1 .. Len(c) + Len(o) :
           (c \o o)[i] = IF i <= Len(c) THEN c[i] ELSE o[i - Len(c)]
  OBVIOUS
<1>2. ASSUME NEW i \in DOMAIN (c \o o), i \notin DOMAIN c
      PROVE  Len(c) < i /\ i - Len(c) \in DOMAIN o /\ (c \o o)[i] = o[i - Len(c)]
  BY <1>1, <1>2
<1>3. ASSUME NEW k \in DOMAIN o
      PROVE  Len(c) + k \in DOMAIN (c \o o) /\ (c \o o)[Len(c) + k] = o[k]
  BY <1>1, <1>3
<1>4. \A i \in DOMAIN c : i \in DOMAIN (c \o o) /\ (c \o o)[i] = c[i]
  BY <1>1
<1> QED BY <1>1, <1>2, <1>3, <1>4

LEMMA JoinedHas ==
  ASSUME NEW X, NEW c \in Seq(X), NEW o \in Seq(X), NEW k \in DOMAIN o
  PROVE  o[k] \in Range(c \o o)
<1>1. PICK i \in DOMAIN (c \o o) : (c \o o)[i] = o[k]
  BY JoinedAt
<1> QED BY <1>1 DEF Range

LEMMA JoinedFrom ==
  ASSUME NEW X, NEW c \in Seq(X), NEW o \in Seq(X), NEW i \in DOMAIN (c \o o)
  PROVE  \/ i \in DOMAIN c /\ (c \o o)[i] = c[i]
         \/ \E k \in DOMAIN o : (c \o o)[i] = o[k]
BY JoinedAt

\* What is heard is heard, whatever is decided.
LEMMA FastSlotGrows ==
  ASSUME NEW D, NEW E, D \subseteq E, NEW n, FastSlot(D, n)
  PROVE  FastSlot(E, n)
BY DEF FastSlot

\* Nor is anything out of order, or dishonest, for it.
LEMMA InOrderGrows ==
  ASSUME NEW D, NEW E, D \subseteq E, NEW s
  PROVE  /\ \A M : HeldInOrder(s, D, M) => HeldInOrder(s, E, M)
         /\ \A M, c : ComesInOrder(s, D, M, c) => ComesInOrder(s, E, M, c)
         /\ ReportsSlow(s, D) => ReportsSlow(s, E)
<1>1. \A n : FastSlot(D, n) => FastSlot(E, n)
  BY FastSlotGrows
<1>2. \A M : HeldInOrder(s, D, M) => HeldInOrder(s, E, M)
  BY <1>1 DEF HeldInOrder
<1>3. \A M, c : ComesInOrder(s, D, M, c) => ComesInOrder(s, E, M, c)
  BY <1>1 DEF ComesInOrder
<1>4. ReportsSlow(s, D) => ReportsSlow(s, E)
  BY <1>1 DEF ReportsSlow
<1> QED BY <1>2, <1>3, <1>4

\* p's own part of the invariant: what it holds back is in order, and its log is honest.
LEMMA OwnInOrder ==
  ASSUME NEW p \in AliveReplicas, NEW s \in Shards, NEW t \in Shards, NEW M, MayHold(p, s, M),
         NEW out, NEW D, NEW E, D \subseteq E,
         Goes(p, s, M, t, out) \/ Commits(p, s, t, out, E),
         HeldInOrder(s, D, M), ReportsSlow(s, D)
  PROVE  HeldInOrder(t, E, {}) /\ ReportsSlow(t, E)
<1>1. t.queued_messages = s.queued_messages
  BY DEF Goes, Commits
<1>2. HeldInOrder(t, E, {})
  <2> SUFFICES ASSUME NEW i \in DOMAIN s.queued_messages, s.queued_messages[i].type = "Commit",
                      NEW m, m = s.queued_messages[i]
               PROVE  \/ FastSlot(E, m.slot) \/ Left(t, m.slot)
                      \/ \E j \in 1 .. i - 1 : IsAccept(s.queued_messages[j], m.slot, m.v)
    BY <1>1 DEF HeldInOrder
  <2>1. m \in CommitMsg
    <3>1. s.queued_messages \in Seq(Message)
      BY DEF Shards
    <3>2. m \in Message
      BY <3>1
    <3> QED BY <3>2, MessageKinds
  <2>2. m.slot \in Nat
    BY <2>1 DEF CommitMsg
  <2>3. \/ FastSlot(D, m.slot) \/ Left(s, m.slot)
        \/ \E x \in M : IsAccept(x, m.slot, m.v)
        \/ \E j \in 1 .. i - 1 : IsAccept(s.queued_messages[j], m.slot, m.v)
    BY DEF HeldInOrder
  <2> QED BY <2>2, <2>3, FastSlotGrows, LeftStays
<1>3. ReportsSlow(t, E)
  <2>1. CASE t.log = s.log
    BY <2>1, FastSlotGrows DEF ReportsSlow
  <2>2. CASE Commits(p, s, t, out, E)
    <3>1. PICK v \in Uid, f \in BOOLEAN :
            t.log = Append(s.log, [v |-> v, fast |-> f]) /\ (f => FastSlot(E, Slot(s)))
      BY <2>2 DEF Commits
    <3>2. /\ Slot(s) \in Nat /\ DOMAIN t.log = 1 .. Slot(s) + 1
          /\ \A i \in 1 .. Slot(s) : t.log[i] = s.log[i]
          /\ t.log[Slot(s) + 1] = [v |-> v, fast |-> f]
      BY <3>1, CommitLog
    <3>3. ASSUME NEW i \in DOMAIN t.log, t.log[i].fast PROVE FastSlot(E, i - 1)
      <4>1. CASE i = Slot(s) + 1
        <5>1. f /\ i - 1 = Slot(s)
          BY <3>2, <3>3, <4>1
        <5> QED BY <3>1, <5>1
      <4>2. CASE i # Slot(s) + 1
        <5>1. i \in 1 .. Slot(s) /\ t.log[i] = s.log[i]
          BY <3>2, <4>2
        <5>2. i \in DOMAIN s.log
          <6> DEFINE Entry == [v : Uid, fast : BOOLEAN]
          <6>1. s.log \in Seq(Entry)
            BY DEF Shards
          <6> HIDE DEF Entry
          <6> QED BY <5>1, <6>1 DEF Slot
        <5> QED BY <3>3, <5>1, <5>2, FastSlotGrows DEF ReportsSlow
      <4> QED BY <4>1, <4>2
    <3> QED BY <3>3 DEF ReportsSlow
  <2> QED BY <2>1, <2>2 DEF Goes
<1> QED BY <1>2, <1>3

\* What comes to p from anyone is still in order when p is done with what it had in hand.
LEMMA ComingStays ==
  ASSUME NEW p \in AliveReplicas, NEW s \in Shards, NEW t \in Shards, NEW M, MayHold(p, s, M),
         NEW out, NEW D, NEW E, D \subseteq E,
         Goes(p, s, M, t, out) \/ Commits(p, s, t, out, E),
         NEW c \in Seq(Message), ComesInOrder(s, D, M, c)
  PROVE  ComesInOrder(t, E, {}, c)
<1> SUFFICES ASSUME NEW i \in DOMAIN c, c[i].type = "Commit"
             PROVE  \/ FastSlot(E, c[i].slot) \/ Heard(t, {}, c[i].slot, c[i].v)
                    \/ \E j \in 1 .. i - 1 : IsAccept(c[j], c[i].slot, c[i].v)
  BY DEF ComesInOrder
<1>1. c[i] \in CommitMsg
  BY MessageKinds
<1>2. c[i].slot \in Nat
  BY <1>1 DEF CommitMsg
<1>3. \/ FastSlot(D, c[i].slot) \/ Heard(s, M, c[i].slot, c[i].v)
      \/ \E j \in 1 .. i - 1 : IsAccept(c[j], c[i].slot, c[i].v)
  BY DEF ComesInOrder
<1> QED BY <1>2, <1>3, FastSlotGrows, HeardStays

\* A channel in order takes new messages whose Commits were announced.
LEMMA ComingGrows ==
  ASSUME NEW s \in Shards, NEW D, NEW c \in Seq(Message), NEW o \in Seq(Message),
         ComesInOrder(s, D, {}, c),
         \A k \in DOMAIN o : o[k].type = "Commit" =>
           FastSlot(D, o[k].slot) \/ Called(s, {}, c, o[k].slot, o[k].v)
  PROVE  ComesInOrder(s, D, {}, c \o o)
<1> DEFINE e == c \o o
<1>1. /\ DOMAIN c = 1 .. Len(c) /\ Len(c) \in Nat
      /\ \A i \in DOMAIN c : i \in DOMAIN e /\ e[i] = c[i]
      /\ \A i \in DOMAIN e : i \in DOMAIN c \/ (Len(c) < i /\ \E k \in DOMAIN o : e[i] = o[k])
  BY JoinedAt
<1>2. DOMAIN e \subseteq Nat
  OBVIOUS
<1> SUFFICES ASSUME NEW i \in DOMAIN e, e[i].type = "Commit"
             PROVE  \/ FastSlot(D, e[i].slot) \/ Heard(s, {}, e[i].slot, e[i].v)
                    \/ \E j \in 1 .. i - 1 : IsAccept(e[j], e[i].slot, e[i].v)
  BY DEF ComesInOrder
<1> HIDE DEF e
<1>3. CASE i \in DOMAIN c
  <2>1. \/ FastSlot(D, e[i].slot) \/ Heard(s, {}, e[i].slot, e[i].v)
        \/ \E j \in 1 .. i - 1 : IsAccept(c[j], e[i].slot, e[i].v)
    BY <1>1, <1>3 DEF ComesInOrder
  <2>2. \A j \in 1 .. i - 1 : e[j] = c[j]
    BY <1>1, <1>3
  <2> QED BY <2>1, <2>2
<1>4. CASE i \notin DOMAIN c
  <2>1. PICK k \in DOMAIN o : e[i] = o[k]
    BY <1>1, <1>4
  <2>2. FastSlot(D, e[i].slot) \/ Called(s, {}, c, e[i].slot, e[i].v)
    BY <2>1
  <2>3. ASSUME NEW x \in Range(c), IsAccept(x, e[i].slot, e[i].v)
        PROVE  \E j \in 1 .. i - 1 : IsAccept(e[j], e[i].slot, e[i].v)
    <3>1. PICK j \in DOMAIN c : c[j] = x
      BY DEF Range
    <3>2. j \in 1 .. i - 1 /\ e[j] = x
      BY <1>1, <1>2, <1>4, <3>1
    <3> QED BY <2>3, <3>2
  <2> QED BY <2>2, <2>3 DEF Called
<1> QED BY <1>3, <1>4

\* Who was called stays called.
LEMMA CalledGrows ==
  ASSUME NEW s, NEW M, NEW c \in Seq(Message), NEW o \in Seq(Message), NEW n, NEW v,
         Called(s, M, c, n, v)
  PROVE  Called(s, M, c \o o, n, v)
<1>1. ASSUME NEW m \in Range(c) PROVE m \in Range(c \o o)
  <2>1. PICK i \in DOMAIN c : c[i] = m
    BY DEF Range
  <2>2. i \in DOMAIN (c \o o) /\ (c \o o)[i] = c[i]
    BY JoinedAt
  <2> QED BY <2>1, <2>2 DEF Range
<1> QED BY <1>1 DEF Called

\* The two ways to step, together.
Steps(p, s, M, t, out, D) == Goes(p, s, M, t, out) \/ Commits(p, s, t, out, D)

\* Sending appends to the channels of p alone.
LEMMA SendAt ==
  ASSUME NEW p \in Proc, NEW chan \in [Proc -> [Proc -> Seq(Message)]],
         NEW out \in [Proc -> Seq(Message)]
  PROVE  /\ Send(chan, p, out) \in [Proc -> [Proc -> Seq(Message)]]
         /\ \A q, d \in Proc :
              Send(chan, p, out)[q][d] = IF q = p THEN chan[p][d] \o out[d] ELSE chan[q][d]
<1>1. Then(chan[p], out) \in [Proc -> Seq(Message)]
      /\ \A d \in Proc : Then(chan[p], out)[d] = chan[p][d] \o out[d]
  BY DEF Then
<1> QED BY <1>1 DEF Send

LEMMA SendTo ==
  ASSUME NEW p \in Proc, NEW chan \in [Proc -> [Proc -> Seq(Message)]],
         NEW out \in [Proc -> Seq(Message)], NEW q \in Proc, NEW d \in Proc
  PROVE  /\ q = p => Send(chan, p, out)[q][d] = chan[p][d] \o out[d]
         /\ q # p => Send(chan, p, out)[q][d] = chan[q][d]
<1>1. Then(chan[p], out) \in [Proc -> Seq(Message)] /\ Then(chan[p], out)[d] = chan[p][d] \o out[d]
  BY DEF Then
<1>2. /\ Send(chan, p, out)[p] = Then(chan[p], out)
      /\ q # p => Send(chan, p, out)[q] = chan[q]
  BY DEF Send
<1> QED BY <1>1, <1>2

\* The calls of l reach whoever they reached, when p takes its step.
LEMMA CallsStay ==
  ASSUME NEW S \in [Proc -> Shards], NEW p \in Proc, NEW t \in Shards, NEW T,
         T = [S EXCEPT ![p] = t], NEW M, MayHold(p, S[p], M), NEW D,
         NEW chan \in [Proc -> [Proc -> Seq(Message)]], NEW out \in [Proc -> Seq(Message)],
         Steps(p, S[p], M, t, out, D), NEW l \in Proc, NEW d \in AliveReplicas, NEW n \in Nat, NEW v,
         Called(S[d], InHand(p, M)[d], chan[l][d], n, v)
  PROVE  Called(T[d], EmptyHands[d], Send(chan, p, out)[l][d], n, v)
<1>1. d \in Proc /\ chan[l][d] \in Seq(Message) /\ out[d] \in Seq(Message)
  BY ReplicasFinite
<1>2. Called(T[d], {}, chan[l][d], n, v)
  <2>1. CASE d = p
    <3>1. T[d] = t /\ InHand(p, M)[d] = M
      BY <1>1, <2>1 DEF InHand
    <3>2. CASE Heard(S[p], M, n, v)
      <4>1. Heard(t, {}, n, v)
        BY <2>1, <3>2, HeardStays DEF Steps
      <4> QED BY <3>1, <4>1 DEF Called
    <3> QED BY <2>1, <3>1, <3>2 DEF Called
  <2>2. CASE d # p
    BY <1>1, <2>2 DEF InHand
  <2> QED BY <2>1, <2>2
<1>3. /\ l = p => Send(chan, p, out)[l][d] = chan[p][d] \o out[d]
      /\ l # p => Send(chan, p, out)[l][d] = chan[l][d]
  BY <1>1, SendTo
<1>4. EmptyHands[d] = {}
  BY <1>1 DEF EmptyHands
<1> DEFINE c == Send(chan, p, out)[l][d]
<1>5. Called(T[d], {}, c, n, v)
  <2>1. CASE l = p
    <3>1. c = chan[l][d] \o out[d]
      BY <1>3, <2>1
    <3> HIDE DEF c
    <3> QED BY <1>1, <1>2, <3>1, CalledGrows
  <2>2. CASE l # p
    <3>1. c = chan[l][d]
      BY <1>3, <2>2
    <3> HIDE DEF c
    <3> QED BY <1>2, <3>1
  <2> QED BY <2>1, <2>2
<1> QED BY <1>4, <1>5

\* A value is named in a round, or none is.
LEMMA MyVType ==
  ASSUME NEW s \in Shards, NEW p \in Proc
  PROVE  MyV(s, p) \in Uid \cup {NoV}
<1>1. s.round_state \in RoundStates
  BY DEF Shards
<1>2. Mine(s.round_state, p) \in NodeStates
  BY <1>1, MineType
<1> QED BY <1>2 DEF MyV, NodeStates

\* A step of p, from what it has in hand to what it sends, keeps everyone called.
LEMMA StepCalled ==
  ASSUME NEW S \in [Proc -> Shards], NEW p \in Proc, NEW s \in Shards, s = S[p],
         NEW t \in Shards, NEW T, T = [S EXCEPT ![p] = t],
         NEW M, MayHold(p, s, M), NEW D, NEW E, D \subseteq E,
         NEW chan \in [Proc -> [Proc -> Seq(Message)]], NEW out \in [Proc -> Seq(Message)],
         Steps(p, s, M, t, out, E), AllCalled(S, D, InHand(p, M), chan)
  PROVE  AllCalled(T, E, EmptyHands, Send(chan, p, out))
<1> DEFINE N == Send(chan, p, out)
<1>1. /\ s \in Shards /\ T[p] = t /\ \A q \in Proc : q # p => T[q] = S[q]
      /\ InHand(p, M)[p] = M /\ \A q \in Proc : q # p => InHand(p, M)[q] = {}
      /\ \A q \in Proc : EmptyHands[q] = {}
  BY DEF InHand, EmptyHands
<1>2. /\ \A q, d \in Proc : N[q][d] = IF q = p THEN chan[p][d] \o out[d] ELSE chan[q][d]
      /\ \A q, d \in Proc : chan[q][d] \in Seq(Message) /\ out[d] \in Seq(Message)
  <2>1. \A q, d \in Proc : N[q][d] = IF q = p THEN chan[p][d] \o out[d] ELSE chan[q][d]
    BY ONLY SendAt, p \in Proc, chan \in [Proc -> [Proc -> Seq(Message)]],
       out \in [Proc -> Seq(Message)]
  <2> QED BY <2>1
<1>3. Slot(s) \in Nat
  BY <1>1, SlotType
<1> HIDE DEF N
<1>4. ASSUME NEW d \in AliveReplicas PROVE HeldInOrder(T[d], E, {}) /\ ReportsSlow(T[d], E)
  <2>1. d \in Proc /\ HeldInOrder(S[d], D, InHand(p, M)[d]) /\ ReportsSlow(S[d], D)
    BY ReplicasFinite DEF AllCalled
  <2>2. CASE d = p
    <3>1. HeldInOrder(s, D, M) /\ ReportsSlow(s, D) /\ p \in AliveReplicas
      BY <1>1, <2>1, <2>2
    <3>2. HeldInOrder(t, E, {}) /\ ReportsSlow(t, E)
      BY <1>1, <3>1, OwnInOrder DEF Steps
    <3> QED BY <1>1, <2>2, <3>2
  <2>3. CASE d # p
    <3>1. HeldInOrder(T[d], D, {}) /\ ReportsSlow(T[d], D)
      BY <1>1, <2>1, <2>3
    <3> QED BY <3>1, InOrderGrows
  <2> QED BY <2>2, <2>3
<1>5. ASSUME NEW d \in AliveReplicas, NEW q \in Proc PROVE ComesInOrder(T[d], E, {}, chan[q][d])
  <2>1. d \in Proc /\ ComesInOrder(S[d], D, InHand(p, M)[d], chan[q][d])
    BY ReplicasFinite DEF AllCalled
  <2>2. CASE d = p
    <3>1. ComesInOrder(s, D, M, chan[q][d]) /\ p \in AliveReplicas /\ chan[q][d] \in Seq(Message)
      BY <1>1, <1>2, <2>1, <2>2
    <3> DEFINE c == chan[q][d]
    <3>2. c \in Seq(Message) /\ ComesInOrder(s, D, M, c)
      BY <3>1
    <3> HIDE DEF c
    <3>3. ComesInOrder(t, E, {}, c)
      BY <1>1, <3>1, <3>2, ComingStays DEF Steps
    <3> QED BY <1>1, <2>2, <3>3 DEF c
  <2>3. CASE d # p
    <3>1. ComesInOrder(T[d], D, {}, chan[q][d])
      BY <1>1, <2>1, <2>3
    <3> QED BY <3>1, InOrderGrows
  <2> QED BY <2>2, <2>3
<1>6. ASSUME NEW d \in AliveReplicas, NEW k \in DOMAIN out[d], out[d][k].type = "Commit"
      PROVE  FastSlot(E, out[d][k].slot) \/ Called(T[d], {}, chan[p][d], out[d][k].slot, out[d][k].v)
  <2>1. d \in Proc
    BY ReplicasFinite
  <2>2. PICK v \in Uid :
          /\ d # p /\ out[d][k].slot = Slot(s) /\ out[d][k].v = v
          /\ FastSlot(E, Slot(s)) \/ (Mine(s.round_state, p).accept_round = p /\ MyV(s, p) = v)
    BY <1>6, <2>1 DEF Steps, Goes, Commits
  <2>3. CASE Mine(s.round_state, p).accept_round = p /\ MyV(s, p) = v
    <3>1. Called(S[d], InHand(p, M)[d], chan[p][d], Slot(s), v)
      BY <2>2, <2>3 DEF AllCalled, CallsAll
    <3> QED BY <1>1, <2>1, <2>2, <3>1
  <2> QED BY <2>2, <2>3
<1>7. ASSUME NEW d \in AliveReplicas, NEW q \in Proc PROVE ComesInOrder(T[d], E, {}, N[q][d])
  <2>1. d \in Proc /\ T[d] \in Shards
    BY <1>1, ReplicasFinite
  <2>2. CASE q = p
    <3> DEFINE c == chan[p][d]
               o == out[d]
    <3>1. N[q][d] = c \o o /\ c \in Seq(Message) /\ o \in Seq(Message)
      BY <1>2, <2>1, <2>2
    <3>2. ComesInOrder(T[d], E, {}, c)
      BY <1>5
    <3>3. \A k \in DOMAIN o : o[k].type = "Commit" =>
            FastSlot(E, o[k].slot) \/ Called(T[d], {}, c, o[k].slot, o[k].v)
      BY <1>6
    <3> HIDE DEF c, o
    <3>4. ComesInOrder(T[d], E, {}, c \o o)
      BY <2>1, <3>1, <3>2, <3>3, ComingGrows
    <3> QED BY <3>1, <3>4
  <2> QED BY <1>2, <1>5, <2>1, <2>2
<1>8. ASSUME NEW l \in Proc PROVE CallsAll(T, EmptyHands, l, N[l])
  <2> SUFFICES ASSUME Mine(T[l].round_state, l).accept_round = l, NEW d \in AliveReplicas \ {l}
               PROVE  Called(T[d], EmptyHands[d], N[l][d], Slot(T[l]), MyV(T[l], l))
    BY DEF CallsAll
  <2>1. d \in Proc
    BY ReplicasFinite
  <2>2. ASSUME Mine(S[l].round_state, l).accept_round = l, Slot(T[l]) = Slot(S[l]),
               MyV(T[l], l) = MyV(S[l], l)
        PROVE  Called(T[d], EmptyHands[d], N[l][d], Slot(T[l]), MyV(T[l], l))
    <3>1. Called(S[d], InHand(p, M)[d], chan[l][d], Slot(S[l]), MyV(S[l], l))
      BY <2>2 DEF AllCalled, CallsAll
    <3>2. Slot(S[l]) \in Nat
      BY SlotType
    <3> QED BY <2>2, <3>1, <3>2, CallsStay DEF N
  <2>3. CASE l # p
    BY <1>1, <2>2, <2>3
  <2>4. CASE l = p /\ Goes(p, s, M, t, out)
    <3>1. Slot(T[l]) = Slot(s)
      BY <1>1, <2>4 DEF Goes, Slot
    <3>2. CASE Mine(s.round_state, p).accept_round = p /\ MyV(t, p) = MyV(s, p)
      BY <1>1, <2>2, <2>4, <3>1, <3>2
    <3>3. CASE \A x \in AliveReplicas \ {p} : \E m \in Range(out[x]) : IsAccept(m, Slot(s), MyV(t, p))
      <4>1. PICK m \in Range(out[d]) : IsAccept(m, Slot(s), MyV(t, p))
        BY <2>4, <3>3
      <4>2. m \in Range(N[p][d])
        <5>1. PICK k \in DOMAIN out[d] : out[d][k] = m
          BY DEF Range
        <5> DEFINE c == chan[p][d]
                   o == out[d]
        <5>2. c \in Seq(Message) /\ o \in Seq(Message) /\ N[p][d] = c \o o /\ k \in DOMAIN o /\ o[k] = m
          BY <1>2, <2>1, <5>1
        <5> HIDE DEF c, o
        <5>3. o[k] \in Range(c \o o)
          BY <5>2, JoinedHas
        <5> QED BY <5>2, <5>3
      <4> QED BY <1>1, <2>4, <3>1, <4>1, <4>2 DEF Called
    <3> QED BY <1>1, <2>4, <3>2, <3>3 DEF Goes
  <2>5. CASE l = p /\ Commits(p, s, t, out, E)
    <3>1. Mine(T[l].round_state, l).accept_round = None
      BY <1>1, <2>5 DEF Commits, ClearRound, Mine, EmptyNode
    <3> QED BY <3>1, NoneIsNobody
  <2> QED BY <2>3, <2>4, <2>5 DEF Steps
<1>9. ASSUME NEW d \in AliveReplicas
      PROVE  /\ HeldInOrder(T[d], E, EmptyHands[d]) /\ ReportsSlow(T[d], E)
             /\ \A q \in Proc : ComesInOrder(T[d], E, EmptyHands[d], N[q][d])
  <2>1. EmptyHands[d] = {}
    BY <1>1, ReplicasFinite
  <2> QED BY <1>4, <1>7, <2>1
<1>10. AllCalled(T, E, EmptyHands, N)
  BY <1>8, <1>9 DEF AllCalled
<1> QED BY <1>10 DEF N

\* Time goes on.
LEMMA StepLater ==
  ASSUME NEW S \in [Proc -> Shards], NEW p \in Proc, NEW s \in Shards, s = S[p],
         NEW t \in Shards, NEW T, T = [S EXCEPT ![p] = t],
         NEW M, NEW out, NEW D, Steps(p, s, M, t, out, D)
  PROVE  Later(S, T)
<1>1. T[p] = t /\ \A q \in Proc : q # p => T[q] = S[q]
  OBVIOUS
<1>2. \A q \in Proc : S[q].next_uid \in Nat /\ Slot(S[q]) \in Nat
  BY SlotType DEF Shards
<1>3. s.next_uid <= t.next_uid
  <2>1. t.next_uid = s.next_uid \/ t.next_uid = s.next_uid + 1
    BY DEF Steps, Goes, Commits
  <2> QED BY <1>2, <2>1
<1>4. Slot(s) <= Slot(t) /\ \A i \in 1 .. Slot(s) : t.log[i] = s.log[i]
  <2>1. CASE t.log = s.log
    BY <1>2, <2>1 DEF Slot
  <2>2. CASE Commits(p, s, t, out, D)
    <3>1. PICK v \in Uid, f \in BOOLEAN : t.log = Append(s.log, [v |-> v, fast |-> f])
      BY <2>2 DEF Commits
    <3>2. Slot(t) = Slot(s) + 1 /\ \A i \in 1 .. Slot(s) : t.log[i] = s.log[i]
      BY <3>1, CommitLog
    <3> QED BY <1>2, <3>2
  <2> QED BY <2>1, <2>2 DEF Steps, Goes
<1>5. ASSUME NEW q \in Proc
      PROVE  /\ S[q].next_uid <= T[q].next_uid /\ Slot(S[q]) <= Slot(T[q])
             /\ \A i \in 1 .. Slot(S[q]) : T[q].log[i] = S[q].log[i]
  <2>1. CASE q = p
    BY <1>1, <1>3, <1>4, <2>1
  <2>2. CASE q # p
    BY <1>1, <1>2, <2>2
  <2> QED BY <2>1, <2>2
<1> QED BY <1>5 DEF Later

\* What a process holds back are messages.
LEMMA HeldMessage ==
  ASSUME NEW s \in Shards, NEW i \in DOMAIN s.queued_messages
  PROVE  s.queued_messages[i] \in Message
<1>1. s.queued_messages \in Seq(Message)
  BY DEF Shards
<1> QED BY <1>1

\* Nothing names what is yet to be made.
LEMMA UnmadeIsNotNamed ==
  ASSUME NEW S \in [Proc -> Shards], NEW v \in Uid, Made(S, v), NEW b \in Uid,
         b.seq = S[b.pid].next_uid
  PROVE  b \notin Named(v)
<1> SUFFICES ASSUME b \in Named(v) PROVE FALSE
  OBVIOUS
<1>1. b.pid \in Proc /\ S[b.pid].next_uid \in Nat
  BY DEF Uid, Command, Batch, Shards
<1>2. b.seq < S[b.pid].next_uid
  BY NoneIsNobody DEF Made
<1> QED BY <1>1, <1>2

\* A message is ready when what it names is here, and only then.
LEMMA ReadyMeans ==
  ASSUME NEW s, NEW m, m.type = "PaxosAccept"
  PROVE  ReadyToProcess(s, m) <=>
           m.slot < Slot(s) \/ (m.slot = Slot(s) /\ Named(m.v) \subseteq s.queued_commands)
BY DEF ReadyToProcess, Named

\* A new command, or one less, makes no held message ready.
LEMMA StillNotReady ==
  ASSUME NEW S \in [Proc -> Shards], NEW p \in Proc, NEW s \in Shards,
         s.next_uid = S[p].next_uid,
         NEW m \in PaxosAcceptMsg, Made(S, m.v), ~ReadyToProcess(s, m),
         NEW t \in Shards, Slot(t) = Slot(s),
         \/ t.queued_commands \subseteq s.queued_commands
         \/ \E b \in Uid : /\ b.pid = p /\ b.seq = s.next_uid
                           /\ t.queued_commands = s.queued_commands \cup {b}
  PROVE  ~ReadyToProcess(t, m)
<1> SUFFICES ASSUME ReadyToProcess(t, m) PROVE FALSE
  OBVIOUS
<1>1. m.type = "PaxosAccept" /\ m.v \in Uid
  BY DEF PaxosAcceptMsg
<1>2. ~(m.slot < Slot(s)) /\ ~(m.slot = Slot(s) /\ Named(m.v) \subseteq s.queued_commands)
  BY <1>1, ReadyMeans
<1>3. m.slot = Slot(s) /\ Named(m.v) \subseteq t.queued_commands
  BY <1>1, <1>2, ReadyMeans
<1>4. PICK b \in Uid : /\ b.pid = p /\ b.seq = s.next_uid
                       /\ t.queued_commands = s.queued_commands \cup {b}
  BY <1>2, <1>3
<1>5. b \notin Named(m.v)
  BY <1>1, <1>4, UnmadeIsNotNamed
<1> QED BY <1>2, <1>3, <1>4, <1>5

\* What is held back, or overtaken, remains so.
LEMMA StepHeldBack ==
  ASSUME NEW S \in [Proc -> Shards], NEW p \in Proc, NEW s \in Shards, s = S[p],
         NEW t \in Shards, NEW T, T = [S EXCEPT ![p] = t],
         NEW M, NEW out, NEW D, Steps(p, s, M, t, out, D),
         AllHeldBack(S), ShardMade(S, s)
  PROVE  AllHeldBack(T)
<1> SUFFICES ASSUME NEW q \in Proc, NEW i \in DOMAIN T[q].queued_messages,
                    T[q].queued_messages[i].type = "PaxosAccept",
                    T[q].scan = 0 \/ i < T[q].scan,
                    NEW m, m = T[q].queued_messages[i]
             PROVE  ~ReadyToProcess(T[q], m) \/ Overtaken(T, m)
  BY DEF AllHeldBack, HeldBack
<1>1. T[p] = t /\ (q # p => T[q] = S[q]) /\ T[q] \in Shards /\ T \in [Proc -> Shards] /\ S[q] \in Shards
  OBVIOUS
<1>2. Later(S, T)
  BY StepLater
<1>3. m \in PaxosAcceptMsg
  BY <1>1, HeldMessage, MessageKinds
<1>4. T[q].queued_messages = S[q].queued_messages
  BY <1>1 DEF Steps, Goes, Commits
<1>5. CASE T[q].scan = S[q].scan
  <2>1. ~ReadyToProcess(S[q], m) \/ Overtaken(S, m)
    BY <1>4, <1>5 DEF AllHeldBack, HeldBack
  <2>2. CASE Overtaken(S, m)
    BY <1>1, <1>2, <1>3, <2>2, OvertakenLater
  <2>3. CASE ~ReadyToProcess(S[q], m)
    <3>1. CASE q # p
      BY <1>1, <2>3, <3>1
    <3>2. CASE q = p /\ Goes(p, s, M, t, out)
      <4>1. Made(S, m.v)
        BY <1>4, <3>2 DEF ShardMade, MsgMade
      <4>2. Slot(t) = Slot(s) /\ s.next_uid = S[p].next_uid
        BY <3>2 DEF Goes, Slot
      <4>3. \/ t.queued_commands \subseteq s.queued_commands
            \/ \E b \in Uid : /\ b.pid = p /\ b.seq = s.next_uid
                              /\ t.queued_commands = s.queued_commands \cup {b}
        BY <3>2 DEF Goes
      <4>4. ~ReadyToProcess(s, m)
        BY <2>3, <3>2
      <4>5. ~ReadyToProcess(t, m)
        BY <1>3, <4>1, <4>2, <4>3, <4>4, StillNotReady
      <4> QED BY <1>1, <3>2, <4>5
    <3>3. CASE q = p /\ Commits(p, s, t, out, D)
      <4>1. T[q].scan = 1 /\ i \in Nat \ {0}
        <5>1. T[q].queued_messages \in Seq(Message)
          BY <1>1 DEF Shards
        <5>2. DOMAIN T[q].queued_messages \subseteq Nat \ {0}
          BY <5>1
        <5> QED BY <1>1, <3>3, <5>2 DEF Commits
      <4> QED BY <4>1
    <3> QED BY <3>1, <3>2, <3>3 DEF Steps
  <2> QED BY <2>1, <2>2, <2>3
<1>6. CASE T[q].scan # S[q].scan
  <2>1. q = p /\ Commits(p, s, t, out, D)
    BY <1>1, <1>6 DEF Steps, Goes
  <2>2. T[q].scan = 1 /\ i \in Nat \ {0}
    <3>1. T[q].queued_messages \in Seq(Message)
      BY <1>1 DEF Shards
    <3>2. DOMAIN T[q].queued_messages \subseteq Nat \ {0}
      BY <3>1
    <3> QED BY <1>1, <2>1, <3>2 DEF Commits
  <2> QED BY <2>2
<1> QED BY <1>5, <1>6

-----------------------------------------------------------------------------
(* What a step leaves behind *)

OutMade(T, out) == \A d \in Proc : \A i \in DOMAIN out[d] : MsgMade(T, out[d][i])

\* A step that p takes among the shards S, from s to t, made of what exists by then.
Emits(S, p, s, M, t, out, D) ==
  /\ t \in Shards /\ out \in [Proc -> Seq(Message)]
  /\ Steps(p, s, M, t, out, D)
  /\ ShardMade([S EXCEPT ![p] = t], t)
  /\ OutMade([S EXCEPT ![p] = t], out)

\* After such a step everything is made of what exists.
LEMMA StepMade ==
  ASSUME NEW S \in [Proc -> Shards], NEW p \in Proc, NEW s \in Shards, s = S[p],
         NEW t \in Shards, NEW T, T = [S EXCEPT ![p] = t],
         NEW M, NEW D, NEW chan \in [Proc -> [Proc -> Seq(Message)]],
         NEW out \in [Proc -> Seq(Message)],
         Emits(S, p, s, M, t, out, D), AllMade(S, chan)
  PROVE  AllMade(T, Send(chan, p, out))
<1>1. T[p] = t /\ (\A q \in Proc : q # p => T[q] = S[q]) /\ T \in [Proc -> Shards]
  OBVIOUS
<1>2. Later(S, T) /\ ShardMade(T, t) /\ OutMade(T, out)
  BY StepLater DEF Emits
<1>3. ASSUME NEW q \in Proc PROVE ShardMade(T, T[q])
  <2>1. CASE q = p
    BY <1>1, <1>2, <2>1
  <2>2. CASE q # p
    <3>1. ShardMade(S, S[q]) /\ S[q] \in Shards
      BY DEF AllMade
    <3> QED BY <1>1, <1>2, <2>2, <3>1, ShardMadeLater
  <2> QED BY <2>1, <2>2
<1>4. ASSUME NEW d \in Proc, NEW q \in Proc, NEW i \in DOMAIN chan[q][d] PROVE MsgMade(T, chan[q][d][i])
  <2>1. MsgMade(S, chan[q][d][i])
    BY DEF AllMade
  <2> DEFINE c == chan[q][d]
  <2>2. c \in Seq(Message) /\ i \in DOMAIN c /\ c[i] = chan[q][d][i]
    OBVIOUS
  <2> HIDE DEF c
  <2>3. c[i] \in Message
    BY <2>2
  <2> QED BY <1>1, <1>2, <2>1, <2>2, <2>3, MsgMadeLater
<1>5. ASSUME NEW d \in Proc, NEW q \in Proc, NEW N, N = Send(chan, p, out)[q][d], NEW i \in DOMAIN N
      PROVE  MsgMade(T, N[i])
  <2>3. /\ q = p => N = chan[p][d] \o out[d]
        /\ q # p => N = chan[q][d]
    <3>1. /\ q = p => Send(chan, p, out)[q][d] = chan[p][d] \o out[d]
          /\ q # p => Send(chan, p, out)[q][d] = chan[q][d]
      BY SendTo
    <3> QED BY <1>5, <3>1
  <2>1. CASE q = p
    <3> DEFINE c == chan[p][d]
               o == out[d]
    <3>1. N = c \o o /\ c \in Seq(Message) /\ o \in Seq(Message)
      BY <2>3, <2>1
    <3>2. (\A k \in DOMAIN c : MsgMade(T, c[k])) /\ (\A k \in DOMAIN o : MsgMade(T, o[k]))
      BY <1>2, <1>4 DEF OutMade
    <3> HIDE DEF c, o
    <3>3. i \in DOMAIN (c \o o)
      BY <1>5, <3>1
    <3>4. \/ i \in DOMAIN c /\ (c \o o)[i] = c[i]
          \/ \E k \in DOMAIN o : (c \o o)[i] = o[k]
      BY <3>1, <3>3, JoinedFrom
    <3> QED BY <3>1, <3>2, <3>4
  <2>2. CASE q # p
    <3>1. N = chan[q][d]
      BY <2>3, <2>2
    <3> QED BY <1>4, <1>5, <3>1
  <2> QED BY <2>1, <2>2
<1> QED BY <1>3, <1>5 DEF AllMade

\* All of the invariant after such a step.
LEMMA StepWarned ==
  ASSUME NEW S \in [Proc -> Shards], NEW p \in Proc, NEW s \in Shards, s = S[p],
         NEW t \in Shards, NEW T, T = [S EXCEPT ![p] = t],
         NEW M, MayHold(p, s, M), NEW D, NEW E, D \subseteq E,
         NEW chan \in [Proc -> [Proc -> Seq(Message)]], NEW out \in [Proc -> Seq(Message)],
         Emits(S, p, s, M, t, out, E),
         AllMade(S, chan), AllCalled(S, D, InHand(p, M), chan), AllHeldBack(S)
  PROVE  /\ AllMade(T, Send(chan, p, out))
         /\ AllCalled(T, E, EmptyHands, Send(chan, p, out))
         /\ AllHeldBack(T)
<1>1. Steps(p, s, M, t, out, E) /\ ShardMade(S, s)
  BY DEF Emits, AllMade
<1>2. AllMade(T, Send(chan, p, out))
  BY StepMade
<1>3. AllCalled(T, E, EmptyHands, Send(chan, p, out))
  BY <1>1, StepCalled
<1>4. AllHeldBack(T)
  BY <1>1, StepHeldBack
<1> QED BY <1>2, <1>3, <1>4

-----------------------------------------------------------------------------
(* What rounds and messages are made of *)

\* Every value the census names is made.
RoundMade(T, r) == \A q \in Proc : Made(T, r.node_states[q].v)

LEMMA NoVIsMade == \A T : Made(T, NoV)
BY DEF Made

LEMMA ClearRoundMade == \A T : RoundMade(T, ClearRound)
BY NoVIsMade DEF RoundMade, ClearRound, EmptyNode

\* A process's report names what it named, or the value it now goes by.
LEMMA SetMineMade ==
  ASSUME NEW T, NEW r \in RoundStates, NEW p \in Proc, RoundMade(T, r),
         NEW n, Made(T, n.v)
  PROVE  RoundMade(T, SetMine(r, p, n))
<1>1. \A q \in Proc : SetMine(r, p, n).node_states[q] = IF q = p THEN n ELSE r.node_states[q]
  BY DEF SetMine, Replace, RoundStates
<1> QED BY <1>1 DEF RoundMade

\* None of the steps of a round names what it was not given.
LEMMA TryAcceptMade ==
  ASSUME NEW T, NEW r \in RoundStates, NEW p \in Proc, RoundMade(T, r),
         NEW v \in Uid, Made(T, v), NEW a \in Proc
  PROVE  RoundMade(T, KCensusTryAccept(r, p, v, a))
<1> DEFINE n == AcceptWithKState(Mine(r, p), p, v, a, 0)
           o == SetMine(r, p, n)
<1>1. n.v = v
  <2>1. Mine(r, p) \in NodeStates
    BY MineType
  <2> QED BY <2>1 DEF AcceptWithKState, UpdateKState, NodeStates
<1>2. RoundMade(T, o)
  <2> HIDE DEF n
  <2> QED BY <1>1, SetMineMade
<1>3. [o EXCEPT !.proposers = @ \cup {a}].node_states = o.node_states
  BY DEF SetMine, RoundStates
<1> QED BY <1>2, <1>3 DEF KCensusTryAccept, RoundMade

LEMMA PrepareForV ==
  ASSUME NEW n \in NodeStates, NEW l
  PROVE  PrepareFor(n, l).v = n.v /\ PrepareFor(n, l).accept_round = n.accept_round
BY DEF PrepareFor, NodeStates

LEMMA FreezeMade ==
  ASSUME NEW T, NEW r \in RoundStates, NEW p \in Proc, RoundMade(T, r), NEW l
  PROVE  RoundMade(T, FreezeAndPrepareFor(r, p, l))
<1>1. Made(T, PrepareFor(Mine(r, p), l).v)
  <2>1. PrepareFor(Mine(r, p), l).v = Mine(r, p).v
    BY MineType, PrepareForV
  <2> QED BY <2>1 DEF RoundMade, Mine
<1> QED BY <1>1, SetMineMade DEF FreezeAndPrepareFor

LEMMA FreezeForLeadersMade ==
  ASSUME NEW T, NEW r \in RoundStates, NEW p \in Proc, RoundMade(T, r)
  PROVE  RoundMade(T, FreezeAndPrepareForLeaders(r, p))
<1> DEFINE n == [Mine(r, p) EXCEPT !.prepared_for = Highest(Leaders(r) \cup {@})]
<1>1. Made(T, n.v)
  <2>1. n.v = Mine(r, p).v
    BY MineType DEF NodeStates
  <2> QED BY <2>1 DEF RoundMade, Mine
<1> HIDE DEF n
<1>2. RoundMade(T, SetMine(r, p, n))
  BY <1>1, SetMineMade
<1> QED BY <1>2 DEF FreezeAndPrepareForLeaders, n

LEMMA UpdateRemoteMade ==
  ASSUME NEW T, NEW r \in RoundStates, RoundMade(T, r),
         NEW incoming, \A q \in Proc : Made(T, incoming[q].v)
  PROVE  RoundMade(T, UpdateRemoteStates(r, incoming))
BY DEF UpdateRemoteStates, RoundMade, RoundStates

LEMMA AdvanceMade ==
  ASSUME NEW T, NEW r \in RoundStates, NEW p \in Proc, RoundMade(T, r), NEW a \in Proc, NEW conflict
  PROVE  RoundMade(T, Advance(r, p, a, conflict))
<1> DEFINE t == Highest(Reached(r, p, a))
           n == UpdateKState(Mine(r, p), p, t)
           moved == [r EXCEPT !.propagation_states = Replace(@, a, t)]
<1>1. moved.node_states = r.node_states
  BY DEF RoundStates
<1>2. n.v = Mine(r, p).v
  BY MineType DEF UpdateKState, NodeStates
<1>3. \A q \in Proc : SetMine(moved, p, n).node_states[q] \in {n, r.node_states[q]}
  <2> HIDE DEF n
  <2> QED BY <1>1 DEF SetMine, Replace, RoundStates
<1>4. Advance(r, p, a, conflict) \in {r, moved, SetMine(moved, p, n)}
  <2> HIDE DEF moved, n
  <2> QED BY DEF Advance, moved, n
<1> HIDE DEF n, moved
<1>5. Made(T, n.v)
  BY <1>2 DEF RoundMade, Mine
<1> QED BY <1>1, <1>3, <1>4, <1>5 DEF RoundMade

LEMMA VoteForMade ==
  ASSUME NEW T, NEW r \in RoundStates, NEW p \in Proc, RoundMade(T, r), NEW l,
         NEW v \in Uid, Made(T, v)
  PROVE  RoundMade(T, VoteFor(r, p, l, v))
<1> DEFINE n == PaxosAccept(Mine(r, p), l, v)
<1>1. n.v \in {v, Mine(r, p).v}
  BY MineType, PrepareForV DEF PaxosAccept
<1>2. Made(T, n.v)
  BY <1>1 DEF RoundMade, Mine
<1>3. VoteFor(r, p, l, v).node_states = SetMine(r, p, n).node_states
  <2> HIDE DEF n
  <2> QED BY DEF VoteFor, SetMine, RoundStates, n
<1> HIDE DEF n
<1>4. RoundMade(T, SetMine(r, p, n))
  BY <1>2, SetMineMade
<1> QED BY <1>3, <1>4 DEF RoundMade

LEMMA RecvPaxosAcceptMade ==
  ASSUME NEW T, NEW r \in RoundStates, NEW p \in Proc, RoundMade(T, r), NEW src \in Proc,
         NEW v \in Uid, Made(T, v)
  PROVE  RoundMade(T, RecvPaxosAccept(r, p, src, v))
<1> DEFINE n == PaxosAccept(r.node_states[src], p, v)
<1>1. r.node_states[src] \in NodeStates
  BY DEF RoundStates
<1>2. n.v \in {v, r.node_states[src].v}
  BY <1>1, PrepareForV DEF PaxosAccept
<1>3. Made(T, n.v)
  BY <1>2 DEF RoundMade
<1> HIDE DEF n
<1>4. RecvPaxosAccept(r, p, src, v).node_states = Replace(r.node_states, src, n)
  BY DEF RecvPaxosAccept, RoundStates, n
<1> QED BY <1>3, <1>4 DEF RoundMade, Replace

\* What a Spread message says of the census is made.
LEMMA IncomingMade ==
  ASSUME NEW T, NEW m \in SpreadMsg, MsgMade(T, m), NEW q \in Proc
  PROVE  Made(T, Incoming(m)[q].v)
<1>1. m.type = "Spread"
  BY DEF SpreadMsg
<1>2. CASE m.explicit
  BY <1>1, <1>2 DEF Incoming, MsgMade
<1>3. CASE ~m.explicit
  <2>1. Incoming(m)[q] = BuildRemoteState(m.v, m.id, q)
    BY <1>3 DEF Incoming
  <2>2. BuildRemoteState(m.v, m.id, q).v \in {m.v, NoV}
    BY EmptyNodeType DEF BuildRemoteState, AcceptWithKState, UpdateKState, NodeStates, EmptyNode
  <2> QED BY <2>1, <2>2, NoVIsMade DEF MsgMade
<1> QED BY <1>2, <1>3

\* So is what a process knows once it has noted the message.
LEMMA InformedMade ==
  ASSUME NEW T, NEW r \in RoundStates, NEW p \in Proc, RoundMade(T, r),
         NEW m \in SpreadMsg, MsgMade(T, m)
  PROVE  RoundMade(T, Informed(r, p, m)) /\ Informed(r, p, m) \in RoundStates
<1>1. Incoming(m) \in [Proc -> NodeStates]
  <2>1. m.id \in MessageId /\ m.id.time \in StateIds(m.id.proposer, m.id.src)
    BY DEF SpreadMsg, SpreadId, MessageId
  <2> QED BY <2>1, BuildRemoteStateType DEF Incoming, SpreadMsg
<1>2. \A q \in Proc : Made(T, Incoming(m)[q].v)
  BY IncomingMade
<1> DEFINE o == UpdateRemoteStates(r, Incoming(m))
<1>3. o \in RoundStates /\ RoundMade(T, o)
  BY <1>1, <1>2, UpdateRemoteStatesType, UpdateRemoteMade
<1> HIDE DEF o
<1>4. m.v \in Uid /\ m.id.proposer \in Proc /\ Made(T, m.v)
  BY DEF SpreadMsg, SpreadId, MessageId, MsgMade
<1> QED BY <1>3, <1>4, TryAcceptType, TryAcceptMade DEF Informed, o

LEMMA NotedMade ==
  ASSUME NEW T, NEW p \in Proc, NEW s \in Shards, RoundMade(T, s.round_state),
         NEW m \in SpreadMsg, MsgMade(T, m)
  PROVE  RoundMade(T, Noted(s, p, m).round_state)
<1> DEFINE r == Informed(s.round_state, p, m)
           f == FreezeAndPrepareForLeaders(r, p)
<1>1. s.round_state \in RoundStates
  BY DEF Shards
<1>2. r \in RoundStates /\ RoundMade(T, r)
  BY <1>1, InformedMade
<1> HIDE DEF r
<1>3. RoundMade(T, f) /\ f \in RoundStates
  BY <1>2, FreezeForLeadersMade, FreezeForLeadersType
<1> HIDE DEF f
<1>4. Noted(s, p, m).round_state.node_states \in {f.node_states, r.node_states}
  BY <1>1, <1>2, <1>3 DEF Noted, Shards, RoundStates, r, f
<1> QED BY <1>2, <1>3, <1>4 DEF RoundMade

-----------------------------------------------------------------------------
(* Who votes in its own round *)

\* From r to o, p has not voted in its own round, unless it had, and then for the same.
SameOwnVote(p, r, o) ==
  Mine(o, p).accept_round = p => Mine(r, p).accept_round = p /\ Mine(o, p).v = Mine(r, p).v

LEMMA SameOwnVoteTwice ==
  ASSUME NEW p, NEW r, NEW o, NEW u, SameOwnVote(p, r, o), SameOwnVote(p, o, u)
  PROVE  SameOwnVote(p, r, u)
BY DEF SameOwnVote

\* A report with the same vote is no new one.
LEMMA SetMineOwnVote ==
  ASSUME NEW p \in Proc, NEW r \in RoundStates, NEW n,
         n.accept_round = p => Mine(r, p).accept_round = p /\ n.v = Mine(r, p).v,
         NEW o, o.node_states = SetMine(r, p, n).node_states
  PROVE  SameOwnVote(p, r, o)
<1>1. Mine(o, p) = n
  BY DEF Mine, SetMine, Replace, RoundStates
<1> QED BY <1>1 DEF SameOwnVote

LEMMA NotedOwnVote ==
  ASSUME NEW p \in Proc, NEW s \in Shards, NEW m \in SpreadMsg, NotedAsserts(s, p, m)
  PROVE  SameOwnVote(p, s.round_state, Noted(s, p, m).round_state)
<1> DEFINE merged == UpdateRemoteStates(s.round_state, Incoming(m))
           r == Informed(s.round_state, p, m)
           n == [Mine(r, p) EXCEPT !.prepared_for = Highest(Leaders(r) \cup {@})]
           u == AcceptWithKState(Mine(merged, p), p, m.v, m.id.proposer, 0)
<1>1. s.round_state \in RoundStates /\ m.v \in Uid /\ m.id.proposer \in Proc
  BY DEF Shards, SpreadMsg, SpreadId, MessageId
<1>2. Incoming(m) \in [Proc -> NodeStates]
  <2>1. m.id \in MessageId /\ m.id.time \in StateIds(m.id.proposer, m.id.src)
    BY DEF SpreadMsg, SpreadId, MessageId
  <2> QED BY <2>1, BuildRemoteStateType DEF Incoming, SpreadMsg
<1>3. merged \in RoundStates
  BY <1>1, <1>2, UpdateRemoteStatesType
<1>4. r = KCensusTryAccept(merged, p, m.v, m.id.proposer) /\ r \in RoundStates
  BY <1>1, <1>3, TryAcceptType DEF Informed
<1>5. Mine(merged, p) = Mine(s.round_state, p)
  <2>1. p \notin NewerThanOurs(s.round_state, Incoming(m))
    BY DEF NotedAsserts, UpdateRemoteAsserts
  <2> QED BY <1>1, <2>1 DEF UpdateRemoteStates, Mine, RoundStates
<1> HIDE DEF merged, r
<1>6. SameOwnVote(p, merged, r)
  <2>1. CASE Accepts(merged, p)
    <3>1. Mine(merged, p).accept_round = None
      BY <2>1 DEF Accepts, HasConflict
    <3>2. u.accept_round = None
      BY <1>3, <3>1, MineType DEF AcceptWithKState, UpdateKState, NodeStates
    <3>3. u.accept_round # p
      BY <3>2, NoneIsNobody
    <3> HIDE DEF u
    <3>4. r.node_states = SetMine(merged, p, u).node_states
      BY <1>3, <1>4, <2>1 DEF KCensusTryAccept, SetMine, RoundStates, u
    <3> QED BY <1>3, <3>3, <3>4, SetMineOwnVote
  <2>2. CASE ~Accepts(merged, p)
    BY <1>4, <2>2 DEF KCensusTryAccept, SameOwnVote
  <2> QED BY <2>1, <2>2
<1>7. n.accept_round = Mine(r, p).accept_round /\ n.v = Mine(r, p).v
  BY <1>4, MineType DEF NodeStates
<1>8. Noted(s, p, m).round_state.node_states \in {r.node_states, SetMine(r, p, n).node_states}
  <2> DEFINE f == SetMine(r, p, n)
  <2>1. f = FreezeAndPrepareForLeaders(r, p) /\ f \in RoundStates
    BY <1>4, FreezeForLeadersType DEF FreezeAndPrepareForLeaders
  <2> HIDE DEF f
  <2>2. Noted(s, p, m).round_state.node_states \in {f.node_states, r.node_states}
    BY <1>1, <1>4, <2>1 DEF Noted, Shards, RoundStates, r
  <2> QED BY <2>2 DEF f
<1> HIDE DEF n
<1>9. SameOwnVote(p, r, Noted(s, p, m).round_state)
  <2>1. CASE Noted(s, p, m).round_state.node_states = r.node_states
    BY <2>1 DEF SameOwnVote, Mine
  <2>2. CASE Noted(s, p, m).round_state.node_states = SetMine(r, p, n).node_states
    BY <1>4, <1>7, <2>2, SetMineOwnVote
  <2> QED BY <1>8, <2>1, <2>2
<1>10. SameOwnVote(p, merged, Noted(s, p, m).round_state)
  BY <1>6, <1>9, SameOwnVoteTwice
<1> QED BY <1>5, <1>10 DEF SameOwnVote

LEMMA AdvanceOwnVote ==
  ASSUME NEW p \in Proc, NEW r \in RoundStates, NEW a \in Proc, NEW conflict
  PROVE  SameOwnVote(p, r, Advance(r, p, a, conflict))
<1> DEFINE t == Highest(Reached(r, p, a))
           n == UpdateKState(Mine(r, p), p, t)
           moved == [r EXCEPT !.propagation_states = Replace(@, a, t)]
<1>1. moved.node_states = r.node_states
  BY DEF RoundStates
<1>2. n.v = Mine(r, p).v /\ n.accept_round = Mine(r, p).accept_round
  BY MineType DEF UpdateKState, NodeStates
<1>3. SetMine(moved, p, n).node_states = SetMine(r, p, n).node_states
  <2> HIDE DEF n
  <2> QED BY <1>1 DEF SetMine, RoundStates
<1>4. Advance(r, p, a, conflict) \in {r, moved, SetMine(moved, p, n)}
  <2> HIDE DEF moved, n
  <2> QED BY DEF Advance, moved, n
<1> HIDE DEF n, moved
<1>5. SameOwnVote(p, r, r) /\ SameOwnVote(p, r, moved)
  BY <1>1 DEF SameOwnVote, Mine
<1>6. SameOwnVote(p, r, SetMine(moved, p, n))
  BY <1>2, <1>3, SetMineOwnVote
<1> QED BY <1>4, <1>5, <1>6

LEMMA FreezeOwnVote ==
  ASSUME NEW p \in Proc, NEW r \in RoundStates, NEW l
  PROVE  SameOwnVote(p, r, FreezeAndPrepareFor(r, p, l))
<1> DEFINE n == PrepareFor(Mine(r, p), l)
<1>1. n.v = Mine(r, p).v /\ n.accept_round = Mine(r, p).accept_round
  BY MineType, PrepareForV
<1>2. FreezeAndPrepareFor(r, p, l) = SetMine(r, p, n)
  BY DEF FreezeAndPrepareFor
<1> HIDE DEF n
<1> QED BY <1>1, <1>2, SetMineOwnVote

\* A vote in another's round is no vote in one's own.
LEMMA VoteForOwnVote ==
  ASSUME NEW p \in Proc, NEW r \in RoundStates, NEW l, l # p, NEW v
  PROVE  SameOwnVote(p, r, VoteFor(r, p, l, v))
<1> DEFINE n == PaxosAccept(Mine(r, p), l, v)
<1>1. n.accept_round = p => Mine(r, p).accept_round = p /\ n.v = Mine(r, p).v
  BY MineType, PrepareForV DEF PaxosAccept
<1>2. VoteFor(r, p, l, v).node_states = SetMine(r, p, n).node_states
  <2> HIDE DEF n
  <2> QED BY DEF VoteFor, SetMine, RoundStates, n
<1> HIDE DEF n
<1> QED BY <1>1, <1>2, SetMineOwnVote

\* Nor is counting a vote, once one has voted oneself.
LEMMA RecvOwnVote ==
  ASSUME NEW p \in Proc, NEW r \in RoundStates, NEW src \in Proc, NEW v,
         Mine(r, p).accept_round = p
  PROVE  SameOwnVote(p, r, RecvPaxosAccept(r, p, src, v))
<1> DEFINE n == PaxosAccept(r.node_states[src], p, v)
<1>1. r.node_states[src] \in NodeStates
  BY DEF RoundStates
<1>2. src = p => n.v = Mine(r, p).v
  <2> SUFFICES ASSUME src = p PROVE n.v = Mine(r, p).v
    OBVIOUS
  <2>1. ~Votes(r.node_states[src], p)
    BY ProcIsNat DEF Votes, Mine
  <2> QED BY <1>1, <2>1, PrepareForV DEF PaxosAccept, Mine
<1> HIDE DEF n
<1>3. RecvPaxosAccept(r, p, src, v).node_states = Replace(r.node_states, src, n)
  BY DEF RecvPaxosAccept, RoundStates, n
<1>4. Mine(RecvPaxosAccept(r, p, src, v), p) = IF src = p THEN n ELSE Mine(r, p)
  BY <1>3 DEF Mine, Replace
<1> QED BY <1>2, <1>4 DEF SameOwnVote

-----------------------------------------------------------------------------
(* What is sent *)

NoCommits(out) == \A d \in Proc : \A i \in DOMAIN out[d] : out[d][i].type # "Commit"

LEMMA NothingMade == \A T : OutMade(T, Nothing) /\ NoCommits(Nothing)
BY DEF OutMade, NoCommits, Nothing

LEMMA ThenMade ==
  ASSUME NEW T, NEW o1 \in [Proc -> Seq(Message)], NEW o2 \in [Proc -> Seq(Message)],
         OutMade(T, o1), OutMade(T, o2)
  PROVE  OutMade(T, Then(o1, o2))
<1> SUFFICES ASSUME NEW d \in Proc, NEW i \in DOMAIN (o1[d] \o o2[d])
             PROVE  MsgMade(T, (o1[d] \o o2[d])[i])
  BY DEF OutMade, Then
<1> DEFINE c == o1[d]
           o == o2[d]
<1>1. c \in Seq(Message) /\ o \in Seq(Message) /\ i \in DOMAIN (c \o o)
  OBVIOUS
<1>2. (\A k \in DOMAIN c : MsgMade(T, c[k])) /\ (\A k \in DOMAIN o : MsgMade(T, o[k]))
  BY DEF OutMade
<1> HIDE DEF c, o
<1>3. \/ i \in DOMAIN c /\ (c \o o)[i] = c[i]
      \/ \E k \in DOMAIN o : (c \o o)[i] = o[k]
  BY <1>1, JoinedFrom
<1>4. MsgMade(T, (c \o o)[i])
  BY <1>2, <1>3
<1> QED BY <1>4 DEF c, o

\* A message to all is sent to those it is meant for, and to them alone.
LEMMA ToOthersAt ==
  ASSUME NEW p, NEW D, NEW m, NEW d \in Proc
  PROVE  /\ \A i \in DOMAIN ToOthers(p, D, m)[d] : ToOthers(p, D, m)[d][i] = m /\ d # p
         /\ d \in D \ {p} => m \in Range(ToOthers(p, D, m)[d])
<1>1. ToOthers(p, D, m)[d] = IF d \in D \ {p} THEN <<m>> ELSE <<>>
  BY DEF ToOthers
<1>2. DOMAIN <<m>> = {1} /\ <<m>>[1] = m /\ DOMAIN <<>> = {}
  OBVIOUS
<1>3. CASE d \in D \ {p}
  <2>1. ToOthers(p, D, m)[d] = <<m>>
    BY <1>1, <1>3
  <2> QED BY <1>2, <1>3, <2>1 DEF Range
<1>4. CASE d \notin D \ {p}
  <2>1. DOMAIN ToOthers(p, D, m)[d] = {}
    BY <1>1, <1>2, <1>4
  <2> QED BY <1>4, <2>1
<1> QED BY <1>3, <1>4

LEMMA ToOthersMade ==
  ASSUME NEW T, NEW p, NEW D, NEW m, MsgMade(T, m)
  PROVE  OutMade(T, ToOthers(p, D, m))
BY ToOthersAt DEF OutMade

LEMMA SpreadsMade ==
  ASSUME NEW T, NEW p \in Proc, NEW s \in Shards, NEW v \in Uid, Made(T, v), NEW a, NEW U,
         NEW newValue, newValue => NewIn(T, v, Slot(s)), RoundMade(T, s.round_state)
  PROVE  OutMade(T, Spreads(s, p, v, a, U, newValue)) /\ NoCommits(Spreads(s, p, v, a, U, newValue))
<1> DEFINE r == s.round_state
           views == IF HasConflict(r, p) THEN r.node_states ELSE ClearRound.node_states
           say(id) == [type |-> "Spread", slot |-> Slot(s), v |-> v, id |-> id,
                       explicit |-> HasConflict(r, p), remote_states |-> views,
                       new_value |-> newValue]
           ids(d) == InTimeOrder(Emitted(a, p, U, d))
<1>1. \A d \in Proc : Spreads(s, p, v, a, U, newValue)[d] = [i \in DOMAIN ids(d) |-> say(ids(d)[i])]
  BY DEF Spreads
<1>2. \A q \in Proc : Made(T, views[q].v)
  BY ClearRoundMade DEF RoundMade
<1> HIDE DEF views, ids
<1>3. \A id : MsgMade(T, say(id)) /\ say(id).type # "Commit"
  BY <1>2 DEF MsgMade
<1> HIDE DEF say
<1> SUFFICES ASSUME NEW d \in Proc, NEW i \in DOMAIN Spreads(s, p, v, a, U, newValue)[d]
             PROVE  /\ MsgMade(T, Spreads(s, p, v, a, U, newValue)[d][i])
                    /\ Spreads(s, p, v, a, U, newValue)[d][i].type # "Commit"
  BY DEF OutMade, NoCommits
<1>4. Spreads(s, p, v, a, U, newValue)[d][i] = say(ids(d)[i])
  BY <1>1
<1> QED BY <1>3, <1>4

LEMMA ValueSpreadsMade ==
  ASSUME NEW T, NEW p, NEW s, NEW v, Made(T, v), NEW a, NEW t
  PROVE  OutMade(T, ValueSpreads(s, p, v, a, t)) /\ NoCommits(ValueSpreads(s, p, v, a, t))
<1> DEFINE say(id) == [type |-> "SpreadValueOnly", v |-> v, id |-> id]
           ids(d) == InTimeOrder({id \in Emitted(a, p, {t}, d) : ShouldIncludeValue(id)})
<1>1. \A d \in Proc : ValueSpreads(s, p, v, a, t)[d] =
        IF v \in s.queued_commands THEN [i \in DOMAIN ids(d) |-> say(ids(d)[i])] ELSE <<>>
  BY DEF ValueSpreads
<1>2. \A id : MsgMade(T, say(id)) /\ say(id).type # "Commit"
  BY DEF MsgMade
<1> HIDE DEF say, ids
<1> SUFFICES ASSUME NEW d \in Proc, NEW i \in DOMAIN ValueSpreads(s, p, v, a, t)[d]
             PROVE  /\ MsgMade(T, ValueSpreads(s, p, v, a, t)[d][i])
                    /\ ValueSpreads(s, p, v, a, t)[d][i].type # "Commit"
  BY DEF OutMade, NoCommits
<1>3. CASE v \in s.queued_commands
  <2>1. ValueSpreads(s, p, v, a, t)[d] = [k \in DOMAIN ids(d) |-> say(ids(d)[k])]
    BY <1>1, <1>3
  <2> QED BY <1>2, <2>1
<1>4. CASE v \notin s.queued_commands
  <2>1. ValueSpreads(s, p, v, a, t)[d] = <<>>
    BY <1>1, <1>4
  <2> QED BY <2>1
<1> QED BY <1>3, <1>4

-----------------------------------------------------------------------------
(* The handlers *)

\* A step of a handler that takes p from s among the shards S, with M in hand.
ActsWell(S, p, s, M, chan) ==
  /\ decided \subseteq decided'
  /\ \E t \in Shards : \E out \in [Proc -> Seq(Message)] :
       Become(p, t, chan, out) /\ Emits(S, p, s, M, t, out, decided')

\* From s to w only the round, and what was seen of it, changes.
OnlyRound(s, w) ==
  /\ w.log = s.log /\ w.queued_messages = s.queued_messages /\ w.scan = s.scan
  /\ w.queued_commands = s.queued_commands /\ w.next_uid = s.next_uid
  /\ s.slot_left_fast_path => w.slot_left_fast_path

LEMMA OutMadeLater ==
  ASSUME NEW S \in [Proc -> Shards], NEW T \in [Proc -> Shards], Later(S, T),
         NEW out \in [Proc -> Seq(Message)], OutMade(S, out)
  PROVE  OutMade(T, out)
<1> SUFFICES ASSUME NEW d \in Proc, NEW i \in DOMAIN out[d] PROVE MsgMade(T, out[d][i])
  BY DEF OutMade
<1> DEFINE o == out[d]
<1>1. o \in Seq(Message) /\ i \in DOMAIN o /\ MsgMade(S, o[i]) /\ o[i] = out[d][i]
  BY DEF OutMade
<1> HIDE DEF o
<1>2. o[i] \in Message
  BY <1>1
<1> QED BY <1>1, <1>2, MsgMadeLater

LEMMA RoundMadeLater ==
  ASSUME NEW S \in [Proc -> Shards], NEW T \in [Proc -> Shards], Later(S, T),
         NEW r \in RoundStates, RoundMade(S, r)
  PROVE  RoundMade(T, r)
<1> SUFFICES ASSUME NEW q \in Proc PROVE Made(T, r.node_states[q].v)
  BY DEF RoundMade
<1>1. r.node_states[q].v \in Uid \cup {NoV}
  BY DEF RoundStates, NodeStates
<1> QED BY <1>1, MadeLater DEF RoundMade

\* A step within the slot leaves what is made of what exists.
LEMMA GoesEmits ==
  ASSUME NEW S \in [Proc -> Shards], NEW p \in Proc, NEW s \in Shards, s = S[p], ShardMade(S, s),
         NEW t \in Shards, NEW T, T = [S EXCEPT ![p] = t], NEW M, NEW D,
         NEW out \in [Proc -> Seq(Message)], Goes(p, s, M, t, out),
         RoundMade(T, t.round_state), OutMade(T, out),
         \A v \in t.queued_commands \ s.queued_commands : Made(T, v)
  PROVE  Emits(S, p, s, M, t, out, D)
<1>1. Steps(p, s, M, t, out, D) /\ T \in [Proc -> Shards]
  BY DEF Steps
<1>2. Later(S, T)
  BY <1>1, StepLater
<1>3. ShardMade(T, s)
  BY <1>1, <1>2, ShardMadeLater
<1>4. ShardMade(T, t)
  BY <1>3 DEF ShardMade, Goes, RoundMade
<1> QED BY <1>1, <1>4 DEF Emits

\* The case where nothing is made.
LEMMA OnlyRoundActs ==
  ASSUME NEW S \in [Proc -> Shards], NEW p \in Proc, NEW s \in Shards, s = S[p], ShardMade(S, s),
         NEW t \in Shards, OnlyRound(s, t), NEW M,
         p \in AliveReplicas =>
           \A m \in M : m.type = "PaxosAccept" /\ m.slot = Slot(s) => t.slot_left_fast_path,
         SameOwnVote(p, s.round_state, t.round_state), RoundMade(S, t.round_state),
         NEW out \in [Proc -> Seq(Message)], OutMade(S, out), NoCommits(out),
         NEW chan, Become(p, t, chan, out), UNCHANGED history
  PROVE  ActsWell(S, p, s, M, chan)
<1> DEFINE T == [S EXCEPT ![p] = t]
<1>1. T \in [Proc -> Shards]
  OBVIOUS
<1>2. Goes(p, s, M, t, out)
  BY DEF Goes, OnlyRound, NoCommits, SameOwnVote, MyV
<1>3. Later(S, T)
  BY <1>2, StepLater DEF Steps
<1>4. t.round_state \in RoundStates
  BY DEF Shards
<1>5. RoundMade(T, t.round_state) /\ OutMade(T, out)
  BY <1>1, <1>3, <1>4, OutMadeLater, RoundMadeLater
<1>6. \A v \in t.queued_commands \ s.queued_commands : Made(T, v)
  BY DEF OnlyRound
<1>7. Emits(S, p, s, M, t, out, decided')
  BY <1>2, <1>5, <1>6, GoesEmits
<1> QED BY <1>7 DEF ActsWell, history

\* What committing changes.
LEMMA CommitFields ==
  ASSUME NEW p \in Proc, NEW w, ShardTypeOK(p, w), NEW v \in Uid, NEW ok \in BOOLEAN,
         NEW t, t = Panic(CommitSlot(w, v), ok)
  PROVE  /\ t \in Shards
         /\ t.log = Append(w.log, [v |-> v, fast |-> ~w.slot_left_fast_path])
         /\ t.queued_messages = w.queued_messages /\ t.scan = 1 /\ t.round_state = ClearRound
         /\ t.queued_commands \subseteq w.queued_commands /\ t.next_uid = w.next_uid
<1> DEFINE u == CommitSlot(w, v)
           e == [v |-> v, fast |-> ~w.slot_left_fast_path]
           Q == {x \in w.queued_commands \ ({v} \cup v.members) : IsBatch(x) => x.slot > Slot(w)}
<1>1. ShardTypeOK(p, u) /\ w \in Shards
  BY CommitSlotType DEF ShardTypeOK
<1>2. ShardTypeOK(p, t)
  BY <1>1, PanicType
<1>3. u = [w EXCEPT !.queued_commands = Q, !.log = Append(@, e), !.slot_left_fast_path = FALSE,
                    !.round_state = ClearRound, !.scan = 1]
  BY DEF CommitSlot
<1>4. Q \subseteq w.queued_commands
  OBVIOUS
<1> HIDE DEF u, e, Q
<1>5. /\ u.log = Append(w.log, e) /\ u.queued_messages = w.queued_messages /\ u.scan = 1
      /\ u.round_state = ClearRound /\ u.queued_commands = Q /\ u.next_uid = w.next_uid
  BY <1>1, <1>3 DEF Shards
<1>6. /\ t.log = u.log /\ t.queued_messages = u.queued_messages /\ t.scan = u.scan
      /\ t.round_state = u.round_state /\ t.queued_commands = u.queued_commands
      /\ t.next_uid = u.next_uid
  <2>1. t = Panic(u, ok) /\ u \in Shards
    BY <1>1 DEF u, ShardTypeOK
  <2> QED BY <2>1 DEF Panic, Shards
<1> QED BY <1>2, <1>4, <1>5, <1>6 DEF ShardTypeOK, e

\* A commit leaves what is made of what exists.
LEMMA CommitEmits ==
  ASSUME NEW S \in [Proc -> Shards], NEW p \in Proc, NEW s \in Shards, s = S[p], ShardMade(S, s),
         NEW t \in Shards, NEW M, NEW D, NEW out \in [Proc -> Seq(Message)],
         Commits(p, s, t, out, D), OutMade(S, out),
         NEW v \in Uid, Made(S, v), NEW f, t.log = Append(s.log, [v |-> v, fast |-> f])
  PROVE  Emits(S, p, s, M, t, out, D)
<1> DEFINE T == [S EXCEPT ![p] = t]
<1>1. Steps(p, s, M, t, out, D) /\ T \in [Proc -> Shards]
  BY DEF Steps
<1>2. Later(S, T)
  BY <1>1, StepLater
<1>3. ShardMade(T, s) /\ OutMade(T, out) /\ Made(T, v)
  BY <1>1, <1>2, ShardMadeLater, OutMadeLater, MadeLater
<1>4. ASSUME NEW i \in DOMAIN t.log PROVE Made(T, t.log[i].v)
  <2> DEFINE e == [v |-> v, fast |-> f]
             Entry == [v : Uid, fast : BOOLEAN]
  <2>1. s.log \in Seq(Entry) /\ t.log \in Seq(Entry)
    BY DEF Shards
  <2>2. e.v = v /\ t.log = Append(s.log, e)
    OBVIOUS
  <2> HIDE DEF e, Entry
  <2>3. t.log[i] = e \/ (i \in DOMAIN s.log /\ t.log[i] = s.log[i])
    <3>1. DOMAIN t.log = 1 .. Len(t.log) /\ DOMAIN s.log = 1 .. Len(s.log) /\ Len(s.log) \in Nat
      BY <2>1
    <3>2. Len(t.log) = Len(s.log) + 1
      BY <2>1, <2>2
    <3>3. CASE i = Len(s.log) + 1
      BY <2>1, <2>2, <3>3
    <3>4. CASE i # Len(s.log) + 1
      BY <2>1, <2>2, <3>1, <3>2, <3>4
    <3> QED BY <3>3, <3>4
  <2> QED BY <1>3, <2>2, <2>3 DEF ShardMade
<1>5. /\ t.queued_messages = s.queued_messages /\ t.round_state = ClearRound
      /\ t.queued_commands \subseteq s.queued_commands
  BY DEF Commits
<1>6. ShardMade(T, t)
  <2>1. \A q \in Proc : Made(T, t.round_state.node_states[q].v)
    BY <1>5, ClearRoundMade DEF RoundMade
  <2> QED BY <1>3, <1>4, <1>5, <2>1 DEF ShardMade
<1> QED BY <1>1, <1>3, <1>6 DEF Emits

\* A leader decides: on the fast path, or for the command it voted for and called for.
LEMMA DecideActs ==
  ASSUME HandlersTypeOK, NEW S \in [Proc -> Shards], NEW p \in Proc, NEW s \in Shards, s = S[p],
         ShardMade(S, s), NEW w, ShardTypeOK(p, w), OnlyRound(s, w),
         NEW v \in Uid, Made(S, v), NEW fast \in BOOLEAN,
         \/ fast
         \/ /\ w.slot_left_fast_path
            /\ Mine(s.round_state, p).accept_round = p /\ MyV(s, p) = v,
         NEW M, NEW out \in [Proc -> Seq(Message)], OutMade(S, out), NoCommits(out),
         NEW chan, Decide(p, w, v, fast, chan, out)
  PROVE  ActsWell(S, p, s, M, chan)
<1> DEFINE commit == [type |-> "Commit", slot |-> Slot(w), v |-> v]
           ok == CommitAsserts(w, v) /\ MyV(w, p) = v
           t == Panic(CommitSlot(w, v), ok)
           tell == ToOthers(p, Proc, commit)
           sent == Then(out, tell)
           e == [slot |-> Slot(w), v |-> v, fast |-> fast]
<1>1. Become(p, t, chan, sent) /\ decided' = decided \cup {e}
  BY DEF Decide
<1>2. Slot(w) = Slot(s) /\ Slot(s) \in Nat
  BY SlotType DEF OnlyRound, Slot
<1>3. commit \in CommitMsg /\ commit.type = "Commit" /\ commit.slot = Slot(s) /\ commit.v = v
  BY <1>2 DEF CommitMsg
<1>4. e.slot = Slot(s) /\ e.fast = fast
  BY <1>2
<1>5. ok \in BOOLEAN
  BY DEF CommitAsserts
<1> HIDE DEF ok, commit, e
<1>6. /\ t \in Shards
      /\ t.log = Append(w.log, [v |-> v, fast |-> ~w.slot_left_fast_path])
      /\ t.queued_messages = w.queued_messages /\ t.scan = 1 /\ t.round_state = ClearRound
      /\ t.queued_commands \subseteq w.queued_commands /\ t.next_uid = w.next_uid
  BY <1>5, CommitFields
<1> HIDE DEF t
<1>7. tell \in [Proc -> Seq(Message)] /\ OutMade(S, tell)
  <2>1. MsgMade(S, commit)
    BY <1>3 DEF MsgMade
  <2>2. Outgoing(tell)
    BY <1>3, ToOthersOutgoing
  <2> QED BY <2>1, <2>2, ToOthersMade DEF Outgoing
<1>8. sent \in [Proc -> Seq(Message)] /\ OutMade(S, sent)
  <2> HIDE DEF tell
  <2>1. sent \in [Proc -> Seq(Message)]
    BY <1>7 DEF Then
  <2> QED BY <1>7, <2>1, ThenMade
<1>9. fast => FastSlot(decided', Slot(s))
  BY <1>1, <1>4 DEF FastSlot
<1>10. ~w.slot_left_fast_path => FastSlot(decided', Slot(s))
  BY <1>9
<1>11. ASSUME NEW d \in Proc, NEW i \in DOMAIN sent[d], sent[d][i].type = "Commit"
       PROVE  /\ d # p /\ sent[d][i].slot = Slot(s) /\ sent[d][i].v = v
              /\ \/ FastSlot(decided', Slot(s))
                 \/ Mine(s.round_state, p).accept_round = p /\ MyV(s, p) = v
  <2> DEFINE c == out[d]
             o == tell[d]
  <2>1. c \in Seq(Message) /\ o \in Seq(Message) /\ sent[d] = c \o o
    BY <1>7 DEF Then
  <2>2. \A k \in DOMAIN c : c[k].type # "Commit"
    BY DEF NoCommits
  <2>3. \A k \in DOMAIN o : o[k] = commit /\ d # p
    BY ToOthersAt
  <2> HIDE DEF c, o, sent
  <2>4. \/ i \in DOMAIN c /\ (c \o o)[i] = c[i]
        \/ \E k \in DOMAIN o : (c \o o)[i] = o[k]
    BY <1>11, <2>1, JoinedFrom
  <2>5. sent[d][i] = commit /\ d # p
    BY <1>11, <2>1, <2>2, <2>3, <2>4
  <2> QED BY <1>3, <1>9, <2>5
<1> HIDE DEF sent
<1>12. t.log = Append(s.log, [v |-> v, fast |-> ~w.slot_left_fast_path])
  BY <1>6 DEF OnlyRound
<1>13. Commits(p, s, t, sent, decided')
  <2> DEFINE f == ~w.slot_left_fast_path
  <2>1. f \in BOOLEAN /\ t.log = Append(s.log, [v |-> v, fast |-> f])
    BY <1>12
  <2>2. f => FastSlot(decided', Slot(s))
    BY <1>10
  <2>3. /\ t.queued_messages = s.queued_messages /\ t.scan = 1 /\ t.round_state = ClearRound
        /\ t.queued_commands \subseteq s.queued_commands /\ t.next_uid = s.next_uid
    BY <1>6 DEF OnlyRound
  <2> HIDE DEF f
  <2> QED BY <1>11, <2>1, <2>2, <2>3 DEF Commits
<1>14. Emits(S, p, s, M, t, sent, decided')
  BY <1>6, <1>8, <1>12, <1>13, CommitEmits
<1> QED BY <1>1, <1>6, <1>8, <1>14 DEF ActsWell

LEMMA NothingIsSent == Nothing \in [Proc -> Seq(Message)]
BY DEF Nothing

\* A Commit is processed; a replica was warned if the slot is not fast.
LEMMA CommitMessageActs ==
  ASSUME HandlersTypeOK, NEW S \in [Proc -> Shards], NEW p \in Proc, NEW s, ShardTypeOK(p, s), s = S[p],
         ShardMade(S, s), NEW m \in MessageTo(p), MsgMade(S, m),
         p \in AliveReplicas /\ m.type = "Commit" /\ m.slot = Slot(s) =>
           FastSlot(decided, m.slot) \/ Left(s, m.slot),
         NEW chan, CommitMessage(p, m, s, chan)
  PROVE  ActsWell(S, p, s, {m}, chan)
<1> DEFINE ok == CommitAsserts(s, m.v)
           t == Panic(CommitSlot(s, m.v), ok)
<1>1. /\ m.type = "Commit" /\ m.slot = Slot(s) /\ Become(p, t, chan, Nothing) /\ UNCHANGED history
      /\ s \in Shards
  BY DEF CommitMessage, ShardTypeOK
<1>2. m.v \in Uid /\ Made(S, m.v)
  BY MessageToIsMessage, MessageKinds DEF MsgMade
<1>3. ok \in BOOLEAN
  BY DEF CommitAsserts
<1> HIDE DEF ok
<1>4. /\ t \in Shards
      /\ t.log = Append(s.log, [v |-> m.v, fast |-> ~s.slot_left_fast_path])
      /\ t.queued_messages = s.queued_messages /\ t.scan = 1 /\ t.round_state = ClearRound
      /\ t.queued_commands \subseteq s.queued_commands /\ t.next_uid = s.next_uid
  BY <1>2, <1>3, CommitFields
<1> HIDE DEF t
<1>5. p \in AliveReplicas /\ ~s.slot_left_fast_path => FastSlot(decided', Slot(s))
  <2>1. Slot(s) \in Nat /\ decided' = decided
    BY <1>1, SlotType DEF history
  <2> QED BY <1>1, <2>1 DEF Left
<1>6. Commits(p, s, t, Nothing, decided')
  <2> DEFINE f == ~s.slot_left_fast_path
  <2>1. f \in BOOLEAN /\ t.log = Append(s.log, [v |-> m.v, fast |-> f])
    BY <1>4
  <2>2. p \in AliveReplicas /\ f => FastSlot(decided', Slot(s))
    BY <1>5
  <2>3. \A d \in Proc : \A i \in DOMAIN Nothing[d] : Nothing[d][i].type # "Commit"
    BY NothingMade DEF NoCommits
  <2> HIDE DEF f
  <2> QED BY <1>2, <1>4, <2>1, <2>2, <2>3 DEF Commits
<1>7. Emits(S, p, s, {m}, t, Nothing, decided')
  BY <1>1, <1>2, <1>4, <1>6, NothingMade, NothingIsSent, CommitEmits
<1> QED BY <1>1, <1>4, <1>7, NothingIsSent DEF ActsWell, history

\* A message that only keeps its value travelling changes nothing here.
LEMMA ForwardActs ==
  ASSUME HandlersTypeOK, NEW S \in [Proc -> Shards], NEW p \in Proc, NEW s, ShardTypeOK(p, s), s = S[p],
         ShardMade(S, s), NEW m \in MessageTo(p), MsgMade(S, m), NEW chan,
         StaleMessage(p, m, s, chan) \/ ValueOnly(p, m, s, chan)
  PROVE  ActsWell(S, p, s, {m}, chan)
<1>1. s \in Shards /\ Slot(s) \in Nat
  BY SlotType DEF ShardTypeOK
<1>2. PICK out \in [Proc -> Seq(Message)] :
        Become(p, s, chan, out) /\ UNCHANGED history /\ OutMade(S, out) /\ NoCommits(out)
  <2>1. CASE /\ m.type \in {"Spread", "SpreadValueOnly"} /\ CarriesValue(m)
             /\ Become(p, s, chan, Forwarded(s, p, m)) /\ UNCHANGED history
    <3>1. Forwarded(s, p, m) \in [Proc -> Seq(Message)]
      BY <1>1, <2>1, ForwardedOutgoing DEF Outgoing
    <3>2. OutMade(S, Forwarded(s, p, m)) /\ NoCommits(Forwarded(s, p, m))
      BY ValueSpreadsMade DEF Forwarded, MsgMade
    <3> QED BY <2>1, <3>1, <3>2
  <2>2. CASE Become(p, s, chan, Nothing) /\ UNCHANGED history
    BY <2>2, NothingIsSent, NothingMade
  <2> QED BY <2>1, <2>2 DEF StaleMessage, ValueOnly, CarriesValue
<1>3. m.type = "PaxosAccept" => m.slot # Slot(s)
  <2>1. m.type = "PaxosAccept" => m.slot \in Nat /\ m.slot < Slot(s)
    BY MessageToIsMessage, MessageKinds DEF StaleMessage, ValueOnly, PaxosAcceptMsg
  <2> QED BY <1>1, <2>1
<1>4. OnlyRound(s, s) /\ SameOwnVote(p, s.round_state, s.round_state) /\ RoundMade(S, s.round_state)
  BY DEF OnlyRound, SameOwnVote, ShardMade, RoundMade
<1> QED BY <1>1, <1>2, <1>3, <1>4, OnlyRoundActs

\* A leader that is still bound to its own round voted there for what it called for.
LEMMA VotedForIt ==
  ASSUME NEW R, Good(R), NEW p \in Proc, NEW r \in RoundStates, RoundOK(R, p, r),
         NEW v \in Uid, VoteOf(p, v) \in R[p],
         Mine(FreezeAndPrepareFor(r, p, p), p).prepared_for = p
  PROVE  /\ Mine(r, p).accept_round = p /\ Mine(r, p).v = v
         /\ FreezeAndPrepareFor(r, p, p) = r
<1> DEFINE n == Mine(r, p)
           h == VoteOf(p, v)
<1>1. /\ n \in R[p] /\ n \in NodeStates /\ Sound(p, n) /\ h \in NodeStates /\ Sound(p, h)
      /\ Precedes(h, n)
  BY ReportFacts DEF RoundOK, Mine
<1>2. h.v = v /\ h.prepared_for = p /\ h.accept_round = p /\ p # None
  BY VoteOfFields, NoneIsNobody
<1>3. n.prepared_for \in Int /\ n.accept_round \in Int /\ p \in Int
  BY <1>1, Ranks, ProcIsNat
<1>4. FreezeAndPrepareFor(r, p, p) = r
  <2>1. p <= n.prepared_for
    BY <1>1, <1>2 DEF Precedes
  <2>2. ~(n.prepared_for < p)
    BY <1>3, <2>1
  <2> QED BY <2>2, PromisedAlready
<1> HIDE DEF n, h
<1>5. n.prepared_for = p
  BY <1>4 DEF n
<1>6. n.accept_round = p
  <2>1. p <= n.accept_round /\ n.accept_round <= n.prepared_for
    BY <1>1, <1>2 DEF Precedes, Sound
  <2> QED BY <1>3, <1>5, <2>1
<1>7. n.v = v
  <2>1. h.v # NoV
    BY <1>1, <1>2 DEF Sound
  <2> QED BY <1>1, <1>2, <1>6, <2>1 DEF Precedes
<1> QED BY <1>4, <1>6, <1>7 DEF n

\* What a PaxosAccept asks for.  The leader that decides had voted in its own round.
LEMMA PaxosAcceptActs ==
  ASSUME HandlersTypeOK, NEW S \in [Proc -> Shards], NEW p \in Proc, NEW s, ShardTypeOK(p, s), s = S[p],
         ShardMade(S, s), NEW H, GoodHistory(H), ShardOK(H, p, s),
         NEW m \in GoodTo(H, p), MsgMade(S, m), NEW chan,
         PaxosAcceptMessage(p, m, s, chan)
  PROVE  ActsWell(S, p, s, {m}, chan)
<1> DEFINE l        == m.leader
           R        == H[Slot(s)]
           r        == s.round_state
           prepared == Promise(s, p, l)
           o        == FreezeAndPrepareFor(r, p, l)
           vote     == VoteFor(o, p, l, m.v)
           count    == RecvPaxosAccept(o, p, m.src, m.v)
           voted    == [prepared EXCEPT !.round_state = vote]
           counted  == [prepared EXCEPT !.round_state = count]
           cast     == Panic(voted, m.src = l)
           answer   == [m EXCEPT !.src = p, !.new_value = FALSE]
           reply    == ToOthers(p, {l} \cap AliveReplicas, answer)
<1>1. m \in PaxosAcceptMsg /\ MsgOK(H, m) /\ m.type = "PaxosAccept" /\ m.slot = Slot(s)
  BY MessageToIsMessage, MessageKinds DEF PaxosAcceptMessage, GoodTo
<1>2. /\ l \in Proc /\ m.src \in Proc /\ m.v \in Uid /\ Made(S, m.v)
      /\ VoteOf(l, m.v) \in R[l]
  BY <1>1 DEF PaxosAcceptMsg, MsgOK, MsgMade
<1>3. /\ Slot(s) \in Nat /\ s \in Shards /\ r \in RoundStates /\ Good(R)
      /\ RoundOK(R, p, r)
  BY SlotType DEF ShardTypeOK, Shards, GoodHistory, ShardOK
<1>4. o \in RoundStates /\ vote \in RoundStates /\ count \in RoundStates
  BY <1>2, <1>3, FreezeType, VoteForType, RecvPaxosAcceptType
<1>5. RoundMade(S, r) /\ RoundMade(S, o) /\ RoundMade(S, vote) /\ RoundMade(S, count)
  <2>1. RoundMade(S, r)
    BY DEF ShardMade, RoundMade
  <2>2. RoundMade(S, o)
    BY <1>3, <2>1, FreezeMade
  <2> HIDE DEF o
  <2> QED BY <1>2, <1>4, <2>1, <2>2, VoteForMade, RecvPaxosAcceptMade
<1>6. SameOwnVote(p, r, o)
  BY <1>3, FreezeOwnVote
<1>7. /\ prepared = [s EXCEPT !.round_state = o, !.slot_left_fast_path = TRUE]
  BY <1>3 DEF Promise, Shards
<1> HIDE DEF o, prepared, vote, count
<1>8. /\ ShardTypeOK(p, prepared) /\ OnlyRound(s, prepared) /\ prepared.slot_left_fast_path
      /\ prepared.round_state = o
  <2>1. ShardTypeOK(p, [s EXCEPT !.round_state = o])
    BY <1>4, ShardUpdate
  <2>2. prepared = [[s EXCEPT !.round_state = o] EXCEPT !.slot_left_fast_path = TRUE]
    BY <1>3, <1>7 DEF Shards
  <2>3. ShardTypeOK(p, prepared)
    BY <2>1, <2>2, ShardUpdate
  <2> QED BY <1>3, <1>7, <2>3 DEF OnlyRound, Shards
<1>9. /\ ShardTypeOK(p, voted) /\ OnlyRound(s, voted) /\ voted.slot_left_fast_path
      /\ voted.round_state = vote
      /\ ShardTypeOK(p, counted) /\ OnlyRound(s, counted) /\ counted.slot_left_fast_path
      /\ counted.round_state = count
  <2>1. ShardTypeOK(p, voted) /\ ShardTypeOK(p, counted)
    BY <1>4, <1>8, ShardUpdate
  <2> QED BY <1>8, <2>1 DEF OnlyRound, ShardTypeOK, Shards
<1>10. \/ p \notin AliveReplicas /\ Become(p, s, chan, Nothing) /\ UNCHANGED history
       \/ Become(p, prepared, chan, Nothing) /\ UNCHANGED history
       \/ l # p /\ Become(p, cast, chan, reply) /\ UNCHANGED history
       \/ /\ l = p /\ Mine(prepared.round_state, p).prepared_for = l
          /\ \/ Decide(p, counted, m.v, FALSE, chan, Nothing)
             \/ Become(p, counted, chan, Nothing) /\ UNCHANGED history
  BY <1>8 DEF PaxosAcceptMessage, prepared, vote, count
<1> HIDE DEF voted, counted
<1>11. ShardTypeOK(p, cast) /\ OnlyRound(s, cast) /\ cast.slot_left_fast_path /\ cast.round_state = vote
  <2>1. (m.src = l) \in BOOLEAN
    OBVIOUS
  <2>2. ShardTypeOK(p, cast)
    BY <1>9, <2>1, PanicType
  <2> QED BY <1>9, <2>2 DEF Panic, OnlyRound, ShardTypeOK, Shards
<1> HIDE DEF cast
<1>12. CASE p \notin AliveReplicas /\ Become(p, s, chan, Nothing) /\ UNCHANGED history
  <2>1. OnlyRound(s, s) /\ SameOwnVote(p, r, r)
    BY DEF OnlyRound, SameOwnVote
  <2> QED BY <1>3, <1>5, <1>12, <2>1, NothingIsSent, NothingMade, OnlyRoundActs
<1>13. CASE Become(p, prepared, chan, Nothing) /\ UNCHANGED history
  <2>1. prepared \in Shards
    BY <1>8 DEF ShardTypeOK
  <2> QED BY <1>3, <1>5, <1>6, <1>8, <1>13, <2>1, NothingIsSent, NothingMade, OnlyRoundActs
<1>14. CASE l # p /\ Become(p, cast, chan, reply) /\ UNCHANGED history
  <2>1. answer \in PaxosAcceptMsg /\ answer.type = "PaxosAccept" /\ MsgMade(S, answer)
    <3>1. answer \in PaxosAcceptMsg /\ answer.type = "PaxosAccept" /\ answer.v = m.v /\ ~answer.new_value
      BY <1>1 DEF PaxosAcceptMsg
    <3> HIDE DEF answer
    <3> QED BY <1>2, <3>1 DEF MsgMade
  <2> HIDE DEF answer
  <2>2. OutMade(S, reply) /\ NoCommits(reply) /\ reply \in [Proc -> Seq(Message)]
    <3>1. NoCommits(reply)
      BY <2>1, ToOthersAt DEF NoCommits
    <3>2. reply \in [Proc -> Seq(Message)]
      BY <2>1, ToOthersOutgoing DEF Outgoing
    <3> QED BY <2>1, <3>1, <3>2, ToOthersMade
  <2>3. SameOwnVote(p, r, vote)
    <3>1. SameOwnVote(p, o, vote)
      BY <1>2, <1>4, <1>14, VoteForOwnVote DEF vote
    <3> QED BY <1>6, <3>1, SameOwnVoteTwice
  <2>4. cast \in Shards
    BY <1>11 DEF ShardTypeOK
  <2> HIDE DEF reply, l
  <2> QED BY <1>3, <1>5, <1>11, <1>14, <2>2, <2>3, <2>4, OnlyRoundActs
<1>15. CASE /\ l = p /\ Mine(prepared.round_state, p).prepared_for = l
            /\ \/ Decide(p, counted, m.v, FALSE, chan, Nothing)
               \/ Become(p, counted, chan, Nothing) /\ UNCHANGED history
  <2>1. Mine(r, p).accept_round = p /\ Mine(r, p).v = m.v /\ o = r
    <3>1. VoteOf(p, m.v) \in R[p] /\ Mine(FreezeAndPrepareFor(r, p, p), p).prepared_for = p
      BY <1>2, <1>8, <1>15 DEF o
    <3>2. /\ Mine(r, p).accept_round = p /\ Mine(r, p).v = m.v
          /\ FreezeAndPrepareFor(r, p, p) = r
      BY <1>2, <1>3, <3>1, VotedForIt
    <3> QED BY <1>15, <3>2 DEF o
  <2>2. CASE Decide(p, counted, m.v, FALSE, chan, Nothing)
    <3>1. MyV(s, p) = m.v
      BY <2>1 DEF MyV
    <3>2. PICK fast \in BOOLEAN : ~fast /\ Decide(p, counted, m.v, fast, chan, Nothing)
      BY <2>2
    <3> QED BY <1>2, <1>3, <1>9, <2>1, <3>1, <3>2, NothingIsSent, NothingMade, DecideActs
  <2>3. CASE Become(p, counted, chan, Nothing) /\ UNCHANGED history
    <3>1. SameOwnVote(p, r, count)
      BY <1>2, <1>3, <2>1, RecvOwnVote DEF count
    <3>2. counted \in Shards
      BY <1>9 DEF ShardTypeOK
    <3> QED BY <1>3, <1>5, <1>9, <2>3, <3>1, <3>2, NothingIsSent, NothingMade, OnlyRoundActs
  <2> QED BY <1>15, <2>2, <2>3
<1> QED BY <1>10, <1>12, <1>13, <1>14, <1>15

\* A value that p makes in its slot exists from then on, and was not executed before.
LEMMA FreshIsNew ==
  ASSUME NEW S \in [Proc -> Shards], NEW p \in Proc, NEW s \in Shards, s = S[p], ShardMade(S, s),
         NEW w \in Shards, w.log = s.log, w.next_uid = s.next_uid + 1,
         NEW W, W = [S EXCEPT ![p] = w],
         NEW b \in Uid, b.pid = p, b.seq = s.next_uid,
         \A u \in b.members : u.seq < S[u.pid].next_uid
  PROVE  W \in [Proc -> Shards] /\ Later(S, W) /\ Made(W, b) /\ NewIn(W, b, Slot(s))
<1>1. W \in [Proc -> Shards] /\ W[p] = w /\ \A q \in Proc : q # p => W[q] = S[q]
  OBVIOUS
<1>2. \A q \in Proc : S[q].next_uid \in Nat /\ Slot(S[q]) \in Nat
  BY SlotType DEF Shards
<1>3. s.next_uid \in Nat /\ Slot(w) = Slot(s) /\ Slot(s) \in Nat
  BY <1>2 DEF Slot
<1>4. Later(S, W)
  <2> SUFFICES ASSUME NEW q \in Proc
               PROVE  /\ S[q].next_uid <= W[q].next_uid /\ Slot(S[q]) <= Slot(W[q])
                      /\ \A i \in 1 .. Slot(S[q]) : W[q].log[i] = S[q].log[i]
    BY DEF Later
  <2>1. CASE q = p
    BY <1>1, <1>3, <2>1
  <2>2. CASE q # p
    BY <1>1, <1>2, <2>2
  <2> QED BY <2>1, <2>2
<1>5. ASSUME NEW u \in Named(b) PROVE u.seq < W[u.pid].next_uid
  <2>1. CASE u = b
    BY <1>1, <1>3, <2>1
  <2>2. CASE u \in b.members
    <3>1. u.seq < S[u.pid].next_uid /\ u.pid \in Proc /\ u.seq \in Nat
      BY <2>2, NamedType DEF Named
    <3>2. S[u.pid].next_uid <= W[u.pid].next_uid
      BY <1>4, <3>1 DEF Later
    <3>3. S[u.pid].next_uid \in Nat /\ W[u.pid].next_uid \in Nat
      BY <1>1, <3>1 DEF Shards
    <3> QED BY <3>1, <3>2, <3>3
  <2> QED BY <2>1, <2>2 DEF Named
<1>6. ASSUME NEW i \in 1 .. Slot(s) PROVE b \notin Named(w.log[i].v)
  <2>1. i \in DOMAIN s.log /\ s.log[i].v \in Uid
    <3> DEFINE Entry == [v : Uid, fast : BOOLEAN]
    <3>1. s.log \in Seq(Entry) /\ Slot(s) = Len(s.log)
      BY DEF Shards, Slot
    <3> HIDE DEF Entry
    <3>2. i \in DOMAIN s.log /\ s.log[i] \in Entry
      BY <3>1
    <3> QED BY <3>2 DEF Entry
  <2>2. Made(S, s.log[i].v)
    BY <2>1 DEF ShardMade
  <2> QED BY <2>1, <2>2, UnmadeIsNotNamed
<1> QED BY <1>1, <1>3, <1>4, <1>5, <1>6 DEF Made, NewIn

\* From s to w p stores at most one value, a new one; the slot does not change.
AtMostOneNew(p, s, w) ==
  /\ w.log = s.log /\ w.queued_messages = s.queued_messages /\ w.scan = s.scan
  /\ s.slot_left_fast_path => w.slot_left_fast_path
  /\ \/ w.queued_commands = s.queued_commands /\ w.next_uid = s.next_uid
     \/ \E b \in Uid : /\ b.pid = p /\ b.seq = s.next_uid /\ w.next_uid = s.next_uid + 1
                       /\ w.queued_commands = s.queued_commands \cup {b}

\* The leader votes in its round, and calls every replica to.
LEMMA AcceptActs ==
  ASSUME NEW S \in [Proc -> Shards], NEW p \in Proc, NEW s \in Shards, s = S[p], ShardMade(S, s),
         NEW w, ShardTypeOK(p, w), NEW W, W = [S EXCEPT ![p] = w], Later(S, W),
         AtMostOneNew(p, s, w),
         \A x \in w.queued_commands \ s.queued_commands : Made(W, x),
         RoundMade(S, w.round_state),
         NEW v \in Uid, Made(W, v), NEW newValue \in BOOLEAN, newValue => NewIn(W, v, Slot(s)),
         CanStartPaxosAccept(w.round_state, p),
         NEW M, \A m \in M : m.type # "PaxosAccept",
         NEW out \in [Proc -> Seq(Message)], OutMade(S, out), NoCommits(out),
         NEW chan, AcceptInFallback(p, w, v, newValue, chan, out),
         decided' = decided
  PROVE  ActsWell(S, p, s, M, chan)
<1> DEFINE accept == [type |-> "PaxosAccept", slot |-> Slot(w), src |-> p,
                      leader |-> p, v |-> v, new_value |-> newValue]
           r == VoteFor(w.round_state, p, p, v)
           dest == IF newValue THEN Proc ELSE AliveReplicas
           ok == AdoptAsserts(w.round_state)
           u == [w EXCEPT !.round_state = r]
           t == Panic(u, ok)
           call == ToOthers(p, dest, accept)
           sent == Then(out, call)
           T == [S EXCEPT ![p] = t]
<1>1. Become(p, t, chan, sent)
  BY DEF AcceptInFallback
<1>2. /\ w \in Shards /\ w.round_state \in RoundStates /\ Slot(w) = Slot(s) /\ Slot(s) \in Nat
  BY SlotType DEF AtMostOneNew, ShardTypeOK, Shards, Slot
<1>3. /\ accept \in PaxosAcceptMsg /\ accept.type = "PaxosAccept" /\ accept.v = v
      /\ accept.slot = Slot(s) /\ accept.new_value = newValue
  BY <1>2 DEF PaxosAcceptMsg
<1>4. r \in RoundStates
  BY <1>2, VoteForType
<1>5. Mine(r, p).v = v
  <2> DEFINE n == Mine(w.round_state, p)
  <2>1. Votes(n, p)
    BY <1>2, ProcIsNat DEF CanStartPaxosAccept, Votes
  <2>2. PaxosAccept(n, p, v).v = v
    BY <2>1 DEF PaxosAccept
  <2> HIDE DEF n
  <2>3. r.node_states = SetMine(w.round_state, p, PaxosAccept(n, p, v)).node_states
    BY <1>2, MineType DEF VoteFor, SetMine, RoundStates, n
  <2>4. Mine(r, p) = PaxosAccept(n, p, v)
    BY <1>2, <2>3 DEF Mine, SetMine, Replace, RoundStates
  <2> QED BY <2>2, <2>4
<1>6. ok \in BOOLEAN
  BY DEF AdoptAsserts
<1>7. AliveReplicas \subseteq dest
  BY ReplicasFinite
<1> HIDE DEF r, accept, dest, ok
<1>8. ShardTypeOK(p, u)
  BY <1>4, ShardUpdate
<1>9. /\ u.round_state = r /\ u.log = w.log /\ u.queued_messages = w.queued_messages
      /\ u.scan = w.scan /\ u.slot_left_fast_path = w.slot_left_fast_path
      /\ u.queued_commands = w.queued_commands /\ u.next_uid = w.next_uid
  BY <1>2 DEF Shards
<1> HIDE DEF u
<1>10. /\ t \in Shards /\ t.round_state = r /\ t.log = w.log /\ t.queued_messages = w.queued_messages
       /\ t.scan = w.scan /\ t.slot_left_fast_path = w.slot_left_fast_path
       /\ t.queued_commands = w.queued_commands /\ t.next_uid = w.next_uid
  <2>1. ShardTypeOK(p, t) /\ u \in Shards
    BY <1>6, <1>8, PanicType DEF ShardTypeOK
  <2>2. t = Panic(u, ok)
    OBVIOUS
  <2> HIDE DEF t
  <2> QED BY <1>9, <2>1, <2>2 DEF Panic, ShardTypeOK, Shards
<1> HIDE DEF t
<1>11. T \in [Proc -> Shards] /\ W \in [Proc -> Shards] /\ Later(W, T) /\ Later(S, T)
  <2>1. W \in [Proc -> Shards] /\ T \in [Proc -> Shards]
    BY <1>2, <1>10
  <2>2. \A q \in Proc : /\ T[q].next_uid = W[q].next_uid /\ T[q].log = W[q].log
    BY <1>10
  <2> HIDE DEF T
  <2>3. Later(W, W)
    BY <2>1, LaterIsReflexive
  <2>4. Later(W, T)
    BY <2>2, <2>3 DEF Later, Slot
  <2>5. Later(S, T)
    BY <2>2 DEF Later, Slot
  <2> QED BY <2>1, <2>4, <2>5
<1>12. Made(T, v) /\ (newValue => NewIn(T, v, Slot(s)))
  <2> HIDE DEF T
  <2> QED BY <1>2, <1>11, MadeLater, NewInLater
<1>13. RoundMade(T, r)
  <2> HIDE DEF T
  <2>1. RoundMade(T, w.round_state)
    BY <1>2, <1>11, RoundMadeLater
  <2> QED BY <1>2, <1>12, <2>1, VoteForMade DEF r
<1>14. call \in [Proc -> Seq(Message)] /\ OutMade(T, call) /\ NoCommits(call)
  <2> HIDE DEF T
  <2>1. MsgMade(T, accept)
    BY <1>3, <1>12 DEF MsgMade
  <2>2. call \in [Proc -> Seq(Message)]
    BY <1>3, ToOthersOutgoing DEF Outgoing
  <2>3. NoCommits(call)
    BY <1>3, ToOthersAt DEF NoCommits
  <2> QED BY <2>1, <2>2, <2>3, ToOthersMade
<1>15. sent \in [Proc -> Seq(Message)] /\ OutMade(T, sent) /\ NoCommits(sent)
  <2> HIDE DEF T, call
  <2>1. sent \in [Proc -> Seq(Message)]
    <3>1. \A d \in Proc : out[d] \o call[d] \in Seq(Message)
      <4> SUFFICES ASSUME NEW d \in Proc PROVE out[d] \o call[d] \in Seq(Message)
        OBVIOUS
      <4> DEFINE c == out[d]
                 o == call[d]
      <4>1. c \in Seq(Message) /\ o \in Seq(Message)
        BY <1>14
      <4> HIDE DEF c, o
      <4>2. c \o o \in Seq(Message)
        BY <4>1
      <4> QED BY <4>2 DEF c, o
    <3> QED BY <3>1 DEF Then
  <2>2. OutMade(T, out)
    BY <1>11, OutMadeLater
  <2>3. OutMade(T, sent)
    BY <1>14, <2>1, <2>2, ThenMade
  <2>4. ASSUME NEW d \in Proc, NEW i \in DOMAIN sent[d] PROVE sent[d][i].type # "Commit"
    <3> DEFINE c == out[d]
               o == call[d]
    <3>1. c \in Seq(Message) /\ o \in Seq(Message) /\ sent[d] = c \o o
      BY <1>14 DEF Then
    <3>2. \A k \in DOMAIN c : c[k].type # "Commit"
      BY DEF NoCommits
    <3>3. \A k \in DOMAIN o : o[k].type # "Commit"
      BY <1>14 DEF NoCommits
    <3> HIDE DEF c, o, sent
    <3>4. \/ i \in DOMAIN c /\ (c \o o)[i] = c[i]
          \/ \E k \in DOMAIN o : (c \o o)[i] = o[k]
      BY <2>4, <3>1, JoinedFrom
    <3> QED BY <3>1, <3>2, <3>3, <3>4
  <2> QED BY <2>1, <2>3, <2>4 DEF NoCommits
<1>16. ASSUME NEW d \in AliveReplicas \ {p}
       PROVE  \E m \in Range(sent[d]) : IsAccept(m, Slot(s), MyV(t, p))
  <2> DEFINE c == out[d]
             o == call[d]
  <2>1. d \in Proc /\ d \in dest \ {p}
    BY <1>7, ReplicasFinite
  <2>2. c \in Seq(Message) /\ o \in Seq(Message) /\ sent[d] = c \o o
    BY <1>14, <2>1 DEF Then
  <2>3. accept \in Range(o)
    BY <2>1, ToOthersAt
  <2> HIDE DEF c, o, sent
  <2>4. accept \in Range(c \o o)
    <3>1. PICK k \in DOMAIN o : o[k] = accept
      BY <2>3 DEF Range
    <3>2. o[k] \in Range(c \o o)
      BY <2>2, JoinedHas
    <3> QED BY <3>1, <3>2
  <2>5. IsAccept(accept, Slot(s), MyV(t, p))
    BY <1>3, <1>5, <1>10 DEF IsAccept, MyV
  <2> QED BY <2>2, <2>4, <2>5
<1> HIDE DEF sent
<1>17. Goes(p, s, M, t, sent)
  BY <1>10, <1>15, <1>16 DEF Goes, NoCommits, AtMostOneNew
<1>18. \A x \in t.queued_commands \ s.queued_commands : Made(T, x)
  <2> SUFFICES ASSUME NEW x \in t.queued_commands \ s.queued_commands PROVE Made(T, x)
    OBVIOUS
  <2> HIDE DEF T
  <2>1. x \in Uid /\ Made(W, x)
    BY <1>10 DEF Shards
  <2> QED BY <1>11, <2>1, MadeLater
<1>19. Emits(S, p, s, M, t, sent, decided')
  <2>1. RoundMade(T, t.round_state)
    BY <1>10, <1>13
  <2>2. T = [S EXCEPT ![p] = t]
    OBVIOUS
  <2> HIDE DEF T
  <2> QED BY <1>10, <1>15, <1>17, <1>18, <2>1, <2>2, GoesEmits
<1> QED BY <1>1, <1>10, <1>15, <1>19 DEF ActsWell

\* What the leader of the fallback proposes exists; a batch it makes is new.
LEMMA StartFallbackActs ==
  ASSUME NEW S \in [Proc -> Shards], NEW p \in Proc, NEW s \in Shards, s = S[p], ShardMade(S, s),
         NEW w, ShardTypeOK(p, w), OnlyRound(s, w), RoundMade(S, w.round_state),
         NEW v \in Uid, Made(S, v), CanStartPaxosAccept(w.round_state, p),
         NEW M, \A m \in M : m.type # "PaxosAccept",
         NEW out \in [Proc -> Seq(Message)], OutMade(S, out), NoCommits(out),
         NEW chan, StartFallback(p, w, v, chan, out)
  PROVE  ActsWell(S, p, s, M, chan)
<1> DEFINE choices == AdoptChoices(w.round_state)
           batch == BatchOf(w, p)
           b == StoreNewCommand(w, batch)
           W == [S EXCEPT ![p] = w]
           B == [S EXCEPT ![p] = b]
<1>1. /\ w \in Shards /\ w.round_state \in RoundStates /\ Slot(w) = Slot(s) /\ Slot(s) \in Nat
  BY SlotType DEF ShardTypeOK, Shards, OnlyRound, Slot
<1>2. /\ w.log = s.log /\ w.queued_messages = s.queued_messages /\ w.scan = s.scan
      /\ w.queued_commands = s.queued_commands /\ w.next_uid = s.next_uid
      /\ (s.slot_left_fast_path => w.slot_left_fast_path)
  BY DEF OnlyRound
<1>3. Later(S, W) /\ W \in [Proc -> Shards]
  <2>1. W \in [Proc -> Shards] /\ \A q \in Proc : W[q].next_uid = S[q].next_uid /\ W[q].log = S[q].log
    BY <1>1, <1>2
  <2> HIDE DEF W
  <2>2. Later(S, S)
    BY LaterIsReflexive
  <2> QED BY <2>1, <2>2 DEF Later, Slot
<1>4. decided' = decided
  BY DEF StartFallback
<1>5. \/ \E x \in choices : AcceptInFallback(p, w, IF x = NoV THEN v ELSE x, FALSE, chan, out)
      \/ AcceptInFallback(p, b, batch, TRUE, chan, out)
      \/ AcceptInFallback(p, w, v, FALSE, chan, out)
  BY DEF StartFallback
<1>6. ASSUME NEW u, ShardTypeOK(p, u), NEW U, U = [S EXCEPT ![p] = u], Later(S, U),
             AtMostOneNew(p, s, u), \A y \in u.queued_commands \ s.queued_commands : Made(U, y),
             u.round_state = w.round_state,
             NEW x \in Uid, Made(U, x), NEW kept \in BOOLEAN, kept => NewIn(U, x, Slot(s)),
             AcceptInFallback(p, u, x, kept, chan, out)
      PROVE  ActsWell(S, p, s, M, chan)
  <2> HIDE DEF W, choices, batch, b, B
  <2>1. RoundMade(S, u.round_state) /\ CanStartPaxosAccept(u.round_state, p)
    BY <1>6
  <2> QED BY <1>4, <1>6, <2>1, AcceptActs
<1>6a. ASSUME NEW x \in Uid, Made(S, x), AcceptInFallback(p, w, x, FALSE, chan, out)
       PROVE  ActsWell(S, p, s, M, chan)
  <2> HIDE DEF W, choices, batch, b, B
  <2>1. PICK kept \in BOOLEAN : ~kept /\ AcceptInFallback(p, w, x, kept, chan, out)
    BY <1>6a
  <2>2. kept => NewIn(W, x, Slot(s))
    BY <2>1
  <2>3. Made(W, x)
    BY <1>3, <1>6a, MadeLater
  <2>4. W = [S EXCEPT ![p] = w]
    BY DEF W
  <2>5. \A y \in w.queued_commands \ s.queued_commands : Made(W, y)
    BY <1>2
  <2>6. AtMostOneNew(p, s, w)
    BY <1>2 DEF AtMostOneNew
  <2>7. ShardTypeOK(p, w) /\ w.round_state = w.round_state /\ Later(S, W)
    BY <1>3
  <2>8. \A k \in BOOLEAN : (k => NewIn(W, x, Slot(s))) /\ AcceptInFallback(p, w, x, k, chan, out)
          => ActsWell(S, p, s, M, chan)
    BY <1>6, <2>3, <2>4, <2>5, <2>6, <2>7
  <2> QED BY <2>1, <2>2, <2>8
<1>7. CASE \E x \in choices : AcceptInFallback(p, w, IF x = NoV THEN v ELSE x, FALSE, chan, out)
  <2>1. PICK x \in choices : AcceptInFallback(p, w, IF x = NoV THEN v ELSE x, FALSE, chan, out)
    BY <1>7
  <2>2. x \in Uid \cup {NoV} /\ Made(S, x)
    <3>1. PICK q \in Proc : x = w.round_state.node_states[q].v
      <4>1. CASE Voted(w.round_state) # {}
        <5>1. HighestVote(w.round_state) \in Proc
          BY <1>1, <4>1, HighestVoteExists DEF Voted
        <5> QED BY <2>1, <4>1, <5>1 DEF AdoptChoices
      <4>2. CASE Voted(w.round_state) = {}
        BY <1>1, <2>1, <4>2 DEF AdoptChoices, RoundStates
      <4> QED BY <4>1, <4>2
    <3>2. x \in Uid \cup {NoV}
      BY <1>1, <2>1, AdoptChoicesType
    <3> QED BY <3>1, <3>2 DEF RoundMade
  <2>3. CASE x = NoV
    BY <1>6a, <2>1, <2>3
  <2>4. CASE x # NoV
    BY <1>6a, <2>1, <2>2, <2>4
  <2> QED BY <2>3, <2>4
<1>8. CASE AcceptInFallback(p, b, batch, TRUE, chan, out)
  <2>1. batch \in Uid /\ batch.pid = p /\ batch.seq = s.next_uid
        /\ batch.members = QueuedSingles(w)
    BY <1>1, <1>2, BatchOfType DEF BatchOf, NewBatch
  <2>2. \A u \in batch.members : u.seq < S[u.pid].next_uid
    <3> SUFFICES ASSUME NEW u \in QueuedSingles(w) PROVE u.seq < S[u.pid].next_uid
      BY <2>1
    <3>1. u \in s.queued_commands /\ u \in Uid
      BY <1>1, <1>2 DEF QueuedSingles, Shards
    <3>2. Made(S, u) /\ u # NoV
      <4>1. Made(S, u)
        BY <3>1 DEF ShardMade
      <4>2. u.pid \in Proc
        BY <3>1 DEF Uid, Command, Batch
      <4> QED BY <4>1, <4>2, NoneIsNobody, ProcIsNat DEF NoV
    <3> QED BY <3>2 DEF Made, Named
  <2> HIDE DEF batch
  <2>3. ShardTypeOK(p, b) /\ b \in Shards
    BY <2>1, StoreNewCommandType DEF ShardTypeOK
  <2>4. /\ b.log = s.log /\ b.queued_messages = s.queued_messages /\ b.scan = s.scan
        /\ b.queued_commands = s.queued_commands \cup {batch} /\ b.next_uid = s.next_uid + 1
        /\ (s.slot_left_fast_path => b.slot_left_fast_path)
        /\ b.round_state = w.round_state /\ Slot(b) = Slot(s)
    BY <1>1, <1>2 DEF StoreNewCommand, Shards, Slot
  <2> HIDE DEF b
  <2>5. B = [S EXCEPT ![p] = b]
    OBVIOUS
  <2> HIDE DEF B
  <2>6. B \in [Proc -> Shards] /\ Later(S, B) /\ Made(B, batch) /\ NewIn(B, batch, Slot(s))
    BY ONLY <2>1, <2>2, <2>3, <2>4, <2>5, FreshIsNew,
       S \in [Proc -> Shards], p \in Proc, s \in Shards, s = S[p], ShardMade(S, s)
  <2>7. PICK newValue \in BOOLEAN : newValue /\ AcceptInFallback(p, b, batch, newValue, chan, out)
    BY <1>8
  <2>8. \A y \in b.queued_commands \ s.queued_commands : Made(B, y)
    BY <2>4, <2>6
  <2>9. AtMostOneNew(p, s, b)
    BY <2>1, <2>4 DEF AtMostOneNew
  <2>10. RoundMade(S, b.round_state) /\ CanStartPaxosAccept(b.round_state, p)
    BY <2>4
  <2> QED BY <1>4, <2>1, <2>3, <2>4, <2>5, <2>6, <2>7, <2>8, <2>9, <2>10, AcceptActs
<1>9. CASE AcceptInFallback(p, w, v, FALSE, chan, out)
  BY <1>6a, <1>9
<1> QED BY <1>5, <1>7, <1>8, <1>9

\* The end of the walk: the leader decides, or starts the fallback, or waits.
LEMMA ConcludeActs ==
  ASSUME HandlersTypeOK, NEW S \in [Proc -> Shards], NEW p \in Proc, NEW s \in Shards, s = S[p],
         ShardMade(S, s), NEW m \in SpreadMsg, m.type = "Spread", Made(S, m.v),
         NEW walked, ShardTypeOK(p, walked), OnlyRound(s, walked), RoundMade(S, walked.round_state),
         SameOwnVote(p, s.round_state, walked.round_state),
         NEW conflict \in BOOLEAN,
         NEW out \in [Proc -> Seq(Message)], OutMade(S, out), NoCommits(out),
         NEW chan, Conclude(p, m, conflict, walked, out, chan)
  PROVE  ActsWell(S, p, s, {m}, chan)
<1> DEFINE r       == walked.round_state
           commits == ~conflict /\ Leader(m.id.proposer) = p /\ AtEndOfSchedule(r, p, m.id.proposer)
           leads   == ~commits /\ Mine(r, p).prepared_for = p
           asserts == /\ commits => CanKCensusCommit(r, p)
                      /\ leads => conflict /\ p \in AliveReplicas
           w       == Panic(walked, asserts)
<1>1. m.v \in Uid /\ \A x \in {m} : x.type # "PaxosAccept"
  BY DEF SpreadMsg
<1> HIDE DEF commits, leads
<1>2. asserts \in BOOLEAN
  OBVIOUS
<1> HIDE DEF asserts
<1>3. ShardTypeOK(p, w) /\ w \in Shards
  BY <1>2, PanicType DEF ShardTypeOK
<1>4. OnlyRound(s, w) /\ w.round_state = r
  <2>1. walked \in Shards /\ w = Panic(walked, asserts)
    BY DEF ShardTypeOK
  <2> QED BY <1>3, <2>1 DEF Panic, OnlyRound, Shards
<1> HIDE DEF w
<1>5. \/ Decide(p, w, m.v, TRUE, chan, out)
      \/ CanStartPaxosAccept(w.round_state, p) /\ StartFallback(p, w, m.v, chan, out)
      \/ Become(p, w, chan, out) /\ UNCHANGED history
  BY <1>4 DEF Conclude, commits, leads, asserts, w
<1>6. CASE Decide(p, w, m.v, TRUE, chan, out)
  <2>1. PICK fast \in BOOLEAN : fast /\ Decide(p, w, m.v, fast, chan, out)
    BY <1>6
  <2> QED BY <1>1, <1>3, <1>4, <2>1, DecideActs
<1>7. CASE CanStartPaxosAccept(w.round_state, p) /\ StartFallback(p, w, m.v, chan, out)
  <2>1. RoundMade(S, w.round_state)
    BY <1>4
  <2> QED BY <1>1, <1>3, <1>4, <1>7, <2>1, StartFallbackActs
<1>8. CASE Become(p, w, chan, out) /\ UNCHANGED history
  <2>1. \A x \in {m} : x.type = "PaxosAccept" /\ x.slot = Slot(s) => w.slot_left_fast_path
    BY <1>1
  <2> QED BY <1>3, <1>4, <1>8, <2>1, OnlyRoundActs
<1> QED BY <1>5, <1>6, <1>7, <1>8

\* A Spread is processed.
LEMMA SpreadActs ==
  ASSUME HandlersTypeOK, NEW S \in [Proc -> Shards], NEW p \in Proc, NEW s, ShardTypeOK(p, s), s = S[p],
         ShardMade(S, s), NEW m \in MessageTo(p), MsgMade(S, m), NEW chan,
         Spread(p, m, s, chan)
  PROVE  ActsWell(S, p, s, {m}, chan)
<1> DEFINE a        == m.id.proposer
           noted    == Noted(s, p, m)
           conflict == HasConflict(noted.round_state, p)
           reached  == Reached(noted.round_state, p, a)
           r        == Advance(noted.round_state, p, a, conflict)
           sends    == SpreadsAsserts(noted.round_state, p, m.v, a, reached)
           moved    == [noted EXCEPT !.round_state = r]
           walked   == Panic(moved, sends)
           out      == Spreads(noted, p, m.v, a, reached, m.new_value)
           stopped  == Panic(s, FALSE)
<1>1. /\ m \in SpreadMsg /\ m.type = "Spread" /\ m.slot = Slot(s) /\ a \in Proc /\ m.v \in Uid
      /\ m.new_value \in BOOLEAN
  BY MessageToIsMessage, MessageKinds DEF Spread, SpreadMsg, SpreadId, MessageId
<1>2. Made(S, m.v) /\ (m.new_value => NewIn(S, m.v, Slot(s)))
  BY <1>1 DEF MsgMade
<1>3. s \in Shards /\ RoundMade(S, s.round_state)
  BY DEF ShardTypeOK, ShardMade, RoundMade
<1>4. ShardTypeOK(p, noted) /\ (~conflict => Mine(noted.round_state, p).k_proposer # None)
      /\ Slot(noted) = Slot(s)
  BY <1>1, NotedType
<1>5. OnlyRound(s, noted)
  BY <1>3 DEF Noted, OnlyRound, Shards
<1>6. RoundMade(S, noted.round_state)
  BY <1>1, <1>3, NotedMade
<1>7. \/ /\ NotedAsserts(s, p, m)
         /\ Conclude(p, m, conflict, walked, out, chan)
      \/ Become(p, stopped, chan, Nothing) /\ UNCHANGED history
  BY DEF Spread, WalkFrom, WalkSchedule
<1> HIDE DEF a, noted
<1>8. noted \in Shards /\ noted.round_state \in RoundStates
  BY <1>4 DEF ShardTypeOK, Shards
<1>9. conflict \in BOOLEAN /\ reached \subseteq StateIds(a, p)
  BY <1>1, <1>8, ReachedType DEF HasConflict
<1> HIDE DEF conflict
<1>10. r \in RoundStates
  BY <1>1, <1>4, <1>8, <1>9, AdvanceType
<1>11. RoundMade(S, r) /\ SameOwnVote(p, noted.round_state, r)
  BY <1>1, <1>6, <1>8, AdvanceMade, AdvanceOwnVote
<1> HIDE DEF reached
<1>12. out \in [Proc -> Seq(Message)]
  BY <1>1, <1>8, <1>9, SpreadsOutgoing DEF Outgoing
<1>13. OutMade(S, out) /\ NoCommits(out)
  BY <1>1, <1>2, <1>4, <1>6, <1>8, SpreadsMade
<1> HIDE DEF r, out
<1>14. sends \in BOOLEAN
  BY DEF SpreadsAsserts
<1> HIDE DEF sends
<1>15. /\ ShardTypeOK(p, moved) /\ moved.round_state = r /\ OnlyRound(s, moved)
  <2>1. ShardTypeOK(p, moved)
    BY <1>4, <1>10, ShardUpdate
  <2> QED BY <1>5, <1>8, <2>1 DEF OnlyRound, Shards
<1> HIDE DEF moved
<1>16. ShardTypeOK(p, walked) /\ walked.round_state = r /\ OnlyRound(s, walked)
  <2>1. ShardTypeOK(p, walked)
    BY <1>14, <1>15, PanicType
  <2> QED BY <1>15, <2>1 DEF Panic, OnlyRound, ShardTypeOK, Shards
<1> HIDE DEF walked
<1>17. CASE NotedAsserts(s, p, m) /\ Conclude(p, m, conflict, walked, out, chan)
  <2>1. SameOwnVote(p, s.round_state, noted.round_state)
    BY <1>1, <1>3, <1>17, NotedOwnVote DEF noted
  <2>2. SameOwnVote(p, s.round_state, walked.round_state)
    BY <1>11, <1>16, <2>1, SameOwnVoteTwice
  <2>3. RoundMade(S, walked.round_state)
    BY <1>11, <1>16
  <2> QED BY <1>1, <1>2, <1>3, <1>9, <1>12, <1>13, <1>16, <1>17, <2>2, <2>3, ConcludeActs
<1>18. CASE Become(p, stopped, chan, Nothing) /\ UNCHANGED history
  <2>1. stopped \in Shards
    BY PanicType DEF ShardTypeOK
  <2>2. OnlyRound(s, stopped) /\ stopped.round_state = s.round_state
    BY <1>3 DEF Panic, OnlyRound, Shards
  <2> HIDE DEF stopped
  <2>3. SameOwnVote(p, s.round_state, stopped.round_state) /\ RoundMade(S, stopped.round_state)
    BY <1>3, <2>2 DEF SameOwnVote
  <2>4. \A x \in {m} : x.type = "PaxosAccept" /\ x.slot = Slot(s) => stopped.slot_left_fast_path
    BY <1>1
  <2> QED BY <1>3, <1>18, <2>1, <2>2, <2>3, <2>4, NothingIsSent, NothingMade, OnlyRoundActs
<1> QED BY <1>7, <1>17, <1>18

\* So is any message.
LEMMA ProcessActs ==
  ASSUME HandlersTypeOK, NEW S \in [Proc -> Shards], NEW p \in Proc, NEW s, ShardTypeOK(p, s), s = S[p],
         ShardMade(S, s), NEW H, GoodHistory(H), ShardOK(H, p, s),
         NEW m \in GoodTo(H, p), MsgMade(S, m),
         p \in AliveReplicas /\ m.type = "Commit" /\ m.slot = Slot(s) =>
           FastSlot(decided, m.slot) \/ Left(s, m.slot),
         NEW chan, Process(p, m, s, chan)
  PROVE  ActsWell(S, p, s, {m}, chan)
<1>1. m \in MessageTo(p)
  BY DEF GoodTo
<1> QED BY <1>1, ForwardActs, CommitMessageActs, SpreadActs, PaxosAcceptActs DEF Process

\* Proposing needs what is proposed to exist.
LEMMA ProposeActs ==
  ASSUME NEW S \in [Proc -> Shards], NEW p \in Proc, NEW s, ShardTypeOK(p, s), s = S[p],
         ShardMade(S, s), NEW v \in Uid, Made(S, v), NEW newValue \in BOOLEAN,
         newValue => NewIn(S, v, Slot(s)),
         ProposeAndSpread(p, s, v, newValue), UNCHANGED history
  PROVE  ActsWell(S, p, s, {}, net)
<1> DEFINE r == s.round_state
           n == KCensusTryAccept(r, p, v, p)
           t == [s EXCEPT !.round_state = n]
           out == Spreads(t, p, v, p, {0}, newValue)
           stopped == Panic(s, FALSE)
<1>1. s \in Shards /\ r \in RoundStates /\ RoundMade(S, r)
  BY DEF ShardTypeOK, Shards, ShardMade, RoundMade
<1>2. CASE Accepts(r, p) /\ TryAcceptAsserts(r, p, p)
  <2>1. Become(p, t, net, out)
    BY <1>2 DEF ProposeAndSpread
  <2>2. n \in RoundStates /\ RoundMade(S, n)
    BY <1>1, TryAcceptType, TryAcceptMade
  <2>3. SameOwnVote(p, r, n)
    <3> DEFINE x == AcceptWithKState(Mine(r, p), p, v, p, 0)
    <3>1. n = [SetMine(r, p, x) EXCEPT !.proposers = @ \cup {p}]
      BY <1>2 DEF KCensusTryAccept
    <3>2. x.accept_round # p
      <4>1. Mine(r, p) \in NodeStates /\ Mine(r, p).accept_round = None
        BY <1>1, <1>2, MineType DEF Accepts, HasConflict
      <4>2. x.accept_round = Mine(r, p).accept_round
        BY <4>1 DEF AcceptWithKState, UpdateKState, NodeStates
      <4> QED BY <4>1, <4>2, NoneIsNobody
    <3> HIDE DEF x
    <3>3. n.node_states = SetMine(r, p, x).node_states
      BY <1>1, <3>1 DEF SetMine, RoundStates
    <3> HIDE DEF n
    <3> QED BY <1>1, <3>2, <3>3, SetMineOwnVote
  <2> HIDE DEF n
  <2>4. t \in Shards /\ t.round_state = n /\ OnlyRound(s, t) /\ Slot(t) = Slot(s)
    <3>1. ShardTypeOK(p, t)
      BY <2>2, ShardUpdate
    <3> QED BY <1>1, <3>1 DEF OnlyRound, ShardTypeOK, Shards, Slot
  <2> HIDE DEF t
  <2>5. out \in [Proc -> Seq(Message)]
    <3>1. {0} \in SUBSET StateIds(p, p)
      BY PlanFacts
    <3> QED BY <2>4, <3>1, SpreadsOutgoing DEF Outgoing
  <2>6. OutMade(S, out) /\ NoCommits(out)
    BY <2>2, <2>4, SpreadsMade
  <2> HIDE DEF out
  <2>7. \A m \in {} : m.type = "PaxosAccept" /\ m.slot = Slot(s) => t.slot_left_fast_path
    OBVIOUS
  <2> QED BY <1>1, <2>1, <2>2, <2>3, <2>4, <2>5, <2>6, <2>7, OnlyRoundActs
<1>3. CASE ~(Accepts(r, p) /\ TryAcceptAsserts(r, p, p))
  <2>1. Become(p, stopped, net, Nothing)
    BY <1>3 DEF ProposeAndSpread
  <2>2. stopped \in Shards
    BY PanicType DEF ShardTypeOK
  <2>3. OnlyRound(s, stopped) /\ stopped.round_state = r
    BY <1>1 DEF Panic, OnlyRound, Shards
  <2> HIDE DEF stopped
  <2>4. SameOwnVote(p, r, stopped.round_state) /\ RoundMade(S, stopped.round_state)
    BY <1>1, <2>3 DEF SameOwnVote
  <2>5. \A m \in {} : m.type = "PaxosAccept" /\ m.slot = Slot(s) => stopped.slot_left_fast_path
    OBVIOUS
  <2> QED BY <1>1, <2>1, <2>2, <2>3, <2>4, <2>5, NothingIsSent, NothingMade, OnlyRoundActs
<1> QED BY <1>2, <1>3

-----------------------------------------------------------------------------
(* What a process takes in hand *)

\* In the same slot, with a counter that only grew.
LEMMA LaterInSlot ==
  ASSUME NEW S \in [Proc -> Shards], NEW p \in Proc, NEW s \in Shards, s = S[p],
         NEW t \in Shards, NEW T, T = [S EXCEPT ![p] = t],
         t.log = s.log, s.next_uid <= t.next_uid
  PROVE  T \in [Proc -> Shards] /\ Later(S, T)
<1>1. T \in [Proc -> Shards] /\ T[p] = t /\ \A q \in Proc : q # p => T[q] = S[q]
  OBVIOUS
<1>2. \A q \in Proc : S[q].next_uid \in Nat /\ Slot(S[q]) \in Nat
  BY SlotType DEF Shards
<1> SUFFICES ASSUME NEW q \in Proc
             PROVE  /\ S[q].next_uid <= T[q].next_uid /\ Slot(S[q]) <= Slot(T[q])
                    /\ \A i \in 1 .. Slot(S[q]) : T[q].log[i] = S[q].log[i]
  BY <1>1 DEF Later
<1>3. CASE q = p
  BY <1>1, <1>2, <1>3 DEF Slot
<1>4. CASE q # p
  BY <1>1, <1>2, <1>4
<1> QED BY <1>3, <1>4

\* What p has then is made of what existed.
LEMMA TakenMade ==
  ASSUME NEW S \in [Proc -> Shards], NEW p \in Proc, NEW s \in Shards, s = S[p],
         NEW t \in Shards, NEW T, T = [S EXCEPT ![p] = t], Later(S, T),
         t.log = s.log, t.round_state = s.round_state,
         \A v \in t.queued_commands : Made(T, v),
         \A i \in DOMAIN t.queued_messages : MsgMade(S, t.queued_messages[i]),
         NEW chan \in [Proc -> [Proc -> Seq(Message)]], AllMade(S, chan),
         NEW rest \in [Proc -> [Proc -> Seq(Message)]],
         \A q, d \in Proc : Range(rest[q][d]) \subseteq Range(chan[q][d])
  PROVE  AllMade(T, rest)
<1>1. T \in [Proc -> Shards] /\ T[p] = t /\ \A q \in Proc : q # p => T[q] = S[q]
  OBVIOUS
<1>2. ASSUME NEW q \in Proc PROVE ShardMade(T, T[q])
  <2>1. ShardMade(T, S[q])
    BY <1>1, ShardMadeLater DEF AllMade
  <2>2. CASE q = p
    <3>1. \A i \in DOMAIN t.queued_messages : MsgMade(T, t.queued_messages[i])
      BY <1>1, HeldMessage, MsgMadeLater
    <3> QED BY <1>1, <2>1, <2>2, <3>1 DEF ShardMade
  <2>3. CASE q # p
    BY <1>1, <2>1, <2>3
  <2> QED BY <2>2, <2>3
<1>3. ASSUME NEW d \in Proc, NEW q \in Proc, NEW i \in DOMAIN rest[q][d]
      PROVE  MsgMade(T, rest[q][d][i])
  <2> DEFINE c == chan[q][d]
             o == rest[q][d]
  <2>1. /\ c \in Seq(Message) /\ o \in Seq(Message) /\ Range(o) \subseteq Range(c)
        /\ i \in DOMAIN o /\ o[i] = rest[q][d][i]
    BY <1>3
  <2>2. \A k \in DOMAIN c : MsgMade(S, c[k])
    BY DEF AllMade
  <2> HIDE DEF c, o
  <2>3. o[i] \in Range(c)
    BY <2>1 DEF Range
  <2>4. PICK k \in DOMAIN c : o[i] = c[k]
    BY <2>3 DEF Range
  <2>5. c[k] \in Message /\ MsgMade(S, c[k])
    BY <2>1, <2>2, <2>4
  <2>6. MsgMade(T, c[k])
    BY <1>1, <2>5, MsgMadeLater
  <2> QED BY <2>1, <2>4, <2>6
<1> QED BY <1>2, <1>3 DEF AllMade

\* From s to t in the same round of the same slot.
InSameRound(s, t) ==
  t.log = s.log /\ t.round_state = s.round_state /\ t.slot_left_fast_path = s.slot_left_fast_path

\* What reaches p, in hand, held back or coming on rest, reaches it in order.
InOrder(p, t, D, M, rest) ==
  p \in AliveReplicas => /\ HeldInOrder(t, D, M)
                         /\ \A q \in Proc : ComesInOrder(t, D, M, rest[q][p])

\* p still has what it held back and what was coming on chan.
StillThere(p, s, t, M, chan, rest) ==
  /\ Range(s.queued_messages) \subseteq M \cup Range(t.queued_messages)
  /\ \A q, d \in Proc : d # p => rest[q][d] = chan[q][d]
  /\ \A q \in Proc : Range(chan[q][p]) \subseteq
                       M \cup Range(t.queued_messages) \cup Range(rest[q][p])

\* Nobody misses a call that p has in hand, or still holds back.
LEMMA TakenCalled ==
  ASSUME NEW S \in [Proc -> Shards], NEW p \in Proc, NEW s \in Shards, s = S[p],
         NEW t \in Shards, NEW T, T = [S EXCEPT ![p] = t],
         InSameRound(s, t), NEW M, NEW chan, NEW rest, StillThere(p, s, t, M, chan, rest),
         NEW D, AllCalled(S, D, EmptyHands, chan), InOrder(p, t, D, M, rest)
  PROVE  AllCalled(T, D, InHand(p, M), rest)
<1>1. /\ T[p] = t /\ \A q \in Proc : q # p => T[q] = S[q]
      /\ InHand(p, M)[p] = M /\ \A q \in Proc : q # p => InHand(p, M)[q] = {}
      /\ \A q \in Proc : EmptyHands[q] = {}
  BY DEF InHand, EmptyHands
<1>2. AliveReplicas \subseteq Proc
  BY ReplicasFinite
<1>5. /\ t.log = s.log /\ t.round_state = s.round_state
      /\ t.slot_left_fast_path = s.slot_left_fast_path
  BY DEF InSameRound
<1>6. /\ Range(s.queued_messages) \subseteq M \cup Range(t.queued_messages)
      /\ \A q, d \in Proc : d # p => rest[q][d] = chan[q][d]
      /\ \A q \in Proc : Range(chan[q][p]) \subseteq
                           M \cup Range(t.queued_messages) \cup Range(rest[q][p])
  BY DEF StillThere
<1>7. /\ p \in AliveReplicas => HeldInOrder(t, D, M)
      /\ p \in AliveReplicas => \A q \in Proc : ComesInOrder(t, D, M, rest[q][p])
  BY DEF InOrder
<1>3. ASSUME NEW d \in AliveReplicas
      PROVE  /\ HeldInOrder(T[d], D, InHand(p, M)[d]) /\ ReportsSlow(T[d], D)
             /\ \A q \in Proc : ComesInOrder(T[d], D, InHand(p, M)[d], rest[q][d])
  <2>1. /\ d \in Proc
        /\ HeldInOrder(S[d], D, {}) /\ ReportsSlow(S[d], D)
        /\ \A q \in Proc : ComesInOrder(S[d], D, {}, chan[q][d])
    BY <1>1, <1>2 DEF AllCalled
  <2>2. CASE d = p
    BY <1>1, <1>5, <1>7, <2>1, <2>2 DEF ReportsSlow
  <2>3. CASE d # p
    BY <1>1, <1>6, <2>1, <2>3
  <2> QED BY <2>2, <2>3
<1>4. ASSUME NEW l \in Proc PROVE CallsAll(T, InHand(p, M), l, rest[l])
  <2>1. Slot(T[l]) = Slot(S[l]) /\ T[l].round_state = S[l].round_state
    BY <1>1, <1>5 DEF Slot
  <2> SUFFICES ASSUME Mine(T[l].round_state, l).accept_round = l,
                      NEW d \in AliveReplicas \ {l}
               PROVE  Called(T[d], InHand(p, M)[d], rest[l][d], Slot(T[l]), MyV(T[l], l))
    BY DEF CallsAll
  <2> DEFINE n == Slot(S[l])
             v == MyV(S[l], l)
  <2>2. d \in Proc /\ Slot(T[l]) = n /\ MyV(T[l], l) = v
    BY <1>2, <2>1 DEF MyV
  <2>3. Called(S[d], {}, chan[l][d], n, v)
    <3>1. CallsAll(S, EmptyHands, l, chan[l])
      BY DEF AllCalled
    <3>2. Mine(S[l].round_state, l).accept_round = l
      BY <2>1
    <3>3. Called(S[d], EmptyHands[d], chan[l][d], n, v)
      BY <3>1, <3>2 DEF CallsAll
    <3> QED BY <1>1, <2>2, <3>3
  <2> HIDE DEF n, v
  <2>4. CASE d # p
    <3>1. Called(T[d], InHand(p, M)[d], rest[l][d], n, v)
      BY <1>1, <1>6, <2>2, <2>3, <2>4
    <3> QED BY <2>2, <3>1
  <2>5. CASE d = p
    <3>1. Left(s, n) => Left(t, n)
      BY <1>5 DEF Left, Slot
    <3>2. Called(s, {}, chan[l][p], n, v)
      BY <2>3, <2>5
    <3>3. Called(t, M, rest[l][p], n, v)
      BY <1>6, <3>1, <3>2 DEF Called, Heard
    <3> QED BY <1>1, <2>2, <2>5, <3>3
  <2> QED BY <2>4, <2>5
<1> QED BY <1>3, <1>4 DEF AllCalled

\* What the others hold back stays where it is.
LEMMA TakenHeldBack ==
  ASSUME NEW S \in [Proc -> Shards], NEW p \in Proc, NEW t \in Shards,
         NEW T, T = [S EXCEPT ![p] = t], Later(S, T), AllHeldBack(S), HeldBack(T, t)
  PROVE  AllHeldBack(T)
<1>1. T \in [Proc -> Shards] /\ T[p] = t /\ \A q \in Proc : q # p => T[q] = S[q]
  OBVIOUS
<1> SUFFICES ASSUME NEW q \in Proc, q # p PROVE HeldBack(T, S[q])
  BY <1>1 DEF AllHeldBack
<1> SUFFICES ASSUME NEW i \in DOMAIN S[q].queued_messages, NEW m, m = S[q].queued_messages[i],
                    m.type = "PaxosAccept", S[q].scan = 0 \/ i < S[q].scan
             PROVE  ~ReadyToProcess(S[q], m) \/ Overtaken(T, m)
  BY DEF HeldBack
<1>2. m \in PaxosAcceptMsg
  BY HeldMessage, MessageKinds
<1>3. ~ReadyToProcess(S[q], m) \/ Overtaken(S, m)
  BY DEF AllHeldBack, HeldBack
<1> QED BY <1>1, <1>2, <1>3, OvertakenLater

\* p handles what it took, and everyone remains warned.
LEMMA ActsWarned ==
  ASSUME HandlersTypeOK, NEW p \in Proc, NEW s \in Shards, NEW S, S = [shard EXCEPT ![p] = s],
         NEW M, MayHold(p, s, M), NEW chan \in [Proc -> [Proc -> Seq(Message)]],
         AllMade(S, chan), AllCalled(S, decided, InHand(p, M), chan), AllHeldBack(S),
         ActsWell(S, p, s, M, chan)
  PROVE  Warned'
<1>1. PICK t \in Shards, out \in [Proc -> Seq(Message)] :
        Become(p, t, chan, out) /\ Emits(S, p, s, M, t, out, decided') /\ decided \subseteq decided'
  BY DEF ActsWell
<1> DEFINE T == [S EXCEPT ![p] = t]
<1>2. shard \in [Proc -> Shards]
  BY DEF HandlersTypeOK, ShardsTypeOK
<1>3. S \in [Proc -> Shards] /\ S[p] = s
  BY <1>2
<1>4. shard' = T /\ net' = Send(chan, p, out)
  <2>1. shard' = [shard EXCEPT ![p] = t]
    BY <1>1 DEF Become
  <2> QED BY <1>1, <1>2, <2>1 DEF Become
<1> HIDE DEF T
<1>5. T = [S EXCEPT ![p] = t]
  BY DEF T
<1>6. /\ AllMade(T, Send(chan, p, out))
      /\ AllCalled(T, decided', EmptyHands, Send(chan, p, out))
      /\ AllHeldBack(T)
  BY <1>1, <1>3, <1>5, StepWarned
<1>7. Warned' = (AllMade(shard', net') /\ AllCalled(shard', decided', EmptyHands, net') /\ AllHeldBack(shard'))
  BY DEF Warned
<1> QED BY <1>4, <1>6, <1>7

\* The first message of a channel is taken.
LEMMA TakenFirst ==
  ASSUME NEW c \in Seq(Message), c # <<>>
  PROVE  /\ Head(c) = c[1] /\ 1 \in DOMAIN c /\ Head(c) \in Message /\ Tail(c) \in Seq(Message)
         /\ Range(c) \subseteq {Head(c)} \cup Range(Tail(c)) /\ Range(Tail(c)) \subseteq Range(c)
         /\ \A i \in DOMAIN Tail(c) : i \in Nat \ {0} /\ i + 1 \in DOMAIN c /\ Tail(c)[i] = c[i + 1]
         /\ \A i \in DOMAIN Tail(c) : \A j \in 1 .. i :
              j = 1 \/ (j - 1 \in 1 .. i - 1 /\ Tail(c)[j - 1] = c[j])
<1>1. /\ Head(c) = c[1] /\ Head(c) \in Message /\ Tail(c) \in Seq(Message)
      /\ Len(c) \in Nat \ {0} /\ DOMAIN c = 1 .. Len(c)
      /\ Len(Tail(c)) = Len(c) - 1 /\ DOMAIN Tail(c) = 1 .. Len(Tail(c))
      /\ \A i \in 1 .. Len(c) - 1 : Tail(c)[i] = c[i + 1]
  OBVIOUS
<1>2. Range(c) \subseteq {Head(c)} \cup Range(Tail(c))
  <2> SUFFICES ASSUME NEW i \in DOMAIN c, i # 1 PROVE c[i] \in Range(Tail(c))
    BY <1>1 DEF Range
  <2>1. i - 1 \in DOMAIN Tail(c) /\ Tail(c)[i - 1] = c[i]
    BY <1>1
  <2> QED BY <2>1 DEF Range
<1>3. Range(Tail(c)) \subseteq Range(c)
  <2> SUFFICES ASSUME NEW i \in DOMAIN Tail(c) PROVE Tail(c)[i] \in Range(c)
    BY DEF Range
  <2>1. i + 1 \in DOMAIN c /\ Tail(c)[i] = c[i + 1]
    BY <1>1
  <2> QED BY <2>1 DEF Range
<1>4. ASSUME NEW i \in DOMAIN Tail(c), NEW j \in 1 .. i, j # 1
      PROVE  j - 1 \in 1 .. i - 1 /\ Tail(c)[j - 1] = c[j]
  BY <1>1, <1>4
<1> QED BY <1>1, <1>2, <1>3, <1>4

\* The rest of it still comes in order.
LEMMA RestInOrder ==
  ASSUME NEW c \in Seq(Message), c # <<>>, NEW s, NEW t, NEW D, NEW M, ComesInOrder(s, D, {}, c),
         \A n, v : Heard(s, {}, n, v) => Heard(t, M, n, v),
         \A n, v : IsAccept(Head(c), n, v) => Heard(t, M, n, v)
  PROVE  ComesInOrder(t, D, M, Tail(c))
<1> DEFINE e == Tail(c)
<1> SUFFICES ASSUME NEW i \in DOMAIN e, e[i].type = "Commit"
             PROVE  \/ FastSlot(D, e[i].slot) \/ Heard(t, M, e[i].slot, e[i].v)
                    \/ \E j \in 1 .. i - 1 : IsAccept(e[j], e[i].slot, e[i].v)
  BY DEF ComesInOrder
<1>1. /\ i \in Nat \ {0} /\ i + 1 \in DOMAIN c /\ e[i] = c[i + 1] /\ Head(c) = c[1]
      /\ \A j \in 1 .. i : j = 1 \/ (j - 1 \in 1 .. i - 1 /\ e[j - 1] = c[j])
  BY TakenFirst
<1> HIDE DEF e
<1>2. \/ FastSlot(D, e[i].slot) \/ Heard(s, {}, e[i].slot, e[i].v)
      \/ \E j \in 1 .. (i + 1) - 1 : IsAccept(c[j], e[i].slot, e[i].v)
  BY <1>1 DEF ComesInOrder
<1>3. CASE \E j \in 1 .. (i + 1) - 1 : IsAccept(c[j], e[i].slot, e[i].v)
  <2>1. PICK j \in 1 .. i : IsAccept(c[j], e[i].slot, e[i].v)
    BY <1>1, <1>3
  <2>2. CASE j = 1
    BY <1>1, <2>1, <2>2
  <2>3. CASE j # 1
    <3>1. j - 1 \in 1 .. i - 1 /\ e[j - 1] = c[j]
      BY <1>1, <2>3
    <3> QED BY <2>1, <3>1
  <2> QED BY <2>2, <2>3
<1> QED BY <1>2, <1>3

LEMMA SameInOrder ==
  ASSUME NEW c, NEW s, NEW t, NEW D, NEW M, ComesInOrder(s, D, {}, c),
         \A n, v : Heard(s, {}, n, v) => Heard(t, M, n, v)
  PROVE  ComesInOrder(t, D, M, c)
BY DEF ComesInOrder

\* What p takes from a channel is in hand, or held back.
LEMMA TakenFromChannel ==
  ASSUME NEW S \in [Proc -> Shards], NEW p \in Proc, NEW s \in Shards, s = S[p],
         NEW t \in Shards, NEW T, T = [S EXCEPT ![p] = t],
         InSameRound(s, t), NEW M, Range(s.queued_messages) \subseteq M \cup Range(t.queued_messages),
         NEW chan \in [Proc -> [Proc -> Seq(Message)]], NEW a \in Proc, chan[a][p] # <<>>,
         Head(chan[a][p]) \in M \cup Range(t.queued_messages),
         NEW rest, rest = [chan EXCEPT ![a][p] = Tail(@)],
         NEW D, AllCalled(S, D, EmptyHands, chan),
         p \in AliveReplicas => HeldInOrder(t, D, M)
  PROVE  AllCalled(T, D, InHand(p, M), rest)
<1> DEFINE c == chan[a][p]
<1>1. /\ \A q, d \in Proc : d # p => rest[q][d] = chan[q][d]
      /\ \A q \in Proc : q # a => rest[q][p] = chan[q][p]
      /\ rest[a][p] = Tail(c)
  OBVIOUS
<1>2. c \in Seq(Message) /\ c # <<>> /\ c = chan[a][p]
  OBVIOUS
<1> HIDE DEF c
<1>3. \A n, v : Heard(s, {}, n, v) => Heard(t, M, n, v)
  BY DEF Heard, Left, Slot, InSameRound
<1>4. \A n, v : IsAccept(Head(c), n, v) => Heard(t, M, n, v)
  BY <1>2 DEF Heard
<1>5. Range(c) \subseteq {Head(c)} \cup Range(Tail(c))
  BY <1>2, TakenFirst
<1>6. \A q \in Proc : Range(chan[q][p]) \subseteq
                        M \cup Range(t.queued_messages) \cup Range(rest[q][p])
  <2> SUFFICES ASSUME NEW q \in Proc
               PROVE  Range(chan[q][p]) \subseteq M \cup Range(t.queued_messages) \cup Range(rest[q][p])
    OBVIOUS
  <2>1. CASE q = a
    BY <1>1, <1>2, <1>5, <2>1
  <2>2. CASE q # a
    BY <1>1, <2>2
  <2> QED BY <2>1, <2>2
<1>7. ASSUME p \in AliveReplicas, NEW q \in Proc PROVE ComesInOrder(t, D, M, rest[q][p])
  <2>1. ComesInOrder(s, D, {}, chan[q][p])
    BY <1>7 DEF AllCalled, EmptyHands
  <2>2. CASE q = a
    <3>1. ComesInOrder(s, D, {}, c)
      BY <1>2, <2>1, <2>2
    <3>2. ComesInOrder(t, D, M, Tail(c))
      BY <1>2, <1>3, <1>4, <3>1, RestInOrder
    <3> QED BY <1>1, <2>2, <3>2
  <2>3. CASE q # a
    <3>1. rest[q][p] = chan[q][p]
      BY <1>1, <2>3
    <3>2. ComesInOrder(t, D, M, chan[q][p])
      BY <1>3, <2>1, SameInOrder
    <3> QED BY <3>1, <3>2
  <2> QED BY <2>2, <2>3
<1>8. p \in AliveReplicas => \A q \in Proc : ComesInOrder(t, D, M, rest[q][p])
  BY <1>7
<1>9. StillThere(p, s, t, M, chan, rest)
  BY <1>1, <1>6 DEF StillThere
<1>10. InOrder(p, t, D, M, rest)
  BY <1>8 DEF InOrder
<1> QED BY <1>9, <1>10, TakenCalled

-----------------------------------------------------------------------------
(* A Commit that is ready was announced *)

\* What a slot decides is not overtaken.
LEMMA NotOvertaken ==
  ASSUME GraphSeparates, NEW H, GoodHistory(H), NEW S \in [Proc -> Shards],
         \A q \in Proc : ShardOK(H, q, S[q]),
         NEW m, m.slot \in Nat, m.v \in Uid, Decided(H[m.slot], m.v)
  PROVE  ~Overtaken(S, m)
<1> SUFFICES ASSUME NEW u \in Named(m.v), m.slot < Slot(S[u.pid]),
                    u \notin Named(S[u.pid].log[m.slot + 1].v)
             PROVE  FALSE
  BY DEF Overtaken
<1> DEFINE n == m.slot
           q == u.pid
           t == S[q]
<1>1. q \in Proc /\ t \in Shards /\ ShardOK(H, q, t) /\ n \in Nat /\ Slot(t) \in Nat
  BY NamedType, SlotType
<1>2. n + 1 \in DOMAIN t.log
  <2>1. t.log \in Seq([v : Uid, fast : BOOLEAN])
    BY <1>1 DEF Shards
  <2> QED BY <1>1, <2>1 DEF Slot
<1>3. n < Slot(t) /\ u \notin Named(t.log[n + 1].v) /\ Decided(H[n], m.v)
  OBVIOUS
<1> HIDE DEF n, q, t
<1>4. (n + 1) - 1 = n
  BY <1>1
<1>5. Good(H[n]) /\ t.log[n + 1].v \in Uid /\ Decided(H[n], t.log[n + 1].v)
  BY <1>1, <1>2, <1>4, LogIsDecided
<1>6. t.log[n + 1].v = m.v
  BY <1>3, <1>5, DecisionsAgree
<1> QED BY <1>3, <1>6

\* A replica that may process the Commit of a slow slot has processed its PaxosAccept,
\* which would otherwise have gone first.
LEMMA CommitIsWarned ==
  ASSUME GraphSeparates, NEW H, GoodHistory(H), NEW S \in [Proc -> Shards],
         \A q \in Proc : ShardOK(H, q, S[q]),
         NEW m \in Message, MsgOK(H, m), m.type = "Commit",
         NEW s \in Shards, m.slot = Slot(s), ReadyToProcess(s, m),
         NEW i \in DOMAIN s.queued_messages, IsAccept(s.queued_messages[i], m.slot, m.v),
         ~ReadyToProcess(s, s.queued_messages[i]) \/ Overtaken(S, s.queued_messages[i])
  PROVE  FALSE
<1> DEFINE x == s.queued_messages[i]
<1>1. x.type = "PaxosAccept" /\ x.slot = m.slot /\ x.v = m.v
  BY DEF IsAccept
<1>2. m.slot \in Nat /\ m.v \in Uid
  BY MessageKinds, SlotType
<1>3. Decided(H[m.slot], m.v)
  BY DEF MsgOK
<1> HIDE DEF x
<1>4. ~Overtaken(S, x)
  BY <1>1, <1>2, <1>3, NotOvertaken
<1>5. Named(m.v) \subseteq s.queued_commands
  BY <1>2, SlotType DEF ReadyToProcess, Named
<1>6. ReadyToProcess(s, x)
  BY <1>1, <1>5, ReadyMeans
<1> QED BY <1>4, <1>6 DEF x

-----------------------------------------------------------------------------
(* The main loop *)

\* What p held back is in hand, or still held back.
LEMMA TakenFromHeld ==
  ASSUME NEW S \in [Proc -> Shards], NEW p \in Proc, NEW s \in Shards, s = S[p],
         NEW t \in Shards, NEW T, T = [S EXCEPT ![p] = t], InSameRound(s, t),
         NEW M, Range(s.queued_messages) \subseteq M \cup Range(t.queued_messages),
         NEW chan, NEW D, AllCalled(S, D, EmptyHands, chan),
         p \in AliveReplicas => HeldInOrder(t, D, M)
  PROVE  AllCalled(T, D, InHand(p, M), chan)
<1>1. StillThere(p, s, t, M, chan, chan)
  BY DEF StillThere
<1>2. \A n, v : Heard(s, {}, n, v) => Heard(t, M, n, v)
  BY DEF Heard, Left, Slot, InSameRound
<1>3. ASSUME p \in AliveReplicas, NEW q \in Proc PROVE ComesInOrder(t, D, M, chan[q][p])
  <2>1. ComesInOrder(s, D, {}, chan[q][p])
    BY <1>3 DEF AllCalled, EmptyHands
  <2> QED BY <1>2, <2>1, SameInOrder
<1>4. InOrder(p, t, D, M, chan)
  BY <1>3 DEF InOrder
<1> QED BY <1>1, <1>4, TakenCalled

\* All of it still is.
LEMMA KeptHeld ==
  ASSUME NEW S \in [Proc -> Shards], NEW p \in Proc, NEW s \in Shards, s = S[p],
         NEW t \in Shards, NEW T, T = [S EXCEPT ![p] = t], InSameRound(s, t),
         t.queued_messages = s.queued_messages, NEW M,
         NEW chan, NEW D, AllCalled(S, D, EmptyHands, chan)
  PROVE  /\ AllCalled(T, D, InHand(p, M), chan)
         /\ p \in AliveReplicas => HeldInOrder(t, D, M)
<1>1. p \in AliveReplicas => HeldInOrder(s, D, {})
  <2>1. EmptyHands[p] = {}
    BY DEF EmptyHands
  <2> QED BY <2>1 DEF AllCalled
<1>2. p \in AliveReplicas => HeldInOrder(t, D, M)
  BY <1>1 DEF HeldInOrder, Left, Slot, InSameRound
<1> QED BY <1>2, TakenFromHeld

\* A shard that changes only its scan and its counters keeps what was made.
LEMMA KeptMade ==
  ASSUME NEW S \in [Proc -> Shards], NEW p \in Proc, NEW s \in Shards, s = S[p],
         NEW t \in Shards, NEW T, T = [S EXCEPT ![p] = t], InSameRound(s, t),
         t.queued_messages = s.queued_messages, Later(S, T),
         \A v \in t.queued_commands \ s.queued_commands : Made(T, v),
         NEW chan \in [Proc -> [Proc -> Seq(Message)]], AllMade(S, chan)
  PROVE  AllMade(T, chan)
<1>1. T \in [Proc -> Shards]
  OBVIOUS
<1>2. ShardMade(S, s)
  BY DEF AllMade
<1>3. \A v \in t.queued_commands : Made(T, v)
  <2> SUFFICES ASSUME NEW v \in t.queued_commands PROVE Made(T, v)
    OBVIOUS
  <2>1. CASE v \in s.queued_commands
    <3>1. v \in Uid /\ Made(S, v)
      BY <1>2, <2>1 DEF ShardMade, Shards
    <3> QED BY <1>1, <3>1, MadeLater
  <2> QED BY <2>1
<1>4. \A i \in DOMAIN t.queued_messages : MsgMade(S, t.queued_messages[i])
  BY <1>2 DEF ShardMade
<1>5. t.log = s.log /\ t.round_state = s.round_state
  BY DEF InSameRound
<1>6. \A q, d \in Proc : Range(chan[q][d]) \subseteq Range(chan[q][d])
  OBVIOUS
<1> QED BY <1>3, <1>4, <1>5, <1>6, TakenMade

\* Where the scan has been, what must wait still must.
Waits(S, s, k) ==
  \A i \in DOMAIN s.queued_messages :
    s.queued_messages[i].type = "PaxosAccept" /\ (k = 0 \/ i < k) =>
      ~ReadyToProcess(s, s.queued_messages[i]) \/ Overtaken(S, s.queued_messages[i])

\* A shard that moves its scan to where everything waits is warned.
LEMMA ScanMoves ==
  ASSUME NEW S \in [Proc -> Shards], NEW p \in Proc, NEW s \in Shards, s = S[p],
         NEW t \in Shards, NEW T, T = [S EXCEPT ![p] = t], InSameRound(s, t),
         t.queued_messages = s.queued_messages, t.queued_commands = s.queued_commands,
         t.next_uid = s.next_uid, Waits(S, s, t.scan),
         NEW chan \in [Proc -> [Proc -> Seq(Message)]], NEW D,
         AllMade(S, chan), AllCalled(S, D, EmptyHands, chan), AllHeldBack(S)
  PROVE  /\ T \in [Proc -> Shards] /\ T[p] = t /\ ShardMade(T, t)
         /\ AllMade(T, chan) /\ AllCalled(T, D, InHand(p, {}), chan) /\ AllHeldBack(T)
<1>1. t.log = s.log /\ s.next_uid <= t.next_uid /\ Slot(t) = Slot(s)
  BY DEF InSameRound, Shards, Slot
<1>2. T \in [Proc -> Shards] /\ Later(S, T)
  BY <1>1, LaterInSlot
<1>3. T[p] = t
  OBVIOUS
<1>4. AllMade(T, chan)
  BY <1>2, KeptMade
<1>5. AllCalled(T, D, InHand(p, {}), chan)
  BY KeptHeld
<1>6. HeldBack(T, t)
  <2> SUFFICES ASSUME NEW i \in DOMAIN t.queued_messages, NEW m, m = t.queued_messages[i],
                      m.type = "PaxosAccept", t.scan = 0 \/ i < t.scan
               PROVE  ~ReadyToProcess(t, m) \/ Overtaken(T, m)
    BY DEF HeldBack
  <2>1. m \in PaxosAcceptMsg
    BY HeldMessage, MessageKinds
  <2>2. ~ReadyToProcess(s, m) \/ Overtaken(S, m)
    BY DEF Waits
  <2>3. ReadyToProcess(t, m) => ReadyToProcess(s, m)
    BY <1>1, ReadyMeans
  <2> QED BY <1>2, <2>1, <2>2, <2>3, OvertakenLater
<1>7. AllHeldBack(T)
  BY <1>2, <1>6, TakenHeldBack
<1> QED BY <1>2, <1>3, <1>4, <1>5, <1>7 DEF AllMade

\* What a new batch is made of exists.
MembersMade(S, v) == \A u \in v.members : u.seq < S[u.pid].next_uid

\* So is one that stores a command of its own, which readies nothing.
LEMMA StoresNew ==
  ASSUME NEW S \in [Proc -> Shards], NEW p \in Proc, NEW s \in Shards, s = S[p],
         NEW t \in Shards, NEW T, T = [S EXCEPT ![p] = t], InSameRound(s, t),
         t.queued_messages = s.queued_messages, NEW v \in Uid, v.pid = p, v.seq = s.next_uid,
         MembersMade(S, v),
         t.queued_commands = s.queued_commands \cup {v}, t.next_uid = s.next_uid + 1,
         Waits(S, s, t.scan),
         NEW chan \in [Proc -> [Proc -> Seq(Message)]], NEW D,
         AllMade(S, chan), AllCalled(S, D, EmptyHands, chan), AllHeldBack(S)
  PROVE  /\ T \in [Proc -> Shards] /\ T[p] = t /\ ShardMade(T, t)
         /\ Made(T, v) /\ NewIn(T, v, Slot(t))
         /\ AllMade(T, chan) /\ AllCalled(T, D, InHand(p, {}), chan) /\ AllHeldBack(T)
<1>1. t.log = s.log /\ Slot(t) = Slot(s) /\ ShardMade(S, s)
  BY DEF InSameRound, Slot, AllMade
<1>2. T \in [Proc -> Shards] /\ Later(S, T) /\ Made(T, v) /\ NewIn(T, v, Slot(s))
  <2>1. t.log = s.log /\ t.next_uid = s.next_uid + 1 /\ ShardMade(S, s)
    BY <1>1
  <2>2. v.pid = p /\ v.seq = s.next_uid /\ \A u \in v.members : u.seq < S[u.pid].next_uid
    BY DEF MembersMade
  <2> QED BY ONLY <2>1, <2>2, S \in [Proc -> Shards], p \in Proc, s \in Shards, s = S[p],
             t \in Shards, T = [S EXCEPT ![p] = t], v \in Uid, FreshIsNew
<1>3. T[p] = t
  OBVIOUS
<1>4. AllMade(T, chan)
  <2>1. \A w \in t.queued_commands \ s.queued_commands : Made(T, w)
    BY <1>2
  <2> QED BY <1>2, <2>1, KeptMade
<1>5. AllCalled(T, D, InHand(p, {}), chan)
  BY KeptHeld
<1>6. HeldBack(T, t)
  <2> SUFFICES ASSUME NEW i \in DOMAIN t.queued_messages, NEW m, m = t.queued_messages[i],
                      m.type = "PaxosAccept", t.scan = 0 \/ i < t.scan
               PROVE  ~ReadyToProcess(t, m) \/ Overtaken(T, m)
    BY DEF HeldBack
  <2>1. m \in PaxosAcceptMsg
    BY HeldMessage, MessageKinds
  <2>2. ~ReadyToProcess(s, m) \/ Overtaken(S, m)
    BY DEF Waits
  <2>3. CASE ~ReadyToProcess(s, m)
    <3>1. Made(S, m.v)
      BY <1>1 DEF ShardMade, MsgMade
    <3>2. s.next_uid = S[p].next_uid
      OBVIOUS
    <3>3. \E b \in Uid : /\ b.pid = p /\ b.seq = s.next_uid
                         /\ t.queued_commands = s.queued_commands \cup {b}
      OBVIOUS
    <3> QED BY <1>1, <2>1, <2>3, <3>1, <3>2, <3>3, StillNotReady
  <2> QED BY <1>2, <2>1, <2>2, <2>3, OvertakenLater
<1>7. AllHeldBack(T)
  BY <1>2, <1>6, TakenHeldBack
<1> QED BY <1>1, <1>2, <1>3, <1>4, <1>5, <1>7 DEF AllMade

\* p acts well with nothing in hand.
LEMMA WarnedAlone ==
  ASSUME HandlersTypeOK, NEW p \in Proc, NEW s \in Shards, NEW S, S = [shard EXCEPT ![p] = s],
         AllMade(S, net), AllCalled(S, decided, InHand(p, {}), net), AllHeldBack(S),
         ActsWell(S, p, s, {}, net)
  PROVE  Warned'
<1>1. MayHold(p, s, {}) /\ net \in [Proc -> [Proc -> Seq(Message)]]
  BY DEF MayHold, HandlersTypeOK, ChannelsTypeOK
<1> QED BY <1>1, ActsWarned
\* A shard that changes no more, and sends no vote and no Commit, acts well.
LEMMA OnlySends ==
  ASSUME NEW S \in [Proc -> Shards], NEW p \in Proc, NEW s \in Shards, s = S[p], ShardMade(S, s),
         NEW out \in [Proc -> Seq(Message)], OutMade(S, out), NoCommits(out),
         NEW chan, Become(p, s, chan, out), UNCHANGED history
  PROVE  ActsWell(S, p, s, {}, chan)
<1>1. OnlyRound(s, s) /\ SameOwnVote(p, s.round_state, s.round_state) /\ RoundMade(S, s.round_state)
  BY DEF OnlyRound, SameOwnVote, RoundMade, ShardMade
<1>2. \A m \in {} : m.type = "PaxosAccept" /\ m.slot = Slot(s) => s.slot_left_fast_path
  OBVIOUS
<1> QED BY <1>1, <1>2, OnlyRoundActs

\* A client's command finds everyone warned, and leaves them so.
LEMMA ClientCommandWarned ==
  ASSUME HandlersTypeOK, NEW p \in Proc, Warned, ClientCommand(p)
  PROVE  Warned'
<1> DEFINE old == shard[p]
           v   == NewCommand(p, old.next_uid)
           s   == [StoreNewCommand(old, v) EXCEPT !.scan = Len(old.queued_messages) + 1]
           out == ValueSpreads(s, p, v, p, 0)
           T   == [shard EXCEPT ![p] = s]
<1>1. /\ shard \in [Proc -> Shards] /\ old \in Shards /\ old = shard[p] /\ ShardTypeOK(p, old)
      /\ net \in [Proc -> [Proc -> Seq(Message)]] /\ Len(old.queued_messages) \in Nat
      /\ old.next_uid \in Nat /\ old.scan = 0
  <2>1. /\ shard \in [Proc -> Shards] /\ old \in Shards /\ ShardTypeOK(p, old)
        /\ net \in [Proc -> [Proc -> Seq(Message)]]
    BY DEF HandlersTypeOK, ShardsTypeOK, ChannelsTypeOK
  <2>2. Len(old.queued_messages) \in Nat /\ old.next_uid \in Nat
    BY <2>1 DEF Shards
  <2> QED BY <2>1, <2>2 DEF ClientCommand
<1>2. /\ AllMade(shard, net) /\ AllCalled(shard, decided, EmptyHands, net) /\ AllHeldBack(shard)
  BY DEF Warned
<1>3. /\ (Become(p, s, net, out) \/ ProposeAndSpread(p, s, v, TRUE)) /\ UNCHANGED history
  BY DEF ClientCommand
<1>4. v \in Uid /\ v.pid = p /\ v.seq = old.next_uid /\ v.members = {}
  BY <1>1, NewCommandType DEF NewCommand
<1> HIDE DEF old, v
<1>5. ShardTypeOK(p, s) /\ s \in Shards
  <2>1. ShardTypeOK(p, StoreNewCommand(old, v)) /\ Len(old.queued_messages) + 1 \in Nat
    BY <1>1, <1>4, StoreNewCommandType
  <2>2. ShardTypeOK(p, s)
    BY <2>1, ShardUpdate
  <2> QED BY <2>2 DEF ShardTypeOK
<1>6. /\ InSameRound(old, s) /\ s.queued_messages = old.queued_messages
      /\ s.queued_commands = old.queued_commands \cup {v} /\ s.next_uid = old.next_uid + 1
      /\ s.scan = Len(old.queued_messages) + 1
  BY <1>1 DEF StoreNewCommand, Shards, InSameRound
<1> HIDE DEF s
<1>7. Waits(shard, old, s.scan)
  <2>1. HeldBack(shard, old)
    BY <1>1, <1>2 DEF AllHeldBack
  <2> QED BY <1>1, <2>1 DEF Waits, HeldBack
<1>8. /\ T \in [Proc -> Shards] /\ T[p] = s /\ ShardMade(T, s)
      /\ Made(T, v) /\ NewIn(T, v, Slot(s))
      /\ AllMade(T, net) /\ AllCalled(T, decided, InHand(p, {}), net) /\ AllHeldBack(T)
  <2>1. MembersMade(shard, v)
    BY <1>4 DEF MembersMade
  <2> HIDE DEF T
  <2>2. T = [shard EXCEPT ![p] = s]
    BY DEF T
  <2> QED BY <1>1, <1>2, <1>4, <1>5, <1>6, <1>7, <2>1, <2>2, StoresNew
<1>9. T = [shard EXCEPT ![p] = s] /\ s = T[p]
  BY <1>8
<1> HIDE DEF T
<1>10. CASE Become(p, s, net, out)
  <2>1. out \in [Proc -> Seq(Message)]
    <3>1. 0 \in StateIds(p, p)
      BY PlanFacts
    <3> QED BY <1>4, <1>5, <3>1, ValueSpreadsOutgoing DEF Outgoing
  <2>2. OutMade(T, out) /\ NoCommits(out)
    BY <1>8, ValueSpreadsMade
  <2> HIDE DEF out
  <2> QED BY <1>3, <1>5, <1>8, <1>9, <1>10, <2>1, <2>2, OnlySends, WarnedAlone
<1>11. CASE ProposeAndSpread(p, s, v, TRUE)
  <2>1. PICK newValue \in BOOLEAN : ProposeAndSpread(p, s, v, newValue)
    BY <1>11
  <2>2. newValue => NewIn(T, v, Slot(s))
    BY <1>8
  <2>3. ActsWell(T, p, s, {}, net)
    BY <1>3, <1>4, <1>5, <1>8, <1>9, <2>1, <2>2, ProposeActs
  <2> QED BY <1>1, <1>5, <1>8, <1>9, <2>3, WarnedAlone
<1> QED BY <1>3, <1>10, <1>11

\* The end of the loop's body leaves everyone warned.
LEMMA ReproposeWarned ==
  ASSUME HandlersTypeOK, NEW p \in Proc, Warned, Repropose(p)
  PROVE  Warned'
<1> DEFINE old == shard[p]
           s == [old EXCEPT !.scan = 0]
           batch == BatchOf(s, p)
           t == StoreNewCommand(s, batch)
           S == [shard EXCEPT ![p] = s]
           T == [shard EXCEPT ![p] = t]
<1>1. /\ shard \in [Proc -> Shards] /\ old \in Shards /\ old = shard[p] /\ ShardTypeOK(p, old)
      /\ net \in [Proc -> [Proc -> Seq(Message)]]
  BY DEF HandlersTypeOK, ShardsTypeOK, ChannelsTypeOK
<1>2. /\ AllMade(shard, net) /\ AllCalled(shard, decided, EmptyHands, net) /\ AllHeldBack(shard)
  BY DEF Warned
<1>3. /\ UNCHANGED history
      /\ \/ ProposeAndSpread(p, t, batch, TRUE)
         \/ \E v \in QueuedSingles(s) : ProposeAndSpread(p, s, v, FALSE)
         \/ Become(p, s, net, Nothing)
  BY DEF Repropose
<1>4. Waits(shard, old, 0)
  <2> SUFFICES ASSUME NEW i \in DOMAIN old.queued_messages, old.queued_messages[i].type = "PaxosAccept"
               PROVE  ~ReadyToProcess(old, old.queued_messages[i]) \/ Overtaken(shard, old.queued_messages[i])
    BY DEF Waits
  <2>1. HeldBack(shard, old) /\ ReadyHeld(p) = {}
    BY <1>2 DEF AllHeldBack, Repropose
  <2>2. i \in Nat /\ old.scan \in Nat
    BY <1>1 DEF Shards
  <2>3. CASE i < old.scan
    BY <2>1, <2>3 DEF HeldBack
  <2>4. CASE i >= old.scan
    BY <2>1, <2>4 DEF ReadyHeld
  <2> QED BY <2>2, <2>3, <2>4
<1> HIDE DEF old
<1>5. ShardTypeOK(p, s) /\ s \in Shards
  BY <1>1, ShardUpdate DEF ShardTypeOK
<1>6. /\ InSameRound(old, s) /\ s.queued_messages = old.queued_messages
      /\ s.queued_commands = old.queued_commands /\ s.next_uid = old.next_uid /\ s.scan = 0
  BY <1>1 DEF Shards, InSameRound
<1> HIDE DEF s
<1>7. S = [shard EXCEPT ![p] = s]
  OBVIOUS
<1>8. batch \in Uid /\ batch.pid = p /\ batch.seq = old.next_uid /\ batch.members = QueuedSingles(s)
  BY <1>5, <1>6, BatchOfType DEF BatchOf, NewBatch
<1> HIDE DEF S, batch
<1>9. /\ S \in [Proc -> Shards] /\ S[p] = s /\ ShardMade(S, s)
      /\ AllMade(S, net) /\ AllCalled(S, decided, InHand(p, {}), net) /\ AllHeldBack(S)
  <2>1. Waits(shard, old, s.scan)
    BY <1>4, <1>6
  <2> QED BY <1>1, <1>2, <1>5, <1>6, <1>7, <2>1, ScanMoves
<1>10. CASE ProposeAndSpread(p, t, batch, TRUE)
  <2>1. ShardTypeOK(p, t) /\ t \in Shards
    BY <1>5, <1>8, StoreNewCommandType DEF ShardTypeOK
  <2>2. /\ InSameRound(old, t) /\ t.queued_messages = old.queued_messages
        /\ t.queued_commands = old.queued_commands \cup {batch} /\ t.next_uid = old.next_uid + 1
        /\ t.scan = 0
    BY <1>5, <1>6 DEF StoreNewCommand, Shards, InSameRound
  <2>3. T = [shard EXCEPT ![p] = t]
    OBVIOUS
  <2> HIDE DEF T, t
  <2>4. MembersMade(shard, batch)
    <3> SUFFICES ASSUME NEW u \in QueuedSingles(s) PROVE u.seq < shard[u.pid].next_uid
      BY <1>8 DEF MembersMade
    <3>1. u \in old.queued_commands /\ u \in Uid
      BY <1>1, <1>6 DEF QueuedSingles, Shards
    <3>2. Made(shard, u) /\ u # NoV
      <4>1. Made(shard, u)
        BY <1>1, <1>2, <3>1 DEF AllMade, ShardMade
      <4>2. u.pid \in Proc
        BY <3>1 DEF Uid, Command, Batch
      <4> QED BY <4>1, <4>2, NoneIsNobody, ProcIsNat DEF NoV
    <3> QED BY <3>2 DEF Made, Named
  <2>5. Waits(shard, old, t.scan)
    BY <1>4, <2>2
  <2>6. /\ T \in [Proc -> Shards] /\ T[p] = t /\ ShardMade(T, t)
        /\ Made(T, batch) /\ NewIn(T, batch, Slot(t))
        /\ AllMade(T, net) /\ AllCalled(T, decided, InHand(p, {}), net) /\ AllHeldBack(T)
    <3>1. /\ InSameRound(old, t) /\ t.queued_messages = old.queued_messages
          /\ t.queued_commands = old.queued_commands \cup {batch} /\ t.next_uid = old.next_uid + 1
      BY <2>2
    <3>2. batch \in Uid /\ batch.pid = p /\ batch.seq = old.next_uid
      BY <1>8
    <3> QED BY ONLY <1>1, <1>2, <2>1, <2>3, <2>4, <2>5, <3>1, <3>2, StoresNew, p \in Proc
  <2>7. PICK newValue \in BOOLEAN : ProposeAndSpread(p, t, batch, newValue)
    BY <1>10
  <2>8. newValue => NewIn(T, batch, Slot(t))
    BY <2>6
  <2>9. t = T[p]
    BY <2>6
  <2>10. ActsWell(T, p, t, {}, net)
    BY <1>3, <1>8, <2>1, <2>6, <2>7, <2>8, <2>9, ProposeActs
  <2> QED BY <2>1, <2>3, <2>6, <2>10, WarnedAlone
<1>11. CASE \E v \in QueuedSingles(s) : ProposeAndSpread(p, s, v, FALSE)
  <2>1. PICK v \in QueuedSingles(s) : ProposeAndSpread(p, s, v, FALSE)
    BY <1>11
  <2>2. v \in Uid /\ Made(S, v)
    BY <1>5, <1>9 DEF QueuedSingles, Shards, ShardMade
  <2>3. PICK newValue \in BOOLEAN : ~newValue /\ ProposeAndSpread(p, s, v, newValue)
    BY <2>1
  <2>4. newValue => NewIn(S, v, Slot(s))
    BY <2>3
  <2>5. s = S[p]
    BY <1>9
  <2>6. ActsWell(S, p, s, {}, net)
    BY <1>3, <1>5, <1>9, <2>2, <2>3, <2>4, <2>5, ProposeActs
  <2> QED BY <1>5, <1>7, <1>9, <2>6, WarnedAlone
<1>12. CASE Become(p, s, net, Nothing)
  <2>1. s = S[p]
    BY <1>9
  <2>2. ActsWell(S, p, s, {}, net)
    BY <1>3, <1>5, <1>9, <1>12, <2>1, NothingIsSent, NothingMade, OnlySends
  <2> QED BY <1>5, <1>7, <1>9, <2>2, WarnedAlone
<1> QED BY <1>3, <1>10, <1>11, <1>12

\* Taking a message out of the queue shifts those behind it.
LEMMA Removed ==
  ASSUME NEW h \in Seq(Message), NEW i \in 1 .. Len(h), NEW e, e = RemoveAt(h, i)
  PROVE  /\ DOMAIN h = 1 .. Len(h) /\ Len(h) \in Nat /\ DOMAIN e = 1 .. Len(h) - 1
         /\ \A j \in DOMAIN e : /\ j \in Nat \ {0} /\ j < i => e[j] = h[j]
                                /\ j >= i => e[j] = h[j + 1]
<1>1. Len(h) \in Nat /\ DOMAIN h = 1 .. Len(h) /\ i \in Nat \ {0}
  OBVIOUS
<1> DEFINE a == SubSeq(h, 1, i - 1)
           b == SubSeq(h, i + 1, Len(h))
<1>2. /\ a \in Seq(Message) /\ Len(a) = i - 1 /\ \A j \in 1 .. i - 1 : a[j] = h[j]
  BY <1>1
<1>3. /\ b \in Seq(Message) /\ Len(b) = Len(h) - i /\ \A j \in 1 .. Len(h) - i : b[j] = h[i + j]
  <2>1. b \in Seq(Message)
    BY <1>1
  <2>2. Len(b) = Len(h) - i
    <3>1. i <= Len(h)
      OBVIOUS
    <3>2. CASE i < Len(h)
      <4>1. i + 1 <= Len(h) /\ i + 1 \in Nat
        BY <1>1, <3>2
      <4>2. Len(b) = Len(h) - (i + 1) + 1
        BY <1>1, <4>1
      <4> HIDE DEF b
      <4> QED BY <1>1, <4>2
    <3>3. CASE i = Len(h)
      <4>1. b = <<>>
        BY <1>1, <3>3
      <4> QED BY <1>1, <3>3, <4>1
    <3>4. i < Len(h) \/ i = Len(h)
      <4>1. i \in Nat /\ Len(h) \in Nat
        BY <1>1
      <4> QED BY ONLY <3>1, <4>1
    <3> QED BY ONLY <3>2, <3>3, <3>4
  <2>3. ASSUME NEW j \in 1 .. Len(h) - i PROVE b[j] = h[i + j]
    <3>1. b[j] = h[(i + 1) + j - 1]
      BY <1>1
    <3>2. (i + 1) + j - 1 = i + j
      BY <1>1
    <3> QED BY <3>1, <3>2
  <2> QED BY <2>1, <2>2, <2>3
<1>4. e = a \o b
  BY DEF RemoveAt
<1> HIDE DEF a, b
<1>5. /\ DOMAIN e = 1 .. Len(h) - 1
      /\ \A j \in 1 .. Len(h) - 1 : e[j] = IF j < i THEN a[j] ELSE b[j - (i - 1)]
  <2>1. /\ DOMAIN (a \o b) = 1 .. Len(a) + Len(b)
        /\ \A j \in 1 .. Len(a) + Len(b) : (a \o b)[j] = IF j <= Len(a) THEN a[j] ELSE b[j - Len(a)]
    <3>1. a \in Seq(Message) /\ b \in Seq(Message)
      BY <1>2, <1>3
    <3> QED BY ONLY <3>1
  <2>2. Len(a) + Len(b) = Len(h) - 1 /\ Len(a) = i - 1
    BY <1>1, <1>2, <1>3
  <2>3. /\ DOMAIN e = 1 .. Len(h) - 1
        /\ \A j \in 1 .. Len(h) - 1 : e[j] = IF j <= i - 1 THEN a[j] ELSE b[j - (i - 1)]
    BY <1>4, <2>1, <2>2
  <2>4. \A j \in 1 .. Len(h) - 1 : j <= i - 1 <=> j < i
    BY <1>1
  <2> QED BY <2>3, <2>4
<1>6. ASSUME NEW j \in DOMAIN e, j >= i PROVE e[j] = h[j + 1]
  <2>1. j \in Nat /\ j - (i - 1) \in 1 .. Len(h) - i /\ i + (j - (i - 1)) = j + 1
    BY <1>1, <1>5, <1>6
  <2>2. e[j] = b[j - (i - 1)]
    BY <1>1, <1>5, <1>6, <2>1
  <2> QED BY <1>3, <2>1, <2>2
<1>7. ASSUME NEW j \in DOMAIN e, j < i PROVE e[j] = h[j]
  <2>1. j \in 1 .. i - 1
    BY <1>1, <1>5, <1>7
  <2> QED BY <1>1, <1>2, <1>5, <1>7, <2>1
<1>8. \A j \in DOMAIN e : j \in Nat \ {0}
  BY <1>1, <1>5
<1> QED BY <1>1, <1>5, <1>6, <1>7, <1>8

\* The others keep their order, and it is in hand.
LEMMA RemovedInOrder ==
  ASSUME NEW s \in Shards, NEW t, InSameRound(s, t), NEW i \in 1 .. Len(s.queued_messages),
         t.queued_messages = RemoveAt(s.queued_messages, i), NEW D
  PROVE  /\ HeldInOrder(s, D, {}) => HeldInOrder(t, D, {s.queued_messages[i]})
         /\ Range(s.queued_messages) \subseteq {s.queued_messages[i]} \cup Range(t.queued_messages)
         /\ Range(t.queued_messages) \subseteq Range(s.queued_messages)
<1> DEFINE h == s.queued_messages
           e == t.queued_messages
<1>1. h \in Seq(Message) /\ e = RemoveAt(h, i) /\ i \in 1 .. Len(h)
  BY DEF Shards
<1>2. HeldInOrder(s, D, {}) =>
        \A k \in DOMAIN h : h[k].type = "Commit" =>
          \/ FastSlot(D, h[k].slot) \/ Left(s, h[k].slot)
          \/ \E j \in 1 .. k - 1 : IsAccept(h[j], h[k].slot, h[k].v)
  BY DEF HeldInOrder
<1>3. \A n : Left(s, n) => Left(t, n)
  BY DEF Left, Slot, InSameRound
<1> HIDE DEF h, e
<1>4. /\ DOMAIN h = 1 .. Len(h) /\ Len(h) \in Nat /\ DOMAIN e = 1 .. Len(h) - 1
      /\ \A j \in DOMAIN e : /\ j \in Nat \ {0} /\ j < i => e[j] = h[j]
                             /\ j >= i => e[j] = h[j + 1]
  BY <1>1, Removed
<1>5. \A j \in DOMAIN h : \/ j < i /\ j \in DOMAIN e /\ e[j] = h[j]
                          \/ j = i
                          \/ j > i /\ j - 1 \in DOMAIN e /\ e[j - 1] = h[j]
  <2> SUFFICES ASSUME NEW j \in DOMAIN h, j # i
               PROVE  \/ j < i /\ j \in DOMAIN e /\ e[j] = h[j]
                      \/ j > i /\ j - 1 \in DOMAIN e /\ e[j - 1] = h[j]
    OBVIOUS
  <2>1. j \in Nat \ {0} /\ i \in Nat \ {0} /\ j <= Len(h) /\ i <= Len(h)
    BY <1>1, <1>4
  <2>2. CASE j < i
    <3>1. j \in DOMAIN e
      BY <1>4, <2>1, <2>2
    <3> QED BY <1>4, <2>2, <3>1
  <2>3. CASE j > i
    <3>1. j - 1 \in DOMAIN e /\ j - 1 >= i /\ (j - 1) + 1 = j
      BY <1>4, <2>1, <2>3
    <3>2. e[j - 1] = h[(j - 1) + 1]
      BY <1>4, <3>1
    <3> QED BY <2>3, <3>1, <3>2
  <2> QED BY <2>1, <2>2, <2>3
<1>6. ASSUME NEW k \in DOMAIN e
      PROVE  \E l \in DOMAIN h : e[k] = h[l] /\ (l = k \/ l = k + 1) /\ (k < i => l = k) /\ l # i
  <2>1. CASE k < i
    BY <1>1, <1>4, <2>1
  <2>2. CASE k >= i
    BY <1>1, <1>4, <2>2
  <2> QED BY <1>1, <1>4, <2>1, <2>2
<1>7. ASSUME HeldInOrder(s, D, {}), NEW k \in DOMAIN e, e[k].type = "Commit"
      PROVE  \/ FastSlot(D, e[k].slot) \/ Left(t, e[k].slot)
             \/ \E x \in {h[i]} : IsAccept(x, e[k].slot, e[k].v)
             \/ \E j \in 1 .. k - 1 : IsAccept(e[j], e[k].slot, e[k].v)
  <2>1. PICK l \in DOMAIN h : e[k] = h[l] /\ (l = k \/ l = k + 1) /\ (k < i => l = k) /\ l # i
    BY <1>6
  <2>2. CASE \E j \in 1 .. l - 1 : IsAccept(h[j], h[l].slot, h[l].v)
    <3>1. PICK j \in 1 .. l - 1 : IsAccept(h[j], h[l].slot, h[l].v)
      BY <2>2
    <3>2. j \in DOMAIN h /\ j < l /\ k \in Nat /\ l \in Nat /\ i \in Nat /\ j \in Nat \ {0}
      BY <1>1, <1>4, <2>1
    <3>3. CASE j = i
      BY <2>1, <3>1, <3>3
    <3>4. CASE j < i
      <4>1. j \in DOMAIN e /\ e[j] = h[j]
        BY <1>4, <1>1, <3>2, <3>4
      <4>2. j \in 1 .. k - 1
        BY <2>1, <3>2, <3>4
      <4> QED BY <2>1, <3>1, <4>1, <4>2
    <3>5. CASE j > i
      <4>1. j - 1 \in DOMAIN e /\ e[j - 1] = h[j]
        BY <1>5, <1>1, <3>2, <3>5
      <4>2. j - 1 \in 1 .. k - 1
        BY <1>1, <2>1, <3>2, <3>5
      <4> QED BY <2>1, <3>1, <4>1, <4>2
    <3> QED BY <3>2, <3>3, <3>4, <3>5
  <2>3. \/ FastSlot(D, h[l].slot) \/ Left(s, h[l].slot)
        \/ \E j \in 1 .. l - 1 : IsAccept(h[j], h[l].slot, h[l].v)
    BY <1>2, <1>7, <2>1
  <2> QED BY <1>3, <2>1, <2>2, <2>3
<1>8. HeldInOrder(s, D, {}) => HeldInOrder(t, D, {h[i]})
  BY <1>7 DEF HeldInOrder, e
<1>9. Range(h) \subseteq {h[i]} \cup Range(e)
  <2> SUFFICES ASSUME NEW j \in DOMAIN h, j # i PROVE h[j] \in Range(e)
    BY DEF Range
  <2> QED BY <1>5 DEF Range
<1>10. Range(e) \subseteq Range(h)
  BY <1>6 DEF Range
<1> QED BY <1>8, <1>9, <1>10 DEF h, e

\* Handling a held message leaves everyone warned.
LEMMA ProcessHeldWarned ==
  ASSUME GraphSeparates, HandlersTypeOK, NEW H, Explains(H, net), NEW p \in Proc, Warned,
         ProcessHeld(p)
  PROVE  Warned'
<1>1. PICK i \in ReadyHeld(p) :
        /\ \A j \in ReadyHeld(p) : i <= j
        /\ Process(p, shard[p].queued_messages[i],
                   [shard[p] EXCEPT !.queued_messages = RemoveAt(@, i), !.scan = i], net)
  BY ZenonT(60) DEF ProcessHeld
<1> DEFINE old == shard[p]
           h == old.queued_messages
           m == h[i]
           e == RemoveAt(h, i)
           t == [old EXCEPT !.queued_messages = e]
           s == [t EXCEPT !.scan = i]
           S == [shard EXCEPT ![p] = s]
<1>2. /\ ShardTypeOK(p, old) /\ old \in Shards /\ old = shard[p] /\ shard \in [Proc -> Shards]
      /\ h \in Seq(MessageTo(p)) /\ h \in Seq(GoodTo(H, p)) /\ h \in Seq(Message)
      /\ net \in [Proc -> [Proc -> Seq(Message)]]
      /\ GoodHistory(H) /\ \A q \in Proc : ShardOK(H, q, shard[q])
  BY DEF HandlersTypeOK, ShardsTypeOK, ShardTypeOK, ShardOK, Explains, ChannelsTypeOK, Shards
<1>3. /\ AllMade(shard, net) /\ AllCalled(shard, decided, EmptyHands, net) /\ AllHeldBack(shard)
  BY DEF Warned
<1>4. i \in 1 .. Len(h) /\ i \in Nat /\ i >= old.scan /\ ReadyToProcess(old, m)
  BY <1>2 DEF ReadyHeld
<1>5. m \in GoodTo(H, p) /\ m \in MessageTo(p) /\ m \in Message
  <2> HIDE DEF GoodTo, h
  <2> QED BY <1>2, <1>4
<1>6. e \in Seq(MessageTo(p)) /\ e \in Seq(GoodTo(H, p))
  <2> HIDE DEF GoodTo, h
  <2>1. SubSeq(h, 1, i - 1) \in Seq(MessageTo(p)) /\ SubSeq(h, i + 1, Len(h)) \in Seq(MessageTo(p))
    BY <1>2, <1>4
  <2>2. SubSeq(h, 1, i - 1) \in Seq(GoodTo(H, p)) /\ SubSeq(h, i + 1, Len(h)) \in Seq(GoodTo(H, p))
    BY <1>2, <1>4
  <2> QED BY <2>1, <2>2 DEF RemoveAt
<1>7. s = [shard[p] EXCEPT !.queued_messages = RemoveAt(@, i), !.scan = i]
  BY <1>2 DEF Shards
<1>8. Process(p, m, s, net)
  BY <1>1, <1>7
<1>9. Waits(shard, old, i)
  <2>1. HeldBack(shard, old) /\ old.scan \in Nat
    BY <1>2, <1>3 DEF AllHeldBack, Shards
  <2> SUFFICES ASSUME NEW j \in DOMAIN h, h[j].type = "PaxosAccept", j < i
               PROVE  ~ReadyToProcess(old, h[j]) \/ Overtaken(shard, h[j])
    BY <1>4 DEF Waits
  <2>2. j \in Nat
    BY <1>2
  <2>3. CASE j < old.scan
    BY <2>1, <2>3 DEF HeldBack
  <2>4. CASE j >= old.scan
    BY <1>1, <1>4, <2>2, <2>4 DEF ReadyHeld
  <2> QED BY <2>1, <2>2, <2>3, <2>4
<1>10. ShardTypeOK(p, t)
  <2> HIDE DEF e, old
  <2> QED BY <1>2, <1>6, ShardUpdate
<1>11. ShardTypeOK(p, s) /\ s \in Shards
  <2> HIDE DEF t
  <2> QED BY <1>4, <1>10, ShardUpdate DEF ShardTypeOK
<1>12. /\ InSameRound(old, s) /\ s.queued_messages = RemoveAt(h, i)
       /\ s.queued_commands = old.queued_commands /\ s.next_uid = old.next_uid /\ s.scan = i
  BY <1>2 DEF Shards, InSameRound
<1> HIDE DEF s
<1>13. S = [shard EXCEPT ![p] = s]
  OBVIOUS
<1>14. S[p] = s
  BY <1>2
<1> HIDE DEF S, t, e
<1>15. /\ ShardMade(shard, old) /\ HeldBack(shard, old)
       /\ p \in AliveReplicas => HeldInOrder(old, decided, {})
  BY <1>2, <1>3 DEF AllMade, AllHeldBack, AllCalled, EmptyHands
<1> HIDE DEF old
<1>16. /\ Range(h) \subseteq {m} \cup Range(s.queued_messages)
       /\ p \in AliveReplicas => HeldInOrder(s, decided, {m})
       /\ Range(s.queued_messages) \subseteq Range(h)
  <2>1. /\ old \in Shards /\ InSameRound(old, s) /\ i \in 1 .. Len(old.queued_messages)
        /\ s.queued_messages = RemoveAt(old.queued_messages, i)
    BY <1>2, <1>4, <1>12
  <2>2. /\ HeldInOrder(old, decided, {}) => HeldInOrder(s, decided, {m})
        /\ Range(h) \subseteq {m} \cup Range(s.queued_messages)
        /\ Range(s.queued_messages) \subseteq Range(h)
    BY ONLY <2>1, RemovedInOrder
  <2> QED BY <1>15, <2>2
<1>17. s.log = old.log /\ s.round_state = old.round_state /\ s.next_uid = old.next_uid
       /\ Slot(s) = Slot(old) /\ old.next_uid <= s.next_uid
  BY <1>2, <1>12 DEF InSameRound, Slot, Shards
<1>18. S \in [Proc -> Shards] /\ Later(shard, S)
  BY <1>2, <1>11, <1>13, <1>17, LaterInSlot
<1>19. AllMade(S, net)
  <2>1. \A v \in s.queued_commands : Made(S, v)
    <3> SUFFICES ASSUME NEW v \in old.queued_commands PROVE Made(S, v)
      BY <1>12
    <3>1. v \in Uid /\ Made(shard, v)
      BY <1>2, <1>15 DEF ShardMade, Shards
    <3> QED BY <1>2, <1>18, <3>1, MadeLater
  <2>2. \A k \in DOMAIN s.queued_messages : MsgMade(shard, s.queued_messages[k])
    BY <1>15, <1>16 DEF ShardMade, Range
  <2>3. \A q, d \in Proc : Range(net[q][d]) \subseteq Range(net[q][d])
    OBVIOUS
  <2> QED BY <1>2, <1>3, <1>11, <1>13, <1>17, <1>18, <2>1, <2>2, <2>3, TakenMade
<1>20. AllCalled(S, decided, InHand(p, {m}), net)
  BY <1>2, <1>3, <1>11, <1>12, <1>13, <1>16, TakenFromHeld
<1>21. HeldBack(S, s)
  <2> DEFINE g == s.queued_messages
  <2> SUFFICES ASSUME NEW j \in DOMAIN g, g[j].type = "PaxosAccept", j < i
               PROVE  ~ReadyToProcess(s, g[j]) \/ Overtaken(S, g[j])
    BY <1>4, <1>12 DEF HeldBack
  <2>1. g = RemoveAt(h, i) /\ h \in Seq(Message) /\ g \in Seq(Message)
    BY <1>2, <1>11, <1>12 DEF Shards
  <2> HIDE DEF g, h
  <2>2. /\ DOMAIN h = 1 .. Len(h) /\ Len(h) \in Nat /\ DOMAIN g = 1 .. Len(h) - 1
        /\ \A k \in DOMAIN g : k \in Nat \ {0} /\ (k < i => g[k] = h[k])
    BY <1>4, <2>1, Removed
  <2>3. j \in DOMAIN h /\ g[j] = h[j] /\ g[j] \in Message
    BY <2>1, <2>2
  <2>4. ~ReadyToProcess(old, h[j]) \/ Overtaken(shard, h[j])
    BY <1>9, <2>3 DEF Waits, h
  <2>5. ReadyToProcess(s, g[j]) => ReadyToProcess(old, h[j])
    BY <1>12, <1>17, <2>3, ReadyMeans
  <2>6. g[j] \in PaxosAcceptMsg
    BY <2>3, MessageKinds
  <2> QED BY <1>2, <1>18, <2>3, <2>4, <2>5, <2>6, OvertakenLater
<1>22. AllHeldBack(S)
  BY <1>2, <1>3, <1>11, <1>13, <1>18, <1>21, TakenHeldBack
<1>23. ShardOK(H, p, s)
  <2>1. ShardOK(H, p, old)
    BY <1>2
  <2> QED BY <1>6, <1>12, <1>17, <2>1, SameReports DEF e
<1>24. ASSUME p \in AliveReplicas, m.type = "Commit", m.slot = Slot(s)
       PROVE  FastSlot(decided, m.slot) \/ Left(s, m.slot)
  <2>1. \/ FastSlot(decided, m.slot) \/ Left(old, m.slot)
        \/ \E j \in 1 .. i - 1 : IsAccept(h[j], m.slot, m.v)
    <3>1. i \in DOMAIN old.queued_messages
      BY <1>2, <1>4
    <3>2. HeldInOrder(old, decided, {})
      BY <1>15, <1>24
    <3> QED BY <1>24, <3>1, <3>2 DEF HeldInOrder
  <2>2. Left(old, m.slot) => Left(s, m.slot)
    BY <1>12 DEF Left, Slot, InSameRound
  <2>3. ASSUME NEW j \in 1 .. i - 1, IsAccept(h[j], m.slot, m.v) PROVE FALSE
    <3>1. j \in DOMAIN h /\ j < i
      BY <1>2, <1>4
    <3>2. ~ReadyToProcess(old, h[j]) \/ Overtaken(shard, h[j])
      BY <1>9, <2>3, <3>1 DEF Waits, IsAccept
    <3>3. MsgOK(H, m)
      BY <1>5 DEF GoodTo
    <3> QED BY <1>2, <1>4, <1>5, <1>17, <1>24, <2>3, <3>1, <3>2, <3>3, CommitIsWarned
  <2> QED BY <2>1, <2>2, <2>3
<1>25. MsgMade(S, m) /\ ShardMade(S, s)
  <2>1. MsgMade(shard, m)
    BY <1>2, <1>4, <1>15 DEF ShardMade
  <2> QED BY <1>2, <1>5, <1>14, <1>18, <1>19, <2>1, MsgMadeLater DEF AllMade
<1>26. ActsWell(S, p, s, {m}, net)
  <2> HIDE DEF m
  <2>1. s = S[p]
    BY <1>14
  <2>2. p \in AliveReplicas /\ m.type = "Commit" /\ m.slot = Slot(s) =>
          FastSlot(decided, m.slot) \/ Left(s, m.slot)
    BY <1>24
  <2> QED BY <1>2, <1>5, <1>8, <1>11, <1>18, <1>23, <1>25, <2>1, <2>2, ProcessActs
<1>27. MayHold(p, s, {m})
  <2>1. m.type = "PaxosAccept" => m.slot <= Slot(s)
    <3> HIDE DEF m
    <3> SUFFICES ASSUME m.type = "PaxosAccept" PROVE m.slot <= Slot(s)
      OBVIOUS
    <3>1. Slot(old) \in Nat /\ m.slot \in Nat
      BY <1>2, <1>5, SlotType, MessageKinds DEF PaxosAcceptMsg
    <3>2. m.slot < Slot(old) \/ m.slot = Slot(old)
      BY <1>4, ReadyMeans
    <3> QED BY <1>17, <3>1, <3>2
  <2> QED BY <1>5, <2>1 DEF MayHold
<1> QED BY <1>2, <1>11, <1>13, <1>19, <1>20, <1>22, <1>26, <1>27, ActsWarned

\* A value stored for a message that must wait readies no PaxosAccept that could still
\* be decided: the message is of a later slot, in which the command was made.
LEMMA StoredReadiesNothing ==
  ASSUME NEW S \in [Proc -> Shards], NEW s \in Shards, NEW t \in Shards, Slot(t) = Slot(s),
         NEW m \in Message, MsgMade(S, m), CarriesValue(m), ~ReadyToProcess(t, m),
         t.queued_commands = s.queued_commands \cup {m.v},
         NEW x \in PaxosAcceptMsg, ~ReadyToProcess(s, x), ReadyToProcess(t, x)
  PROVE  Overtaken(S, x)
<1>1. /\ m.v \in Uid /\ x.v \in Uid /\ x.type = "PaxosAccept" /\ x.slot \in Nat /\ Slot(s) \in Nat
      /\ \A q \in Proc : Slot(S[q]) \in Nat
  BY MessageKinds, SlotType DEF PaxosAcceptMsg
<1>2. /\ x.slot = Slot(s) /\ Named(x.v) \subseteq s.queued_commands \cup {m.v} /\ m.v \in Named(x.v)
  BY <1>1, ReadyMeans
<1>3. m.type \in {"Spread", "PaxosAccept"} /\ m.new_value /\ m.slot \in Nat
  <2>1. m.type # "SpreadValueOnly"
    BY DEF ReadyToProcess
  <2>2. m.type \in {"Spread", "PaxosAccept"} /\ m.new_value
    BY <2>1 DEF CarriesValue
  <2> QED BY <2>2, MessageKinds DEF SpreadMsg, PaxosAcceptMsg
<1>4. NewIn(S, m.v, m.slot)
  BY <1>3 DEF MsgMade
<1>5. m.slot > Slot(s)
  <2> SUFFICES ASSUME m.slot <= Slot(s) PROVE FALSE
    BY <1>1, <1>3
  <2>1. m.slot = Slot(t) /\ ~(Named(m.v) \subseteq t.queued_commands)
    BY <1>1, <1>3 DEF ReadyToProcess, Named
  <2>2. PICK u \in m.v.members : u \notin t.queued_commands
    BY <2>1 DEF Named
  <2>3. IsBatch(m.v)
    BY <1>1, <2>2, MemberIsSingle
  <2>4. m.v = x.v
    BY <1>1, <1>2, <2>3, MemberIsSingle DEF Named
  <2> QED BY <1>2, <2>2, <2>4 DEF Named
<1>6. m.v.pid \in Proc
  BY <1>1, NamedType DEF Named
<1>7. x.slot < Slot(S[m.v.pid]) /\ x.slot + 1 \in 1 .. m.slot
  BY <1>1, <1>2, <1>3, <1>4, <1>5, <1>6 DEF NewIn
<1>8. m.v \notin Named(S[m.v.pid].log[x.slot + 1].v)
  BY <1>4, <1>7 DEF NewIn
<1> QED BY <1>2, <1>7, <1>8 DEF Overtaken

\* Nothing comes on rest that was not on chan.
NothingNew(rest, chan) == \A q, d \in Proc : Range(rest[q][d]) \subseteq Range(chan[q][d])

LEMMA RestMade ==
  ASSUME NEW T, NEW chan \in [Proc -> [Proc -> Seq(Message)]], AllMade(T, chan),
         NEW rest, NothingNew(rest, chan)
  PROVE  AllMade(T, rest)
<1>1. ASSUME NEW d \in Proc, NEW q \in Proc, NEW i \in DOMAIN rest[q][d]
      PROVE  MsgMade(T, rest[q][d][i])
  <2>1. rest[q][d][i] \in Range(chan[q][d])
    BY DEF NothingNew, Range
  <2>2. PICK k \in DOMAIN chan[q][d] : rest[q][d][i] = chan[q][d][k]
    BY <2>1 DEF Range
  <2> QED BY <2>2 DEF AllMade
<1> QED BY <1>1 DEF AllMade

\* What comes out of a channel was made, and so was the rest.
LEMMA ChannelTaken ==
  ASSUME NEW S, NEW chan \in [Proc -> [Proc -> Seq(Message)]], AllMade(S, chan),
         NEW a \in Proc, NEW p \in Proc, chan[a][p] # <<>>,
         NEW rest, rest = [chan EXCEPT ![a][p] = Tail(@)]
  PROVE  /\ Head(chan[a][p]) \in Message /\ MsgMade(S, Head(chan[a][p]))
         /\ rest \in [Proc -> [Proc -> Seq(Message)]] /\ NothingNew(rest, chan)
<1> DEFINE c == chan[a][p]
<1>1. c \in Seq(Message) /\ c # <<>> /\ \A i \in DOMAIN c : MsgMade(S, c[i])
  BY DEF AllMade
<1>2. /\ \A q, d \in Proc : q = a /\ d = p => rest[q][d] = Tail(c)
      /\ \A q, d \in Proc : ~(q = a /\ d = p) => rest[q][d] = chan[q][d]
  OBVIOUS
<1>3. c = chan[a][p]
  OBVIOUS
<1> HIDE DEF c
<1>4. /\ Head(c) = c[1] /\ 1 \in DOMAIN c /\ Head(c) \in Message /\ Tail(c) \in Seq(Message)
      /\ Range(Tail(c)) \subseteq Range(c)
  BY <1>1, TakenFirst
<1>5. rest \in [Proc -> [Proc -> Seq(Message)]]
  <2>1. [chan[a] EXCEPT ![p] = Tail(c)] \in [Proc -> Seq(Message)]
    BY <1>4
  <2>2. rest = [chan EXCEPT ![a] = [chan[a] EXCEPT ![p] = Tail(c)]]
    BY <1>3
  <2> QED BY <2>1, <2>2
<1>6. ASSUME NEW q \in Proc, NEW d \in Proc PROVE Range(rest[q][d]) \subseteq Range(chan[q][d])
  BY <1>2, <1>3, <1>4
<1> QED BY <1>1, <1>3, <1>4, <1>5, <1>6 DEF NothingNew

\* The first message of a channel, if it is the Commit of a slow slot, was announced.
LEMMA FirstInOrder ==
  ASSUME NEW c \in Seq(Message), c # <<>>, NEW s, NEW D, ComesInOrder(s, D, {}, c),
         Head(c).type = "Commit"
  PROVE  \/ FastSlot(D, Head(c).slot) \/ Left(s, Head(c).slot)
         \/ \E i \in DOMAIN s.queued_messages :
              IsAccept(s.queued_messages[i], Head(c).slot, Head(c).v)
<1>1. Head(c) = c[1] /\ 1 \in DOMAIN c
  BY TakenFirst
<1>2. \/ FastSlot(D, c[1].slot) \/ Heard(s, {}, c[1].slot, c[1].v)
      \/ \E j \in 1 .. 1 - 1 : IsAccept(c[j], c[1].slot, c[1].v)
  BY <1>1 DEF ComesInOrder
<1>3. ~ \E j \in 1 .. 1 - 1 : IsAccept(c[j], c[1].slot, c[1].v)
  OBVIOUS
<1> QED BY <1>1, <1>2, <1>3 DEF Heard, Range

\* From s to t, in the same round, p stored the value of m, if it carries one.
Stored(s, t, m) ==
  /\ InSameRound(s, t) /\ t.next_uid = s.next_uid
  /\ \/ t.queued_commands = s.queued_commands
     \/ CarriesValue(m) /\ t.queued_commands = s.queued_commands \cup {m.v}

QueueMade(T, t) == \A v \in t.queued_commands : Made(T, v)

LEMMA StoredMade ==
  ASSUME NEW S \in [Proc -> Shards], NEW p \in Proc, NEW s \in Shards, s = S[p], ShardMade(S, s),
         NEW t \in Shards, NEW T, T = [S EXCEPT ![p] = t], NEW m \in Message, MsgMade(S, m),
         Stored(s, t, m)
  PROVE  /\ T \in [Proc -> Shards] /\ T[p] = t /\ Later(S, T) /\ Slot(t) = Slot(s)
         /\ t.log = s.log /\ t.round_state = s.round_state
         /\ QueueMade(T, t) /\ MsgMade(T, m)
<1>1. /\ t.log = s.log /\ t.round_state = s.round_state /\ Slot(t) = Slot(s)
      /\ s.next_uid <= t.next_uid
  BY DEF Stored, InSameRound, Slot, Shards
<1>2. T \in [Proc -> Shards] /\ Later(S, T) /\ T[p] = t
  BY <1>1, LaterInSlot
<1>3. ASSUME NEW v \in t.queued_commands PROVE Made(T, v)
  <2>1. v \in Uid /\ (v \in s.queued_commands \/ v = m.v)
    BY <1>3 DEF Stored, Shards
  <2>2. Made(S, v)
    BY <2>1 DEF ShardMade, MsgMade
  <2> QED BY <1>2, <2>1, <2>2, MadeLater
<1>4. MsgMade(T, m)
  BY <1>2, MsgMadeLater
<1> QED BY <1>1, <1>2, <1>3, <1>4 DEF QueueMade

\* A message that may be processed at once leaves everyone warned.
LEMMA TakenReadyWarned ==
  ASSUME GraphSeparates, HandlersTypeOK, NEW H, Explains(H, net), Warned,
         NEW p \in Proc, NEW q \in Proc, net[q][p] # <<>>, shard[p].scan = 0,
         NEW m, m = Head(net[q][p]), m \in GoodTo(H, p),
         NEW chan, chan = [net EXCEPT ![q][p] = Tail(@)],
         NEW t, ShardTypeOK(p, t), Stored(shard[p], t, m),
         t.queued_messages = shard[p].queued_messages,
         t.scan = IF CarriesValue(m) THEN 1 ELSE 0,
         ReadyToProcess(t, m), Process(p, m, t, chan)
  PROVE  Warned'
<1> DEFINE old == shard[p]
           S == [shard EXCEPT ![p] = t]
<1>1. /\ shard \in [Proc -> Shards] /\ old \in Shards /\ old = shard[p] /\ ShardTypeOK(p, old)
      /\ net \in [Proc -> [Proc -> Seq(Message)]] /\ t \in Shards
      /\ GoodHistory(H) /\ \A d \in Proc : ShardOK(H, d, shard[d])
  BY DEF HandlersTypeOK, ShardsTypeOK, ChannelsTypeOK, ShardTypeOK, Explains
<1>2. /\ AllMade(shard, net) /\ AllCalled(shard, decided, EmptyHands, net) /\ AllHeldBack(shard)
  BY DEF Warned
<1>3. /\ m \in Message /\ m \in MessageTo(p) /\ MsgOK(H, m)
  BY MessageToIsMessage DEF GoodTo
<1>4. /\ MsgMade(shard, m) /\ chan \in [Proc -> [Proc -> Seq(Message)]] /\ NothingNew(chan, net)
  <2>1. /\ net \in [Proc -> [Proc -> Seq(Message)]] /\ AllMade(shard, net)
    BY <1>1, <1>2
  <2> QED BY ONLY <2>1, p \in Proc, q \in Proc, net[q][p] # <<>>, m = Head(net[q][p]),
             chan = [net EXCEPT ![q][p] = Tail(@)], ChannelTaken
<1>5. ShardMade(shard, old) /\ HeldBack(shard, old)
  BY <1>1, <1>2 DEF AllMade, AllHeldBack
<1>6. InSameRound(old, t) /\ t.queued_messages = old.queued_messages /\ Stored(old, t, m) /\ old.scan = 0
  BY DEF Stored
<1>7. S = [shard EXCEPT ![p] = t]
  OBVIOUS
<1> HIDE DEF old, S
<1>8. /\ S \in [Proc -> Shards] /\ S[p] = t /\ Later(shard, S) /\ Slot(t) = Slot(old)
      /\ t.log = old.log /\ t.round_state = old.round_state
      /\ QueueMade(S, t) /\ MsgMade(S, m)
  <2>1. /\ shard \in [Proc -> Shards] /\ old \in Shards /\ old = shard[p] /\ ShardMade(shard, old)
        /\ t \in Shards /\ S = [shard EXCEPT ![p] = t] /\ m \in Message /\ MsgMade(shard, m)
        /\ Stored(old, t, m)
    BY <1>1, <1>3, <1>4, <1>5, <1>6, <1>7
  <2>2. S \in [Proc -> Shards] /\ S[p] = t /\ Later(shard, S)
    BY ONLY <2>1, p \in Proc, StoredMade
  <2>3. Slot(t) = Slot(old) /\ t.log = old.log /\ t.round_state = old.round_state
    BY ONLY <2>1, p \in Proc, StoredMade
  <2>4. QueueMade(S, t) /\ MsgMade(S, m)
    BY ONLY <2>1, p \in Proc, StoredMade
  <2> QED BY <2>2, <2>3, <2>4
<1>9. AllMade(S, chan)
  <2>1. \A v \in t.queued_commands \ old.queued_commands : Made(S, v)
    BY <1>8 DEF QueueMade
  <2>2. AllMade(S, net)
    BY <1>1, <1>2, <1>6, <1>7, <1>8, <2>1, KeptMade
  <2> QED BY <1>1, <1>4, <2>2, RestMade
<1>10. p \in AliveReplicas => HeldInOrder(t, decided, {m})
  BY <1>1, <1>2, <1>6, <1>7, KeptHeld
<1>11. AllCalled(S, decided, InHand(p, {m}), chan)
  <2>1. Range(old.queued_messages) \subseteq {m} \cup Range(t.queued_messages)
    BY <1>6
  <2>2. Head(net[q][p]) \in {m} \cup Range(t.queued_messages)
    OBVIOUS
  <2>3. old = shard[p] /\ net[q][p] # <<>>
    BY <1>1
  <2> QED BY <1>1, <1>2, <1>6, <1>7, <1>10, <2>1, <2>2, <2>3, TakenFromChannel
<1>12. HeldBack(S, t)
  <2>1. CASE CarriesValue(m)
    <3>1. t.scan = 1 /\ \A i \in DOMAIN t.queued_messages : ~(i < 1)
      <4>1. t.queued_messages \in Seq(Message)
        BY <1>1 DEF Shards
      <4> QED BY <2>1, <4>1
    <3> QED BY <3>1 DEF HeldBack
  <2>2. CASE ~CarriesValue(m)
    <3> SUFFICES ASSUME NEW i \in DOMAIN t.queued_messages, NEW x, x = t.queued_messages[i],
                        x.type = "PaxosAccept"
                 PROVE  ~ReadyToProcess(t, x) \/ Overtaken(S, x)
      BY DEF HeldBack
    <3>1. x \in PaxosAcceptMsg
      BY <1>1, HeldMessage, MessageKinds
    <3>2. ~ReadyToProcess(old, x) \/ Overtaken(shard, x)
      BY <1>5, <1>6 DEF HeldBack
    <3>3. ReadyToProcess(t, x) => ReadyToProcess(old, x)
      BY <1>6, <1>8, <2>2, ReadyMeans DEF Stored
    <3> QED BY <1>1, <1>8, <3>1, <3>2, <3>3, OvertakenLater
  <2> QED BY <2>1, <2>2
<1>13. AllHeldBack(S)
  BY <1>1, <1>2, <1>7, <1>8, <1>12, TakenHeldBack
<1>14. ShardOK(H, p, t)
  <2>1. ShardOK(H, p, old)
    BY <1>1
  <2> QED BY <1>6, <1>8, <2>1, StillExplained
<1>15. ASSUME p \in AliveReplicas, m.type = "Commit", m.slot = Slot(t)
       PROVE  FastSlot(decided, m.slot) \/ Left(t, m.slot)
  <2>1. ComesInOrder(old, decided, {}, net[q][p])
    BY <1>1, <1>2, <1>15 DEF AllCalled, EmptyHands
  <2>2. net[q][p] \in Seq(Message) /\ net[q][p] # <<>>
    BY <1>1
  <2>3. \/ FastSlot(decided, m.slot) \/ Left(old, m.slot)
        \/ \E i \in DOMAIN old.queued_messages : IsAccept(old.queued_messages[i], m.slot, m.v)
    BY <1>15, <2>1, <2>2, FirstInOrder
  <2>4. Left(old, m.slot) => Left(t, m.slot)
    BY <1>6 DEF Left, Slot, InSameRound
  <2>5. ASSUME NEW i \in DOMAIN old.queued_messages, IsAccept(old.queued_messages[i], m.slot, m.v)
        PROVE  FALSE
    <3>1. ~ReadyToProcess(old, old.queued_messages[i]) \/ Overtaken(shard, old.queued_messages[i])
      BY <1>5, <1>6, <2>5 DEF HeldBack, IsAccept
    <3>2. t.queued_commands = old.queued_commands
      BY <1>6, <1>15 DEF Stored, CarriesValue
    <3>3. ReadyToProcess(old, m)
      BY <1>8, <3>2 DEF ReadyToProcess
    <3> QED BY <1>1, <1>3, <1>8, <1>15, <2>5, <3>1, <3>3, CommitIsWarned
  <2> QED BY <2>3, <2>4, <2>5
<1>16. ActsWell(S, p, t, {m}, chan)
  <2>1. t = S[p] /\ ShardMade(S, t)
    BY <1>8, <1>9 DEF AllMade
  <2>2. p \in AliveReplicas /\ m.type = "Commit" /\ m.slot = Slot(t) =>
          FastSlot(decided, m.slot) \/ Left(t, m.slot)
    BY <1>15
  <2> QED BY <1>1, <1>8, <1>14, <2>1, <2>2, ProcessActs
<1>17. MayHold(p, t, {m})
  <2> SUFFICES ASSUME m.type = "PaxosAccept" PROVE m.slot <= Slot(t)
    BY <1>3 DEF MayHold
  <2>1. Slot(t) \in Nat /\ m.slot \in Nat
    BY <1>1, <1>3, SlotType, MessageKinds DEF PaxosAcceptMsg
  <2>2. m.slot < Slot(t) \/ m.slot = Slot(t)
    BY ReadyMeans
  <2> QED BY <2>1, <2>2
<1> QED BY <1>1, <1>4, <1>7, <1>9, <1>11, <1>13, <1>16, <1>17, ActsWarned

\* So does one that must wait: a Commit waits behind its PaxosAccept, and the value it
\* brought readies nothing.
LEMMA TakenWaitsWarned ==
  ASSUME HandlersTypeOK, Warned,
         NEW p \in Proc, NEW q \in Proc, net[q][p] # <<>>, shard[p].scan = 0,
         NEW m, m = Head(net[q][p]),
         NEW chan, chan = [net EXCEPT ![q][p] = Tail(@)],
         NEW s \in Shards, NEW t \in Shards, Stored(shard[p], s, m), Stored(shard[p], t, m),
         t.queued_commands = s.queued_commands, ~ReadyToProcess(s, m),
         t.queued_messages = Append(shard[p].queued_messages, m), t.scan = 0,
         Become(p, t, chan, Nothing), UNCHANGED history
  PROVE  Warned'
<1> DEFINE old == shard[p]
           h == old.queued_messages
           g == t.queued_messages
           S == [shard EXCEPT ![p] = t]
<1>1. /\ shard \in [Proc -> Shards] /\ old \in Shards /\ old = shard[p]
      /\ net \in [Proc -> [Proc -> Seq(Message)]] /\ t \in Shards
  BY DEF HandlersTypeOK, ShardsTypeOK, ChannelsTypeOK
<1>2. /\ AllMade(shard, net) /\ AllCalled(shard, decided, EmptyHands, net) /\ AllHeldBack(shard)
  BY DEF Warned
<1>3. MsgMade(shard, m) /\ m \in Message /\ chan \in [Proc -> [Proc -> Seq(Message)]]
      /\ NothingNew(chan, net)
  BY <1>1, <1>2, ChannelTaken
<1>4. ShardMade(shard, old) /\ HeldBack(shard, old)
  BY <1>1, <1>2 DEF AllMade, AllHeldBack
<1>5. InSameRound(old, t) /\ Stored(old, t, m) /\ old.scan = 0 /\ InSameRound(old, s)
  BY DEF Stored
<1>6. /\ h \in Seq(Message) /\ g = Append(h, m) /\ Len(h) \in Nat /\ DOMAIN h = 1 .. Len(h)
  BY <1>1 DEF Shards
<1>7. S = [shard EXCEPT ![p] = t]
  OBVIOUS
<1> HIDE DEF old, S, h, g
<1>8. /\ DOMAIN g = 1 .. Len(h) + 1 /\ g[Len(h) + 1] = m
      /\ \A i \in 1 .. Len(h) : g[i] = h[i]
  BY <1>3, <1>6
<1>9. /\ S \in [Proc -> Shards] /\ S[p] = t /\ Later(shard, S)
      /\ Slot(t) = Slot(old) /\ t.log = old.log /\ t.round_state = old.round_state
      /\ QueueMade(S, t) /\ MsgMade(S, m)
  <2>1. /\ shard \in [Proc -> Shards] /\ old \in Shards /\ old = shard[p] /\ ShardMade(shard, old)
        /\ t \in Shards /\ S = [shard EXCEPT ![p] = t] /\ m \in Message /\ MsgMade(shard, m)
        /\ Stored(old, t, m)
    BY <1>1, <1>3, <1>4, <1>5, <1>7
  <2>2. S \in [Proc -> Shards] /\ S[p] = t /\ Later(shard, S)
    BY ONLY <2>1, p \in Proc, StoredMade
  <2>3. Slot(t) = Slot(old) /\ t.log = old.log /\ t.round_state = old.round_state
    BY ONLY <2>1, p \in Proc, StoredMade
  <2>4. QueueMade(S, t) /\ MsgMade(S, m)
    BY ONLY <2>1, p \in Proc, StoredMade
  <2> QED BY <2>2, <2>3, <2>4
<1>10. AllMade(S, chan)
  <2>1. \A i \in DOMAIN t.queued_messages : MsgMade(shard, t.queued_messages[i])
    <3>1. \A i \in DOMAIN h : MsgMade(shard, h[i])
      BY <1>4 DEF ShardMade, h
    <3>2. \A i \in DOMAIN g : MsgMade(shard, g[i])
      BY <1>3, <1>6, <1>8, <3>1
    <3> QED BY <3>2 DEF g
  <2>2. \A v \in t.queued_commands : Made(S, v)
    BY <1>9 DEF QueueMade
  <2>3. \A a, d \in Proc : Range(net[a][d]) \subseteq Range(net[a][d])
    OBVIOUS
  <2>4. AllMade(S, net)
    BY <1>1, <1>2, <1>7, <1>9, <2>1, <2>2, <2>3, TakenMade
  <2> QED BY <1>1, <1>3, <2>4, RestMade
<1>11. Range(h) \subseteq Range(g) /\ m \in Range(g)
  <2>1. Len(h) + 1 \in DOMAIN g /\ \A i \in DOMAIN h : i \in DOMAIN g /\ g[i] = h[i]
    BY <1>6, <1>8
  <2> QED BY <1>8, <2>1 DEF Range
<1>12. p \in AliveReplicas => HeldInOrder(t, decided, {})
  <2> SUFFICES ASSUME p \in AliveReplicas, NEW i \in DOMAIN g, g[i].type = "Commit"
               PROVE  \/ FastSlot(decided, g[i].slot) \/ Left(t, g[i].slot)
                      \/ \E j \in 1 .. i - 1 : IsAccept(g[j], g[i].slot, g[i].v)
    BY DEF HeldInOrder, g
  <2>1. HeldInOrder(old, decided, {}) /\ ComesInOrder(old, decided, {}, net[q][p])
    BY <1>1, <1>2 DEF AllCalled, EmptyHands
  <2>2. \A n : Left(old, n) => Left(t, n)
    BY <1>5 DEF Left, Slot, InSameRound
  <2>3. CASE i \in DOMAIN h
    <3>1. g[i] = h[i]
      BY <1>6, <1>8, <2>3
    <3>2. \/ FastSlot(decided, h[i].slot) \/ Left(old, h[i].slot)
          \/ \E j \in 1 .. i - 1 : IsAccept(h[j], h[i].slot, h[i].v)
      BY <2>1, <2>3, <3>1 DEF HeldInOrder, h
    <3>3. \A j \in 1 .. i - 1 : g[j] = h[j]
      BY <1>6, <1>8, <2>3
    <3> QED BY <2>2, <3>1, <3>2, <3>3
  <2>4. CASE i = Len(h) + 1
    <3>1. g[i] = m
      BY <1>8, <2>4
    <3>2. net[q][p] \in Seq(Message) /\ net[q][p] # <<>>
      BY <1>1
    <3>3. \/ FastSlot(decided, m.slot) \/ Left(old, m.slot)
          \/ \E j \in DOMAIN old.queued_messages : IsAccept(old.queued_messages[j], m.slot, m.v)
      BY <2>1, <3>1, <3>2, FirstInOrder
    <3>4. ASSUME NEW j \in DOMAIN h, IsAccept(h[j], m.slot, m.v)
          PROVE  \E k \in 1 .. i - 1 : IsAccept(g[k], m.slot, m.v)
      <4>1. j \in 1 .. i - 1 /\ g[j] = h[j]
        BY <1>6, <1>8, <2>4
      <4> QED BY <3>4, <4>1
    <3> QED BY <2>2, <3>1, <3>3, <3>4 DEF h
  <2> QED BY <1>6, <1>8, <2>3, <2>4
<1>13. AllCalled(S, decided, InHand(p, {}), chan)
  <2>1. Range(old.queued_messages) \subseteq {} \cup Range(t.queued_messages)
    BY <1>11 DEF g, h
  <2>2. Head(net[q][p]) \in {} \cup Range(t.queued_messages)
    BY <1>11 DEF g
  <2>3. old = shard[p] /\ net[q][p] # <<>>
    BY <1>1
  <2> QED BY <1>1, <1>2, <1>5, <1>7, <1>12, <2>1, <2>2, <2>3, TakenFromChannel
<1>14. HeldBack(S, t)
  <2> SUFFICES ASSUME NEW i \in DOMAIN g, NEW x, x = g[i], x.type = "PaxosAccept",
                      ReadyToProcess(t, x)
               PROVE  Overtaken(S, x)
    BY DEF HeldBack, g
  <2>1. x \in Message /\ x \in PaxosAcceptMsg
    <3>1. x \in Message
      BY <1>1, HeldMessage DEF g
    <3> QED BY <3>1, MessageKinds
  <2>2. Slot(s) = Slot(t) /\ s.queued_commands = t.queued_commands
    BY <1>5 DEF InSameRound, Slot
  <2>3. x # m
    BY <2>2, ReadyMeans
  <2>4. i \in DOMAIN h /\ x = h[i]
    BY <1>6, <1>8, <2>3
  <2>5. ~ReadyToProcess(old, x) \/ Overtaken(shard, x)
    BY <1>4, <1>5, <2>4 DEF HeldBack, h
  <2>6. CASE ~ReadyToProcess(old, x)
    <3>1. CarriesValue(m) /\ t.queued_commands = old.queued_commands \cup {m.v}
      BY <1>5, <1>9, <2>6, ReadyMeans DEF Stored
    <3>2. ~ReadyToProcess(t, m)
      BY <2>2 DEF ReadyToProcess
    <3>3. Overtaken(shard, x)
      BY <1>1, <1>3, <1>9, <2>1, <2>6, <3>1, <3>2, StoredReadiesNothing
    <3> QED BY <1>1, <1>9, <2>1, <3>3, OvertakenLater
  <2> QED BY <1>1, <1>9, <2>1, <2>5, <2>6, OvertakenLater
<1>15. AllHeldBack(S)
  BY <1>1, <1>2, <1>7, <1>9, <1>14, TakenHeldBack
<1>16. ActsWell(S, p, t, {}, chan)
  <2>1. t = S[p] /\ ShardMade(S, t)
    BY <1>9, <1>10 DEF AllMade
  <2> QED BY <1>1, <1>9, <2>1, NothingIsSent, NothingMade, OnlySends
<1>17. MayHold(p, t, {})
  BY DEF MayHold
<1> QED BY <1>1, <1>3, <1>7, <1>10, <1>13, <1>15, <1>16, <1>17, ActsWarned

\* Taking a message from a connection leaves everyone warned.
LEMMA ReceiveWarned ==
  ASSUME GraphSeparates, HandlersTypeOK, NEW H, Explains(H, net), Warned,
         NEW p \in Proc, NEW q \in Proc, Receive(p, q)
  PROVE  Warned'
<1> DEFINE m      == Head(net[q][p])
           chan   == [net EXCEPT ![q][p] = Tail(@)]
           old    == shard[p]
           stored == StoreRemoteCommand(old, m)
           ok     == StoreAsserts(old, m) /\ ReadyAsserts(stored, m)
           s      == Panic(stored, ok)
           more   == IF CarriesValue(m) THEN 1 ELSE 0
           held   == Append(s.queued_messages, m)
           taken  == [s EXCEPT !.scan = more]
           kept   == [s EXCEPT !.queued_messages = held]
<1>1. /\ net[q][p] \in Seq(MessageTo(p)) /\ net[q][p] # <<>> /\ net[q][p] \in Seq(GoodTo(H, p))
      /\ old.scan = 0
  BY DEF Receive, HandlersTypeOK, ChannelsTypeOK, Outgoing, Explains, ChannelsOK, SentOK
<1>2. m \in MessageTo(p) /\ m \in GoodTo(H, p)
  <2> HIDE DEF GoodTo
  <2> QED BY <1>1
<1>3. ShardTypeOK(p, old) /\ old \in Shards /\ old = shard[p]
  BY DEF HandlersTypeOK, ShardsTypeOK, ShardTypeOK
<1>4. m = Head(net[q][p]) /\ chan = [net EXCEPT ![q][p] = Tail(@)]
  OBVIOUS
<1>5. \/ ReadyToProcess(s, m) /\ Process(p, m, taken, chan)
      \/ /\ ~ReadyToProcess(s, m)
         /\ Become(p, kept, chan, Nothing) /\ UNCHANGED history
  BY DEF Receive
<1> HIDE DEF m, chan
<1>6. ShardTypeOK(p, stored)
  BY <1>2, <1>3, MessageToIsMessage, StoreRemoteCommandType
<1>7. /\ Stored(old, stored, m) /\ stored.queued_messages = old.queued_messages
      /\ stored.scan = old.scan
  BY <1>3 DEF StoreRemoteCommand, Shards, Stored, Stores, InSameRound
<1> HIDE DEF stored, old
<1>8. ok \in BOOLEAN
  OBVIOUS
<1> HIDE DEF ok
<1>9. ShardTypeOK(p, s) /\ s \in Shards
  BY <1>6, <1>8, PanicType DEF ShardTypeOK
<1>10. /\ Stored(old, s, m) /\ s.queued_messages = old.queued_messages /\ s.scan = old.scan
  <2>1. stored \in Shards
    BY <1>6 DEF ShardTypeOK
  <2> QED BY <1>7, <2>1 DEF Panic, Shards, Stored, InSameRound
<1> HIDE DEF s
<1>11. more \in Nat
  OBVIOUS
<1>12. held \in Seq(MessageTo(p))
  <2>1. s.queued_messages \in Seq(MessageTo(p))
    BY <1>9 DEF ShardTypeOK
  <2> QED BY <1>2, <2>1
<1> HIDE DEF more, held
<1>13. ShardTypeOK(p, taken) /\ ShardTypeOK(p, kept) /\ kept \in Shards
  BY <1>9, <1>11, <1>12, ShardUpdate DEF ShardTypeOK
<1>14. /\ Stored(old, taken, m) /\ taken.queued_messages = old.queued_messages /\ taken.scan = more
       /\ taken.queued_commands = s.queued_commands /\ taken.log = s.log
  BY <1>9, <1>10 DEF Shards, Stored, InSameRound
<1>15. /\ Stored(old, kept, m) /\ kept.queued_messages = held /\ kept.scan = 0
       /\ kept.queued_commands = s.queued_commands
  BY <1>1, <1>9, <1>10 DEF Shards, Stored, InSameRound
<1> HIDE DEF taken, kept
<1>16. CASE ReadyToProcess(s, m) /\ Process(p, m, taken, chan)
  <2>1. ReadyToProcess(taken, m)
    BY <1>14, <1>16 DEF ReadyToProcess, Slot
  <2>2. taken.scan = IF CarriesValue(m) THEN 1 ELSE 0
    BY <1>14 DEF more
  <2>3. /\ Stored(shard[p], taken, m) /\ taken.queued_messages = shard[p].queued_messages
        /\ shard[p].scan = 0 /\ net[q][p] # <<>>
    BY <1>1, <1>3, <1>14
  <2> QED BY <1>2, <1>4, <1>13, <1>16, <2>1, <2>2, <2>3, TakenReadyWarned
<1>17. CASE /\ ~ReadyToProcess(s, m)
            /\ Become(p, kept, chan, Nothing) /\ UNCHANGED history
  <2>1. /\ Stored(shard[p], s, m) /\ Stored(shard[p], kept, m) /\ shard[p].scan = 0
        /\ kept.queued_messages = Append(shard[p].queued_messages, m) /\ net[q][p] # <<>>
    BY <1>1, <1>3, <1>10, <1>15 DEF held
  <2> QED BY <1>4, <1>9, <1>13, <1>15, <1>17, <2>1, TakenWaitsWarned
<1> QED BY <1>5, <1>16, <1>17

-----------------------------------------------------------------------------
(* The invariant *)

\* At first there is nothing to be warned of.
LEMMA InitWarned == Init => Warned
<1> SUFFICES ASSUME Init PROVE Warned
  OBVIOUS
<1>1. /\ \A p \in Proc : /\ shard[p].queued_commands = {} /\ shard[p].queued_messages = <<>>
                         /\ shard[p].log = <<>> /\ shard[p].round_state = ClearRound
      /\ \A p, q \in Proc : net[q][p] = <<>>
  BY DEF Init, NewShard, Nothing
<1>2. \A p \in Proc : ShardMade(shard, shard[p])
  <2>1. \A T : RoundMade(T, ClearRound)
    BY ClearRoundMade
  <2> QED BY <1>1, <2>1 DEF ShardMade, RoundMade
<1>3. AllMade(shard, net)
  BY <1>1, <1>2 DEF AllMade
<1>4. \A l \in Proc : Mine(shard[l].round_state, l).accept_round # l
  <2>1. \A l \in Proc : Mine(ClearRound, l).accept_round = None
    BY DEF Mine, ClearRound, EmptyNode
  <2> QED BY <1>1, <2>1, NoneIsNobody
<1>5. AllCalled(shard, decided, EmptyHands, net)
  <2>1. AliveReplicas \subseteq Proc
    BY ReplicasFinite
  <2> QED BY <1>1, <1>4, <2>1
       DEF AllCalled, HeldInOrder, ReportsSlow, ComesInOrder, CallsAll
<1>6. AllHeldBack(shard)
  BY <1>1 DEF AllHeldBack, HeldBack
<1> QED BY <1>3, <1>5, <1>6 DEF Warned

\* Every step leaves everyone warned, if the plan tells any two commands apart.
LEMMA NextWarned ==
  ASSUME GraphSeparates
  PROVE  Explained /\ Warned /\ [Next]_vars => Warned'
<1> SUFFICES ASSUME Explained, Warned, [Next]_vars PROVE Warned'
  OBVIOUS
<1>1. HandlersTypeOK
  BY DEF Explained, Typed
<1>2. PICK H : Explains(H, net)
  BY DEF Explained
<1>3. CASE \E p \in Proc : Step(p)
  <2>1. PICK p \in Proc : Step(p)
    BY <1>3
  <2>2. CASE ClientCommand(p)
    BY <1>1, <2>2, ClientCommandWarned
  <2>3. CASE \E q \in Proc : Receive(p, q)
    BY <1>1, <1>2, <2>3, ReceiveWarned
  <2>4. CASE ProcessHeld(p)
    BY <1>1, <1>2, <2>4, ProcessHeldWarned
  <2>5. CASE Repropose(p)
    BY <1>1, <2>5, ReproposeWarned
  <2> QED BY <2>1, <2>2, <2>3, <2>4, <2>5 DEF Step
<1>4. CASE UNCHANGED vars
  BY <1>4 DEF Warned, vars
<1> QED BY <1>3, <1>4 DEF Next, Terminated

\* No replica reports a slot decided in the fallback as fast: it has seen the leader's
\* PaxosAccept by then, which left the same connection before the Commit and went to
\* every replica; on the same assumption.
THEOREM ReplicasReportSlow ==
  ASSUME GraphSeparates
  PROVE  Spec => []ReplicasReportFast
<1>1. ASSUME Explained, Warned PROVE ReplicasReportFast
  <2> SUFFICES ASSUME NEW p \in AliveReplicas, NEW i \in DOMAIN Log(p), Log(p)[i].fast
               PROVE  FastSlot(decided, i - 1)
    BY DEF ReplicasReportFast, ReportedFast, DecidedFast, FastSlot
  <2>1. ReportsSlow(shard[p], decided)
    BY <1>1 DEF Warned, AllCalled
  <2> QED BY <2>1 DEF ReportsSlow, Log
<1>2. Init => Warned
  BY InitWarned
<1>3. Explained /\ Warned /\ [Next]_vars => Warned'
  BY NextWarned
<1> QED BY <1>1, <1>2, <1>3, AlwaysExplained, PTL DEF Spec
=============================================================================
