------------------------------ MODULE PaxosProofs ------------------------------
(***************************************************************************)
(* The handlers of PaxosFamily, taken apart into the small steps of           *)
(* PaxosStepProofs, and what follows: for every mode, the shards agree on     *)
(* every slot, later rounds keep what was decided, rounds and votes never go  *)
(* back, an idle shard's round is clear, and the shards vote as the reads of  *)
(* the slot layer need.                                                       *)
(***************************************************************************)
EXTENDS PaxosStepProofs

-----------------------------------------------------------------------------
(* The invariant *)

Slots    == [p \in Proc |-> Slot(shard[p])]
RoundsOf == [p \in Proc |-> shard[p].round_state]

\* Of messages of A only.
Traffic(chan, A) == chan \in [Proc -> [Proc -> Seq(A)]]
Output(out, A)   == out \in [Proc -> Seq(A)]

\* What s holds back was sent, what it logged was decided, and its round is clear
\* while it has no value.
ShardOK(s, A, dec) ==
  /\ s.queued_messages \in Seq(A)
  /\ s.round_state.max_rv = NoRV => s.round_state = ClearRound
  /\ \A i \in DOMAIN s.log : \E d \in dec : d.slot = i - 1 /\ d.v = s.log[i].v

\* A is what was ever sent.
Holds(A) ==
  /\ Traffic(net, A)
  /\ \A p \in Proc : ShardOK(shard[p], A, decided)
  /\ Good(Slots, RoundsOf, A, accepts, decided)

\* What was sent is in some set of messages for which all of this holds.
Inv == \E A \in SUBSET Known : Holds(A)

-----------------------------------------------------------------------------
(* In the middle of a handler *)

\* Within its slot p never goes back.
Onward(p, n, r) ==
  LET k == Slots[p]
      o == RoundsOf[p]
  IN  /\ k \in Nat /\ o \in Rounds /\ n >= k
      /\ n = k =>
           /\ r.round >= o.round /\ r.max_rv.accept_round >= o.max_rv.accept_round
           /\ o.max_rv # NoRV => r.max_rv # NoRV

\* A step takes p to the next slot, or leaves it in its own.
Moved(p, n, r) ==
  LET k == Slots[p]
      o == RoundsOf[p]
  IN  \/ n = k + 1 /\ r = ClearRound
      \/ /\ n = k /\ r.round >= o.round /\ r.max_rv.accept_round >= o.max_rv.accept_round
         /\ o.max_rv # NoRV => r.max_rv # NoRV

\* What a step of p changes: nothing that leaders asked for is forgotten, and
\* nobody but p moves.
Advance(p) ==
  /\ accepts \subseteq accepts'
  /\ Slots' = [Slots EXCEPT ![p] = Slots'[p]] /\ RoundsOf' = [RoundsOf EXCEPT ![p] = RoundsOf'[p]]
  /\ Moved(p, Slots'[p], RoundsOf'[p])

\* What every step of p is to do.
Keeps(p) == Inv' /\ Advance(p)

\* p has gone on to slot n and round state r, the other processes are where they
\* were.
There(p, n, r, A, acc, dec) ==
  Good([Slots EXCEPT ![p] = n], [RoundsOf EXCEPT ![p] = r], A, acc, dec)
Here(p, n, r, A, acc, dec) == There(p, n, r, A, acc, dec) /\ Onward(p, n, r)

\* The rounds of a round state are integers.
LEMMA RoundFields ==
  \A r \in Rounds : r.round \in Int /\ r.max_rv.accept_round \in Int
<1> SUFFICES ASSUME NEW r \in Rounds
             PROVE  r.round \in Int /\ r.max_rv.accept_round \in Int
  OBVIOUS
<1>1. r.round \in OptProc /\ r.max_rv \in Rvs \cup {NoRV}
  BY DEF Rounds, PaxosRoundStates
<1>2. r.max_rv.accept_round \in OptProc
  BY <1>1, RvsAreValues DEF NoRV, OptProc
<1> QED BY <1>1, <1>2, ProcIsNat

\* A step onward.
LEMMA OnwardStep ==
  ASSUME NEW p \in Proc, NEW n \in Nat, NEW r \in Rounds, NEW t \in Rounds, Onward(p, n, r),
         t.round >= r.round, t.max_rv.accept_round >= r.max_rv.accept_round,
         r.max_rv # NoRV => t.max_rv # NoRV
  PROVE  Onward(p, n, t)
<1> DEFINE o == RoundsOf[p]
<1>1. /\ o \in Rounds /\ r.round \in Int /\ t.round \in Int /\ o.round \in Int
      /\ r.max_rv.accept_round \in Int /\ t.max_rv.accept_round \in Int
      /\ o.max_rv.accept_round \in Int
  BY RoundFields DEF Onward
<1> QED BY <1>1 DEF Onward

\* What Here is about, for the small steps.
LEMMA HereIs ==
  ASSUME NEW p \in Proc, NEW n, NEW r, NEW A, NEW acc, NEW dec, Here(p, n, r, A, acc, dec)
  PROVE  \E S, R :
           /\ Good(S, R, A, acc, dec)
           /\ S[p] = n /\ R[p] = r /\ Ar(R, p) = r.max_rv.accept_round
           /\ \A o : [R EXCEPT ![p] = o] = [RoundsOf EXCEPT ![p] = o]
           /\ \A k : [S EXCEPT ![p] = k] = [Slots EXCEPT ![p] = k]
           /\ S = [Slots EXCEPT ![p] = n] /\ R = [RoundsOf EXCEPT ![p] = r]
<1> DEFINE S == [Slots EXCEPT ![p] = n]
           R == [RoundsOf EXCEPT ![p] = r]
<1>1. Good(S, R, A, acc, dec)
  BY DEF Here, There
<1>2. S[p] = n /\ R[p] = r
  BY DEF Slots, RoundsOf
<1>3. \A o : [R EXCEPT ![p] = o] = [RoundsOf EXCEPT ![p] = o]
  BY DEF RoundsOf
<1>4. \A k : [S EXCEPT ![p] = k] = [Slots EXCEPT ![p] = k]
  BY DEF Slots
<1>5. Ar(R, p) = r.max_rv.accept_round
  BY <1>2 DEF Ar
<1> HIDE DEF S, R
<1>6. S = S /\ R = R
  OBVIOUS
<1> QED BY <1>1, <1>2, <1>3, <1>4, <1>5, <1>6 DEF S, R

\* What holds of the round p is in.
LEMMA HereHas ==
  ASSUME NEW p \in Proc, NEW n, NEW r, NEW A, NEW acc, NEW dec, Here(p, n, r, A, acc, dec)
  PROVE  /\ n \in Nat /\ r \in Rounds /\ A \subseteq Known /\ HistoryOK(acc, dec)
         /\ MessagesOK(A, acc, dec) /\ OneValue(acc)
         /\ r.round \in OptProc /\ r.round \in Int /\ StartingRound <= r.round
         /\ r.max_rv.accept_round \in OptProc /\ r.max_rv.accept_round \in Int
         /\ r.max_rv.accept_round <= r.round
         /\ r.max_rv.accept_round # None => Asked(acc, n, r.max_rv.accept_round, r.max_rv.v)
         /\ \A x \in acc :
              x.slot = n /\ x.round = r.round /\ Coordinator(x.round) = p =>
                r.max_rv.accept_round = x.round /\ (IsMultiPaxos \/ IsPrepared(r))
<1>1. PICK S, R : /\ Good(S, R, A, acc, dec)
                  /\ S[p] = n /\ R[p] = r /\ Ar(R, p) = r.max_rv.accept_round
  BY HereIs
<1>2. /\ TypesOK(S, R, A) /\ HistoryOK(acc, dec) /\ RoundsOK(S, R, acc)
      /\ MessagesOK(A, acc, dec) /\ OneValue(acc) /\ Led(S, R, acc)
  BY <1>1 DEF Good, Base
<1>3. /\ n \in Nat /\ r \in Rounds /\ A \subseteq Known
      /\ r.round \in OptProc /\ r.round \in Int
      /\ r.max_rv.accept_round \in OptProc /\ r.max_rv.accept_round \in Int
  BY <1>1, <1>2, RoundIntegers DEF TypesOK
<1>4. /\ r.max_rv.accept_round <= r.round /\ StartingRound <= r.round
      /\ r.max_rv.accept_round # None => Asked(acc, n, r.max_rv.accept_round, r.max_rv.v)
  BY <1>1, <1>2 DEF RoundsOK
<1>5. ASSUME NEW x \in acc, x.slot = n, x.round = r.round, Coordinator(x.round) = p
      PROVE  r.max_rv.accept_round = x.round /\ (IsMultiPaxos \/ IsPrepared(r))
  <2>1. LedBy(S, R, p, n, x.round)
    BY <1>2, <1>5 DEF Led
  <2>2. ~(n > n) /\ ~(r.round > r.round)
    BY <1>3
  <2> QED BY <1>1, <1>5, <2>1, <2>2 DEF LedBy
<1> QED BY <1>2, <1>3, <1>4, <1>5

\* A Prepare in the slot and round p is in; so for an Accept and a Commit.
LEMMA MessagesSay ==
  ASSUME NEW p \in Proc, NEW n, NEW r, NEW A, NEW acc, NEW dec, Here(p, n, r, A, acc, dec),
         NEW m \in A
  PROVE  /\ m \in Known
         /\ m.type = "Prepare" =>
              /\ ~IsMultiPaxos /\ m.rv.accept_round < m.round
              /\ m.rv.proposer <= m.round
         /\ m.type = "Accept" => Asked(acc, m.slot, m.round, m.v)
         /\ m.type = "Commit" => \E d \in dec : d.slot = m.slot /\ d.v = m.v
<1>1. A \subseteq Known /\ MessagesOK(A, acc, dec)
  BY HereHas
<1>2. m.type = "Prepare" => m.rv.proposer <= m.round
  BY DEF Here, There, Good, Fast, Bounded
<1> QED BY <1>1, <1>2 DEF MessagesOK, PreparesOK, AcceptsOK, CommitsOK

\* p goes to a higher round.
LEMMA HereGoto ==
  ASSUME NEW p \in Proc, NEW n, NEW r, NEW A, NEW acc, NEW dec, Here(p, n, r, A, acc, dec),
         NEW b \in Proc, b > r.round
  PROVE  Here(p, n, GotoRound(r, b), A, acc, dec)
<1>1. PICK S, R : /\ Good(S, R, A, acc, dec) /\ R[p] = r
                  /\ \A o : [R EXCEPT ![p] = o] = [RoundsOf EXCEPT ![p] = o]
                  /\ S = [Slots EXCEPT ![p] = n]
  BY HereIs
<1>2. Good(S, [R EXCEPT ![p] = GotoRound(R[p], b)], A, acc, dec)
  BY <1>1, GotoGood
<1>3. There(p, n, GotoRound(r, b), A, acc, dec)
  BY <1>1, <1>2 DEF There
<1>4. Onward(p, n, GotoRound(r, b))
  <2> DEFINE t == GotoRound(r, b)
  <2>1. n \in Nat /\ r \in Rounds /\ Onward(p, n, r) /\ p \in Proc
    BY HereHas, ReplicasAreProcs DEF Here
  <2>2. t \in Rounds /\ t.round = b /\ t.max_rv = r.max_rv /\ b \in Int
    BY <2>1, GotoRoundType, ProcIsNat DEF OptProc
  <2> HIDE DEF t
  <2>3. r.round \in Int /\ r.max_rv.accept_round \in Int
    BY <2>1, RoundFields
  <2>4. /\ t.round >= r.round /\ t.max_rv.accept_round >= r.max_rv.accept_round
        /\ r.max_rv # NoRV => t.max_rv # NoRV
    BY <2>2, <2>3
  <2>5. Onward(p, n, t)
    BY <2>1, <2>2, <2>4, OnwardStep
  <2> QED BY <2>5 DEF t
<1> QED BY <1>3, <1>4 DEF Here

\* p finds its value for the slot: its own, or the one a Prepare brings.
LEMMA HerePrompt ==
  ASSUME NEW p \in AliveReplicas, NEW n, NEW r, NEW A, NEW acc, NEW dec,
         Here(p, n, r, A, acc, dec), r.max_rv = NoRV, NEW rv \in Rvs,
         \/ r.round = p /\ \E v \in Uid : rv = OwnV(p, v)
         \/ \E m \in A : m.type = "Prepare" /\ m.slot = n /\ m.round = r.round /\ m.rv = rv
  PROVE  Here(p, n, PaxosProposeV(r, p, rv), A, acc, dec)
<1>1. PICK S, R : /\ Good(S, R, A, acc, dec) /\ R[p] = r /\ S[p] = n
                  /\ \A o : [R EXCEPT ![p] = o] = [RoundsOf EXCEPT ![p] = o]
                  /\ S = [Slots EXCEPT ![p] = n]
  BY HereIs, ReplicasAreProcs
<1>2. Good(S, [R EXCEPT ![p] = PaxosProposeV(R[p], p, rv)], A, acc, dec)
  BY <1>1, PromptGood
<1>3. There(p, n, PaxosProposeV(r, p, rv), A, acc, dec)
  BY <1>1, <1>2 DEF There
<1>4. Onward(p, n, PaxosProposeV(r, p, rv))
  <2> DEFINE t == PaxosProposeV(r, p, rv)
  <2>1. n \in Nat /\ r \in Rounds /\ Onward(p, n, r) /\ p \in Proc
    BY HereHas, ReplicasAreProcs DEF Here
  <2>2. t \in Rounds /\ t.round = r.round /\ t.max_rv # NoRV /\ t.max_rv = rv
    BY <2>1, ReceivePromiseType DEF PaxosProposeV
  <2>3. rv.accept_round >= r.max_rv.accept_round
    BY RvsAreValues, ProcIsNat DEF NoRV
  <2> HIDE DEF t
  <2>4. r.round \in Int /\ r.max_rv.accept_round \in Int
    BY <2>1, RoundFields
  <2>5. /\ t.round >= r.round /\ t.max_rv.accept_round >= r.max_rv.accept_round
        /\ r.max_rv # NoRV => t.max_rv # NoRV
    BY <2>2, <2>3, <2>4
  <2>6. Onward(p, n, t)
    BY <2>1, <2>2, <2>3, <2>5, OnwardStep
  <2> QED BY <2>6 DEF t
<1> QED BY <1>3, <1>4 DEF Here

\* p counts a promise, and goes for the value of the latest vote.
LEMMA HerePromise ==
  ASSUME NEW p \in AliveReplicas, NEW n, NEW r, NEW A, NEW acc, NEW dec,
         Here(p, n, r, A, acc, dec), r.max_rv # NoRV,
         NEW m \in A, m.type = "Prepare", m.slot = n, m.round = r.round
  PROVE  Here(p, n, ReceivePromise(r, p, m.src, m.rv), A, acc, dec)
<1>1. PICK S, R : /\ Good(S, R, A, acc, dec) /\ R[p] = r /\ S[p] = n
                  /\ \A o : [R EXCEPT ![p] = o] = [RoundsOf EXCEPT ![p] = o]
                  /\ S = [Slots EXCEPT ![p] = n]
  BY HereIs, ReplicasAreProcs
<1>2. Good(S, [R EXCEPT ![p] = ReceivePromise(R[p], p, m.src, m.rv)], A, acc, dec)
  BY <1>1, PromiseGood
<1>3. There(p, n, ReceivePromise(r, p, m.src, m.rv), A, acc, dec)
  BY <1>1, <1>2 DEF There
<1>4. Onward(p, n, ReceivePromise(r, p, m.src, m.rv))
  <2> DEFINE t == ReceivePromise(r, p, m.src, m.rv)
  <2>1. n \in Nat /\ r \in Rounds /\ Onward(p, n, r) /\ p \in Proc
    BY HereHas, ReplicasAreProcs DEF Here
  <2>2. m.src \in Proc /\ m.rv \in Rvs /\ m.rv.accept_round \in Int
    BY <2>1, MessagesSay, MessageKinds, RvsAreValues, ProcIsNat DEF PrepareMsg
  <2>3. /\ t \in Rounds /\ t.round = r.round /\ t.max_rv # NoRV
        /\ t.max_rv.accept_round >= r.max_rv.accept_round
    <3> DEFINE a == m.src
               w == m.rv
    <3>1. a \in Proc /\ w \in Rvs /\ w.accept_round \in Int
      BY <2>2
    <3> HIDE DEF a, w
    <3>2. LET u == ReceivePromise(r, p, a, w)
          IN  /\ u \in Rounds /\ u.round = r.round /\ u.max_rv # NoRV
              /\ u.max_rv = IF r.max_rv = NoRV \/ r.max_rv.accept_round < w.accept_round
                            THEN w ELSE r.max_rv
      BY <2>1, <3>1, ReceivePromiseType
    <3>3. ReceivePromise(r, p, a, w).max_rv.accept_round >= r.max_rv.accept_round
      BY <2>1, <3>1, <3>2, RoundFields
    <3> QED BY <3>2, <3>3 DEF a, w
  <2> HIDE DEF t
  <2>4. r.round \in Int /\ r.max_rv.accept_round \in Int
    BY <2>1, RoundFields
  <2>5. /\ t.round >= r.round /\ t.max_rv.accept_round >= r.max_rv.accept_round
        /\ r.max_rv # NoRV => t.max_rv # NoRV
    BY <2>3, <2>4
  <2>6. Onward(p, n, t)
    BY <2>1, <2>3, <2>5, OnwardStep
  <2> QED BY <2>6 DEF t
<1> QED BY <1>3, <1>4 DEF Here

\* p votes for what the leader of its round asks for, or counts such a vote.
LEMMA HereVote ==
  ASSUME NEW p \in AliveReplicas, NEW n, NEW r, NEW A, NEW acc, NEW dec,
         Here(p, n, r, A, acc, dec),
         NEW m \in A, m.type = "Accept", m.slot = n, m.round = r.round
  PROVE  Here(p, n, ReceiveAccept(r, p, m.src, m.round, m.v), A, acc, dec)
<1>1. PICK S, R : /\ Good(S, R, A, acc, dec) /\ R[p] = r /\ S[p] = n
                  /\ \A o : [R EXCEPT ![p] = o] = [RoundsOf EXCEPT ![p] = o]
                  /\ S = [Slots EXCEPT ![p] = n]
  BY HereIs, ReplicasAreProcs
<1>2. Good(S, [R EXCEPT ![p] = ReceiveAccept(R[p], p, m.src, m.round, m.v)], A, acc, dec)
  BY <1>1, VoteGood
<1>3. There(p, n, ReceiveAccept(r, p, m.src, m.round, m.v), A, acc, dec)
  BY <1>1, <1>2 DEF There
<1>4. Onward(p, n, ReceiveAccept(r, p, m.src, m.round, m.v))
  <2> DEFINE t == ReceiveAccept(r, p, m.src, m.round, m.v)
  <2>1. n \in Nat /\ r \in Rounds /\ Onward(p, n, r) /\ p \in Proc
    BY HereHas, ReplicasAreProcs DEF Here
  <2>2. m.src \in Proc /\ m.round \in Proc /\ m.v \in Uid
    BY <2>1, MessagesSay, MessageKinds DEF AcceptMsg
  <2>3. /\ t \in Rounds /\ t.round = r.round
        /\ t.max_rv.accept_round >= r.max_rv.accept_round
        /\ r.max_rv # NoRV => t.max_rv # NoRV
    <3> DEFINE a == m.src
               b == m.round
               v == m.v
    <3>1. a \in Proc /\ b \in Proc /\ v \in Uid /\ b \in Int
      BY <2>2, ProcIsNat
    <3> HIDE DEF a, b, v
    <3>2. LET u == ReceiveAccept(r, p, a, b, v)
          IN  /\ u \in Rounds /\ u.round = r.round
              /\ u.max_rv = IF r.max_rv.accept_round < b THEN PaxosV(b, v) ELSE r.max_rv
      BY <2>1, <3>1, ReceiveAcceptType
    <3>3. PaxosV(b, v) # NoRV /\ PaxosV(b, v).accept_round = b
      BY <3>1, ProcIsNat DEF PaxosV, NoRV
    <3>4. /\ ReceiveAccept(r, p, a, b, v).max_rv.accept_round >= r.max_rv.accept_round
          /\ r.max_rv # NoRV => ReceiveAccept(r, p, a, b, v).max_rv # NoRV
      BY <2>1, <3>1, <3>2, <3>3, RoundFields
    <3> QED BY <3>2, <3>4 DEF a, b, v
  <2> HIDE DEF t
  <2>4. r.round \in Int /\ r.max_rv.accept_round \in Int
    BY <2>1, RoundFields
  <2>5. /\ t.round >= r.round /\ t.max_rv.accept_round >= r.max_rv.accept_round
        /\ r.max_rv # NoRV => t.max_rv # NoRV
    BY <2>3, <2>4
  <2>6. Onward(p, n, t)
    BY <2>1, <2>3, <2>5, OnwardStep
  <2> QED BY <2>6 DEF t
<1> QED BY <1>3, <1>4 DEF Here

\* p counts an answer to its proposal.
LEMMA HereAnswer ==
  ASSUME NEW p \in Proc, NEW n, NEW r, NEW A, NEW acc, NEW dec,
         Here(p, n, r, A, acc, dec), r.round = p,
         NEW src \in Proc, src \in r.prepared_set, NEW q \in Proc, q <= p, NEW v \in Uid,
         \/ src = p /\ r.max_rv = FastV(q, v)
         \/ \E m \in A : m.type = "Prepare" /\ m.src = src /\ m.slot = n /\ m.rv = FastV(q, v)
  PROVE  Here(p, n, EPaxosAnswered(r, src, q, v), A, acc, dec)
<1>1. PICK S, R : /\ Good(S, R, A, acc, dec) /\ R[p] = r /\ S[p] = n
                  /\ \A o : [R EXCEPT ![p] = o] = [RoundsOf EXCEPT ![p] = o]
                  /\ S = [Slots EXCEPT ![p] = n]
  BY HereIs
<1>2. Says(S, R, A, src, S[p], q, v)
  BY <1>1 DEF Says
<1>3. Good(S, [R EXCEPT ![p] = EPaxosAnswered(R[p], src, q, v)], A, acc, dec)
  BY <1>1, <1>2, AnswerGood
<1>4. There(p, n, EPaxosAnswered(r, src, q, v), A, acc, dec)
  BY <1>1, <1>3 DEF There
<1>5. Onward(p, n, EPaxosAnswered(r, src, q, v))
  <2> DEFINE t == EPaxosAnswered(r, src, q, v)
  <2>1. n \in Nat /\ r \in Rounds /\ Onward(p, n, r) /\ p \in Proc
    BY HereHas, ReplicasAreProcs DEF Here
  <2>2. t \in Rounds /\ t.round = r.round /\ t.max_rv = r.max_rv
    BY <2>1, AnsweredType
  <2> HIDE DEF t
  <2>3. r.round \in Int /\ r.max_rv.accept_round \in Int
    BY <2>1, RoundFields
  <2>4. /\ t.round >= r.round /\ t.max_rv.accept_round >= r.max_rv.accept_round
        /\ r.max_rv # NoRV => t.max_rv # NoRV
    BY <2>2, <2>3
  <2>5. Onward(p, n, t)
    BY <2>1, <2>2, <2>4, OnwardStep
  <2> QED BY <2>5 DEF t
<1> QED BY <1>4, <1>5 DEF Here

\* p sends a message that says what p did.
LEMMA HereSend ==
  ASSUME NEW p \in Proc, NEW n, NEW r, NEW A, NEW acc, NEW dec, Here(p, n, r, A, acc, dec),
         NEW m \in Known,
         m.type \in {"Accept", "Prepare"} => p \in AliveReplicas,
         m.type = "Accept" =>
           /\ m.src = p /\ m.slot = n /\ m.round = r.round
           /\ r.max_rv.accept_round >= r.round
           /\ Asked(acc, m.slot, m.round, m.v),
         m.type = "Prepare" =>
           /\ m.src = p /\ m.slot = n /\ m.round = r.round /\ m.rv = r.max_rv
           /\ r.max_rv # NoRV /\ r.max_rv.accept_round < r.round /\ ~IsMultiPaxos,
         m.type = "Commit" => \E d \in dec : d.slot = m.slot /\ d.v = m.v
  PROVE  Here(p, n, r, A \cup {m}, acc, dec)
<1>1. PICK S, R : /\ Good(S, R, A, acc, dec) /\ R[p] = r /\ S[p] = n
                  /\ Ar(R, p) = r.max_rv.accept_round
                  /\ S = [Slots EXCEPT ![p] = n] /\ R = [RoundsOf EXCEPT ![p] = r]
  BY HereIs
<1>2. Good(S, R, A \cup {m}, acc, dec)
  BY <1>1, SendGood
<1>3. There(p, n, r, A \cup {m}, acc, dec)
  BY <1>1, <1>2 DEF There
<1>4. Onward(p, n, r)
  BY DEF Here
<1> QED BY <1>3, <1>4 DEF Here

\* p goes on to the next slot.
LEMMA HereCommit ==
  ASSUME NEW p \in Proc, NEW n, NEW r, NEW A, NEW acc, NEW dec, Here(p, n, r, A, acc, dec)
  PROVE  Here(p, n + 1, ClearRound, A, acc, dec)
<1>1. PICK S, R : /\ Good(S, R, A, acc, dec) /\ S[p] = n
                  /\ \A o : [R EXCEPT ![p] = o] = [RoundsOf EXCEPT ![p] = o]
                  /\ \A k : [S EXCEPT ![p] = k] = [Slots EXCEPT ![p] = k]
  BY HereIs
<1>2. Good([S EXCEPT ![p] = S[p] + 1], [R EXCEPT ![p] = ClearRound], A, acc, dec)
  BY <1>1, CommitGood
<1>3. There(p, n + 1, ClearRound, A, acc, dec)
  BY <1>1, <1>2 DEF There
<1>4. Onward(p, n + 1, ClearRound)
  <2>1. n \in Nat /\ Onward(p, n, r)
    BY HereHas DEF Here
  <2> QED BY <2>1 DEF Onward
<1> QED BY <1>3, <1>4 DEF Here

\* p has counted a majority of votes.
LEMMA HereDecide ==
  ASSUME NEW p \in Proc, NEW n, NEW r, NEW A, NEW acc, NEW dec, Here(p, n, r, A, acc, dec),
         NEW v \in Uid, r.round \in Proc, Asked(acc, n, r.round, v), PaxosCanCommit(r)
  PROVE  Here(p, n, r, A, acc,
              dec \cup {[slot |-> n, v |-> v, round |-> r.round, fast |-> FALSE]})
<1>1. PICK S, R : /\ Good(S, R, A, acc, dec) /\ R[p] = r /\ S[p] = n
                  /\ S = [Slots EXCEPT ![p] = n] /\ R = [RoundsOf EXCEPT ![p] = r]
  BY HereIs
<1>2. Good(S, R, A, acc,
           dec \cup {[slot |-> S[p], v |-> v, round |-> R[p].round, fast |-> FALSE]})
  BY <1>1, DecideGood
<1>3. There(p, n, r, A, acc, 
              dec \cup {[slot |-> n, v |-> v, round |-> r.round, fast |-> FALSE]})
  BY <1>1, <1>2 DEF There
<1>4. Onward(p, n, r)
  BY DEF Here
<1> QED BY <1>3, <1>4 DEF Here

\* p has counted enough answers for its own proposal.
LEMMA HereDecideFast ==
  ASSUME NEW p \in Proc, NEW n, NEW r, NEW A, NEW acc, NEW dec, Here(p, n, r, A, acc, dec),
         Mode = "EPaxos", r.round = p, r.max_rv.accept_round = None,
         NEW v \in Uid, NEW x \in r.fast_answers, x.v = v, EPaxosCanCommit(r, p)
  PROVE  Here(p, n + 1, ClearRound, A, acc,
              dec \cup {[slot |-> n, v |-> v, round |-> r.round, fast |-> TRUE]})
<1>1. PICK S, R : /\ Good(S, R, A, acc, dec) /\ R[p] = r /\ S[p] = n
                  /\ Ar(R, p) = r.max_rv.accept_round
                  /\ \A o : [R EXCEPT ![p] = o] = [RoundsOf EXCEPT ![p] = o]
                  /\ \A k : [S EXCEPT ![p] = k] = [Slots EXCEPT ![p] = k]
  BY HereIs
<1>2. Good([S EXCEPT ![p] = S[p] + 1], [R EXCEPT ![p] = ClearRound], A, acc,
           dec \cup {[slot |-> S[p], v |-> v, round |-> R[p].round, fast |-> TRUE]})
  BY <1>1, DecideFastGood
<1>3. There(p, n + 1, ClearRound, A, acc, 
              dec \cup {[slot |-> n, v |-> v, round |-> r.round, fast |-> TRUE]})
  BY <1>1, <1>2 DEF There
<1>4. Onward(p, n + 1, ClearRound)
  <2>1. n \in Nat /\ Onward(p, n, r)
    BY HereHas DEF Here
  <2> QED BY <2>1 DEF Onward
<1> QED BY <1>3, <1>4 DEF Here

\* p has counted enough answers to know what may have been decided fast.
LEMMA HereAdopt ==
  ASSUME NEW p \in AliveReplicas, NEW n, NEW r, NEW A, NEW acc, NEW dec,
         Here(p, n, r, A, acc, dec),
         Mode = "EPaxos", r.round = p, r.max_rv.accept_round = None,
         NEW v, v \in EPaxosAdoptable(r)
  PROVE  Here(p, n, AdoptFromEPaxos(r, p, p, v), A,
              acc \cup {[slot |-> n, round |-> p, v |-> v]}, dec)
<1>1. PICK S, R : /\ Good(S, R, A, acc, dec) /\ R[p] = r /\ S[p] = n
                  /\ Ar(R, p) = r.max_rv.accept_round
                  /\ \A o : [R EXCEPT ![p] = o] = [RoundsOf EXCEPT ![p] = o]
                  /\ S = [Slots EXCEPT ![p] = n]
  BY HereIs, ReplicasAreProcs
<1>2. Good(S, [R EXCEPT ![p] = AdoptFromEPaxos(R[p], p, p, v)], A,
           acc \cup {[slot |-> S[p], round |-> p, v |-> v]}, dec)
  BY <1>1, AdoptGood
<1>3. There(p, n, AdoptFromEPaxos(r, p, p, v), A, 
              acc \cup {[slot |-> n, round |-> p, v |-> v]}, dec)
  BY <1>1, <1>2 DEF There
<1>4. Onward(p, n, AdoptFromEPaxos(r, p, p, v))
  <2> DEFINE t == AdoptFromEPaxos(r, p, p, v)
  <2>1. n \in Nat /\ r \in Rounds /\ Onward(p, n, r) /\ p \in Proc
    BY HereHas, ReplicasAreProcs DEF Here
  <2>2. v \in Uid
    <3>1. r.fast_answers \subseteq [src : Proc, proposer : Proc, v : Uid]
      BY <2>1 DEF Rounds, PaxosRoundStates
    <3> QED BY <3>1 DEF EPaxosAdoptable
  <2>3. t \in Rounds /\ t.round = r.round /\ t.max_rv = PaxosV(p, v)
    BY <2>1, <2>2, AdoptType
  <2>4. PaxosV(p, v) # NoRV /\ PaxosV(p, v).accept_round >= r.max_rv.accept_round
    <3>1. PaxosV(p, v).accept_round = p /\ NoRV.accept_round = None
      BY DEF PaxosV, NoRV
    <3>2. None < p /\ None # p /\ None <= None
      BY <2>1, ProcIsNat DEF OptProc
    <3>3. PaxosV(p, v).accept_round >= r.max_rv.accept_round
      <4>1. r.max_rv.accept_round = None /\ None \in Int /\ p \in Int
        BY <2>1, ProcIsNat DEF OptProc
      <4> QED BY <3>1, <3>2, <4>1
    <3> QED BY <3>1, <3>2, <3>3
  <2> HIDE DEF t
  <2>5. r.round \in Int /\ r.max_rv.accept_round \in Int
    BY <2>1, RoundFields
  <2>6. /\ t.round >= r.round /\ t.max_rv.accept_round >= r.max_rv.accept_round
        /\ r.max_rv # NoRV => t.max_rv # NoRV
    BY <2>3, <2>4, <2>5
  <2>7. Onward(p, n, t)
    BY <2>1, <2>3, <2>4, <2>6, OnwardStep
  <2> QED BY <2>7 DEF t
<1> QED BY <1>3, <1>4 DEF Here

\* The coordinator asks for votes for the value it has promises for.
LEMMA HereLead ==
  ASSUME NEW p \in AliveReplicas, NEW n, NEW r, NEW A, NEW acc, NEW dec,
         Here(p, n, r, A, acc, dec), NEW b \in Proc, r.round = b, Coordinator(b) = p,
         r.max_rv # NoRV, r.max_rv.accept_round < b,
         Mode = "EPaxos" => r.max_rv.accept_round # None,
         IsMultiPaxos => b = StartingRound,
         ~IsMultiPaxos => IsPrepared(r)
  PROVE  LET t == SelfAccept(r, p, b)
         IN  /\ Here(p, n, t, A, acc \cup {[slot |-> n, round |-> b, v |-> r.max_rv.v]}, dec)
             /\ t \in Rounds /\ t.round = b /\ t.max_rv = PaxosV(b, r.max_rv.v)
             /\ r.max_rv.v \in Uid
<1> DEFINE v == r.max_rv.v
           t == SelfAccept(r, p, b)
<1>1. PICK S, R : /\ Good(S, R, A, acc, dec) /\ R[p] = r /\ S[p] = n
                  /\ Ar(R, p) = r.max_rv.accept_round
                  /\ \A o : [R EXCEPT ![p] = o] = [RoundsOf EXCEPT ![p] = o]
                  /\ S = [Slots EXCEPT ![p] = n]
  BY HereIs, ReplicasAreProcs
<1>2. p \in Proc /\ r \in Rounds /\ n \in Int /\ b \in Int
  BY HereHas, ReplicasAreProcs, ProcIsNat
<1>3. v \in Uid
  BY <1>2, RvsAreValues DEF Rounds
<1> HIDE DEF v
<1>4. /\ t \in Rounds /\ t.round = b /\ t.max_rv = PaxosV(b, v)
      /\ t.prepared_set = r.prepared_set
      /\ t.accepted_set = Counting(r.accepted_set, p, p)
      /\ t.fast_answers = r.fast_answers
  <2>1. t = ReceiveAccept(r, p, p, b, v)
    BY DEF SelfAccept, v
  <2>2. LET u == ReceiveAccept(r, p, p, b, v)
        IN  /\ u \in Rounds /\ u.round = r.round
            /\ u.max_rv = IF r.max_rv.accept_round < b THEN PaxosV(b, v) ELSE r.max_rv
            /\ u.prepared_set = r.prepared_set
            /\ u.accepted_set = Counting(r.accepted_set, p, p)
            /\ u.fast_answers = r.fast_answers
    BY <1>2, <1>3, ReceiveAcceptType
  <2> QED BY <2>1, <2>2
<1> HIDE DEF t
<1>5. ~LedBy(S, R, p, S[p], b)
  <2>1. ~(n > n) /\ ~(b > b) /\ r.max_rv.accept_round # b
    BY <1>2
  <2> QED BY <1>1, <2>1 DEF LedBy
<1>6. Ar(R, p) # None => v = R[p].max_rv.v
  BY <1>1 DEF v
<1>7. Good(S, [R EXCEPT ![p] = t], A, acc \cup {[slot |-> S[p], round |-> b, v |-> v]}, dec)
  <2>1. /\ b = R[p].round /\ Coordinator(b) = p
        /\ Mode = "EPaxos" => Ar(R, p) # None
        /\ IsMultiPaxos => b = StartingRound
        /\ ~IsMultiPaxos => IsPrepared(R[p])
    BY <1>1
  <2>2. /\ t.prepared_set = R[p].prepared_set
        /\ t.accepted_set = Counting(R[p].accepted_set, p, p)
        /\ t.fast_answers = R[p].fast_answers
    BY <1>1, <1>4
  <2> QED BY <1>1, <1>3, <1>4, <1>5, <1>6, <2>1, <2>2, LeadOnGood
<1>8. There(p, n, t, A, acc \cup {[slot |-> n, round |-> b, v |-> v]}, dec)
  BY <1>1, <1>7 DEF There
<1>9. Onward(p, n, t)
  <2>1. PaxosV(b, v) # NoRV /\ PaxosV(b, v).accept_round = b
    BY <1>2, ProcIsNat DEF PaxosV, NoRV
  <2>2. n \in Nat /\ Onward(p, n, r) /\ r.max_rv.accept_round \in Int
    BY <1>2, HereHas DEF Here
  <2> QED BY <1>2, <1>4, <2>1, <2>2, OnwardStep
<1> QED BY <1>3, <1>4, <1>8, <1>9 DEF t, v, Here

-----------------------------------------------------------------------------
(* The end of a handler *)

\* What p's handler starts from: p's shard s, with commands and the scan changed
\* only, in a state in which A was sent.
Stands(p, s, A) ==
  /\ ShardTypeOK(s) /\ s.log = shard[p].log /\ s.round_state = shard[p].round_state
  /\ s.queued_messages \in Seq(A)

\* Where p is when its handler starts.
LEMMA StandsHere ==
  ASSUME NEW A, Holds(A), NEW p \in Proc, NEW s, Stands(p, s, A)
  PROVE  /\ Here(p, Slot(s), s.round_state, A, accepts, decided)
         /\ ShardOK(s, A, decided)
         /\ Slot(s) = Slots[p] /\ Slot(s) \in Nat
<1>1. Slot(s) = Slots[p] /\ s.round_state = RoundsOf[p]
  BY DEF Stands, Slots, RoundsOf, Slot
<1>2. [Slots EXCEPT ![p] = Slot(s)] = Slots /\ [RoundsOf EXCEPT ![p] = s.round_state] = RoundsOf
  BY <1>1 DEF Slots, RoundsOf
<1>3. ShardOK(s, A, decided)
  BY DEF Holds, ShardOK, Stands
<1>4. There(p, Slot(s), s.round_state, A, accepts, decided)
  BY <1>2 DEF Holds, There
<1>5. s.round_state \in Rounds /\ Slot(s) \in Nat
  BY SlotType DEF Stands, ShardTypeOK, Shards
<1>6. Onward(p, Slot(s), s.round_state)
  <2> DEFINE r == s.round_state
  <2>1. r \in Rounds /\ r = RoundsOf[p]
    BY <1>1, <1>5
  <2> HIDE DEF r
  <2>2. r.round \in Int /\ r.max_rv.accept_round \in Int
    BY <2>1, RoundFields
  <2> QED BY <1>1, <1>5, <2>1, <2>2 DEF Onward, r
<1> QED BY <1>1, <1>3, <1>4, <1>5, <1>6 DEF Here

\* What A says, more messages say.
LEMMA SeqOfMore ==
  ASSUME NEW A, NEW B, A \subseteq B
  PROVE  \A h \in Seq(A) : h \in Seq(B)
OBVIOUS

\* Output is made of what was sent.
LEMMA OutputIs ==
  ASSUME NEW A
  PROVE  /\ Output(Nothing, A)
         /\ \A o1, o2 : Output(o1, A) /\ Output(o2, A) => Output(Then(o1, o2), A)
         /\ \A p, D, m : m \in A => Output(ToOthers(p, D, m), A) /\ Output(ToReplicas(p, D, m), A)
<1>1. Output(Nothing, A)
  BY DEF Output, Nothing
<1>2. \A o1, o2 : Output(o1, A) /\ Output(o2, A) => Output(Then(o1, o2), A)
  BY DEF Output, Then
<1>3. \A p, D, m : m \in A => Output(ToOthers(p, D, m), A)
  BY DEF Output, ToOthers
<1>4. \A p, D, m : m \in A => Output(ToReplicas(p, D, m), A)
  BY <1>3 DEF ToReplicas
<1> QED BY <1>1, <1>2, <1>3, <1>4

\* The handler ends with p's shard t, having sent the rest of B.
LEMMA Ends ==
  ASSUME NEW A, Holds(A), ShardsTypeOK, NEW p \in Proc, NEW chan, Traffic(chan, A),
         NEW B \in SUBSET Known, A \subseteq B, NEW out, Output(out, B),
         NEW t, ShardTypeOK(t), Become(p, t, chan, out),
         decided \subseteq decided', accepts \subseteq accepts', ShardOK(t, B, decided'),
         Moved(p, Slot(t), t.round_state),
         Here(p, Slot(t), t.round_state, B, accepts', decided')
  PROVE  Keeps(p)
<1>1. shard' = [shard EXCEPT ![p] = t] /\ shard \in [Proc -> Shards]
  BY DEF Become, ShardsTypeOK
<1>2. Slots' = [Slots EXCEPT ![p] = Slot(t)] /\ RoundsOf' = [RoundsOf EXCEPT ![p] = t.round_state]
  BY <1>1 DEF Slots, RoundsOf
<1>3. Good(Slots', RoundsOf', B, accepts', decided')
  BY <1>2 DEF Here, There
<1>4. Traffic(net', B)
  <2> DEFINE sent == Then(chan[p], out)
  <2>1. net' = [chan EXCEPT ![p] = sent]
    BY DEF Become, Send
  <2>2. \A q \in Proc : chan[q] \in [Proc -> Seq(B)]
    BY SeqOfMore DEF Traffic
  <2>3. sent \in [Proc -> Seq(B)]
    <3>1. Output(chan[p], B)
      BY <2>2 DEF Output
    <3> QED BY <3>1, OutputIs DEF Output
  <2>4. chan \in [Proc -> [Proc -> Seq(B)]]
    BY <2>2 DEF Traffic
  <2> HIDE DEF sent
  <2> QED BY <2>1, <2>3, <2>4 DEF Traffic
<1>5. \A q \in Proc : ShardOK(shard'[q], B, decided')
  <2> SUFFICES ASSUME NEW q \in Proc PROVE ShardOK(shard'[q], B, decided')
    OBVIOUS
  <2>1. CASE q = p
    BY <1>1, <2>1
  <2>2. CASE q # p
    <3>1. shard'[q] = shard[q] /\ ShardOK(shard[q], A, decided)
      BY <1>1, <2>2 DEF Holds
    <3>2. ShardOK(shard[q], B, decided')
      BY <3>1, SeqOfMore DEF ShardOK
    <3> QED BY <3>1, <3>2
  <2> QED BY <2>1, <2>2
<1>6. Inv'
  BY <1>3, <1>4, <1>5 DEF Inv, Holds
<1>7. Advance(p)
  <2>1. Slots'[p] = Slot(t) /\ RoundsOf'[p] = t.round_state
    BY <1>2 DEF Slots, RoundsOf
  <2> QED BY <1>2, <2>1 DEF Advance
<1> QED BY <1>6, <1>7 DEF Keeps

\* It ends in the slot it started in, with a value.
LEMMA EndsInSlot ==
  ASSUME NEW A, Holds(A), ShardsTypeOK, NEW p \in Proc, NEW chan, Traffic(chan, A),
         NEW s, Stands(p, s, A), NEW t, SameSlot(s, t),
         NEW B \in SUBSET Known, A \subseteq B, NEW out, Output(out, B),
         Become(p, t, chan, out), UNCHANGED decided, accepts \subseteq accepts',
         t.round_state.max_rv # NoRV,
         Here(p, Slot(s), t.round_state, B, accepts', decided)
  PROVE  Keeps(p)
<1>1. ShardOK(s, A, decided)
  BY StandsHere
<1>2. ShardTypeOK(t) /\ Slot(t) = Slot(s) /\ t.log = s.log /\ t.queued_messages = s.queued_messages
  BY DEF SameSlot
<1>3. ShardOK(t, B, decided')
  BY <1>1, <1>2, SeqOfMore DEF ShardOK
<1>4. Moved(p, Slot(t), t.round_state)
  BY <1>2, StandsHere DEF Here, Onward, Moved
<1> QED BY <1>2, <1>3, <1>4, Ends

\* It ends as it started.
LEMMA EndsThere ==
  ASSUME NEW A, Holds(A), ShardsTypeOK, NEW p \in Proc, NEW chan, Traffic(chan, A),
         NEW s, Stands(p, s, A), Become(p, s, chan, Nothing), UNCHANGED history
  PROVE  Keeps(p)
<1>1. /\ Here(p, Slot(s), s.round_state, A, accepts, decided) /\ ShardOK(s, A, decided)
      /\ ShardTypeOK(s)
  BY StandsHere DEF Stands
<1>2. A \in SUBSET Known
  BY <1>1, HereHas
<1>3. accepts' = accepts /\ decided' = decided
  BY DEF history
<1>4. Moved(p, Slot(s), s.round_state)
  BY <1>1, StandsHere DEF Here, Onward, Moved
<1> QED BY <1>1, <1>2, <1>3, <1>4, OutputIs, Ends

\* It ends with v committed, which was decided.
LEMMA EndsNext ==
  ASSUME NEW A, Holds(A), ShardsTypeOK, NEW p \in Proc, NEW chan, Traffic(chan, A),
         NEW s, Stands(p, s, A), NEW t, SameSlot(s, t), NEW v \in Uid, NEW ok \in BOOLEAN,
         NEW B \in SUBSET Known, A \subseteq B, NEW out, Output(out, B),
         Become(p, Panic(CommitSlot(t, v), ok), chan, out),
         decided \subseteq decided', accepts \subseteq accepts',
         \E d \in decided' : d.slot = Slot(s) /\ d.v = v,
         Here(p, Slot(s) + 1, ClearRound, B, accepts', decided')
  PROVE  Keeps(p)
<1> DEFINE c == CommitSlot(t, v)
           u == Panic(c, ok)
           x == [v |-> v, fast |-> TookFastPath(t)]
<1>1. ShardTypeOK(t) /\ Slot(t) = Slot(s) /\ t.log = s.log /\ t.queued_messages = s.queued_messages
  BY DEF SameSlot
<1>2. /\ ShardTypeOK(c) /\ c.round_state = ClearRound /\ Slot(c) = Slot(t) + 1
      /\ c.log = Append(t.log, x) /\ c.queued_messages = t.queued_messages
  BY <1>1, CommitSlotType
<1>3. /\ ShardTypeOK(u) /\ u.round_state = ClearRound /\ Slot(u) = Slot(s) + 1
      /\ u.log = Append(s.log, x) /\ u.queued_messages = s.queued_messages
  <2> HIDE DEF c
  <2>1. SameSlot(c, u) /\ u.round_state = c.round_state
    BY <1>2, PanicType
  <2> QED BY <1>1, <1>2, <2>1 DEF SameSlot
<1>4. ShardOK(s, A, decided) /\ s.log \in Seq([v : Uid, fast : BOOLEAN])
  BY StandsHere DEF Stands, ShardTypeOK, Shards
<1> HIDE DEF u, c
<1>5. x.v = v
  OBVIOUS
<1> HIDE DEF x
<1>6. \A i \in DOMAIN u.log : \E d \in decided' : d.slot = i - 1 /\ d.v = u.log[i].v
  <2> SUFFICES ASSUME NEW i \in DOMAIN u.log
               PROVE  \E d \in decided' : d.slot = i - 1 /\ d.v = u.log[i].v
    OBVIOUS
  <2>1. \/ i \in DOMAIN s.log /\ u.log[i] = s.log[i]
        \/ i = Len(s.log) + 1 /\ u.log[i] = x /\ i - 1 = Len(s.log)
    BY <1>3, <1>4
  <2>2. CASE i \in DOMAIN s.log /\ u.log[i] = s.log[i]
    BY <1>4, <2>2 DEF ShardOK
  <2>3. CASE i = Len(s.log) + 1 /\ u.log[i] = x /\ i - 1 = Len(s.log)
    BY <1>5, <2>3 DEF Slot
  <2> QED BY <2>1, <2>2, <2>3
<1>7. u.queued_messages \in Seq(B)
  BY <1>3, SeqOfMore DEF Stands
<1>8. ShardOK(u, B, decided')
  BY <1>3, <1>6, <1>7 DEF ShardOK
<1>9. Become(p, u, chan, out)
  BY DEF u, c
<1>10. Moved(p, Slot(u), u.round_state)
  BY <1>3, StandsHere DEF Moved
<1> QED BY <1>3, <1>8, <1>9, <1>10, Ends

-----------------------------------------------------------------------------
(* Processing a message *)

\* p goes to the round of a message that concerns it.
LEMMA InRoundHere ==
  ASSUME NEW A, Holds(A), NEW p \in Proc, NEW s, Stands(p, s, A), NEW m \in A,
         Concerns(p, m, s)
  PROVE  Here(p, Slot(s), InRound(s, m.round).round_state, A, accepts, decided)
<1> DEFINE r == s.round_state
           g == IF m.round > r.round THEN GotoRound(r, m.round) ELSE r
<1>1. Here(p, Slot(s), r, A, accepts, decided)
  BY StandsHere
<1>2. m \in Known /\ ShardTypeOK(s)
  BY <1>1, MessagesSay DEF Stands
<1>3. InRound(s, m.round).round_state = g /\ m.round \in Proc
  BY <1>2, InRoundType
<1> HIDE DEF r
<1>4. CASE m.round > r.round
  <2>1. Here(p, Slot(s), GotoRound(r, m.round), A, accepts, decided)
    BY <1>1, <1>3, <1>4, HereGoto
  <2> QED BY <1>3, <1>4, <2>1
<1>5. CASE ~(m.round > r.round)
  BY <1>1, <1>3, <1>5
<1> QED BY <1>4, <1>5

\* A Prepare is taken in, whether it brings the value of the slot along or not.
LEMMA TakenHere ==
  ASSUME NEW A, Holds(A), NEW p \in Proc, NEW s, Stands(p, s, A), NEW m \in A,
         m.type = "Prepare", Concerns(p, m, s)
  PROVE  Here(p, Slot(s), Taken(p, m, s).round_state, A, accepts, decided)
<1> DEFINE n == Slot(s)
           g == InRound(s, m.round).round_state
           u == IF g.max_rv = NoRV THEN PaxosProposeV(g, p, m.rv) ELSE g
<1>1. Here(p, n, g, A, accepts, decided)
  BY InRoundHere
<1>2. m \in Known /\ ShardTypeOK(s)
  BY <1>1, MessagesSay DEF Stands
<1>3. Taken(p, m, s).round_state = u
  BY <1>2, CountedType, PromptedType
<1>4. g.round = m.round /\ m.slot = n /\ p \in AliveReplicas /\ m.rv \in Rvs
  BY <1>2, InRoundType, MessageKinds
<1> HIDE DEF g, n
<1>5. CASE g.max_rv = NoRV
  <2>1. Here(p, n, PaxosProposeV(g, p, m.rv), A, accepts, decided)
    BY <1>1, <1>4, <1>5, HerePrompt
  <2> QED BY <1>3, <1>5, <2>1 DEF n
<1>6. CASE g.max_rv # NoRV
  BY <1>1, <1>3, <1>6 DEF n
<1> QED BY <1>5, <1>6

\* And counted.
LEMMA CountedHere ==
  ASSUME NEW A, Holds(A), NEW p \in Proc, NEW s, Stands(p, s, A), NEW m \in A,
         m.type = "Prepare", Concerns(p, m, s)
  PROVE  Here(p, Slot(s), Counted(p, m, s).round_state, A, accepts, decided)
<1> DEFINE n == Slot(s)
           u == Taken(p, m, s).round_state
<1>1. Here(p, n, u, A, accepts, decided)
  BY TakenHere
<1>2. m \in Known /\ ShardTypeOK(s)
  BY <1>1, MessagesSay DEF Stands
<1>3. /\ Counted(p, m, s).round_state = ReceivePromise(u, p, m.src, m.rv)
      /\ u.round = m.round /\ u.max_rv # NoRV
  BY <1>2, CountedType
<1>4. m.slot = n /\ p \in AliveReplicas
  BY DEF Concerns
<1> HIDE DEF u, n
<1>5. Here(p, n, ReceivePromise(u, p, m.src, m.rv), A, accepts, decided)
  BY <1>1, <1>3, <1>4, HerePromise
<1> QED BY <1>3, <1>5 DEF n

\* A process that asks for votes has recorded the value it asks for.
LEMMA BroadcastEnds ==
  ASSUME NEW A, Holds(A), ShardsTypeOK, NEW p \in AliveReplicas, NEW chan, Traffic(chan, A),
         NEW s, Stands(p, s, A), NEW t, SameSlot(s, t), NEW b \in Proc, NEW v \in Uid,
         t.round_state.round = b, t.round_state.max_rv = PaxosV(b, v),
         Here(p, Slot(s), t.round_state, A,
              accepts \cup {[slot |-> Slot(s), round |-> b, v |-> v]}, decided),
         BroadcastAccept(p, t, chan)
  PROVE  Keeps(p)
<1> DEFINE n == Slot(s)
           r == t.round_state
           acc == accepts \cup {[slot |-> n, round |-> b, v |-> v]}
           m == [type |-> "Accept", slot |-> n, src |-> p, round |-> b, v |-> v,
                 new_value |-> FALSE]
           u == [t EXCEPT !.slot_left_fast_path = TRUE]
           out == ToReplicas(p, Proc, m)
<1>1. ShardTypeOK(t) /\ Slot(t) = n /\ p \in Proc
  BY ReplicasAreProcs DEF SameSlot
<1>2. r.max_rv.v = v /\ r.max_rv.accept_round = b /\ r.max_rv # NoRV
  BY ProcIsNat DEF PaxosV, NoRV
<1>3. /\ Become(p, u, chan, out) /\ accepts' = acc /\ UNCHANGED decided
      /\ accepts \subseteq accepts'
  BY <1>1, <1>2 DEF BroadcastAccept
<1>4. m \in Known /\ b >= b
  <2>1. n \in Nat /\ b \in Int
    BY <1>1, SlotType, ProcIsNat
  <2> HIDE DEF n
  <2>2. m \in Known
    BY <1>1, <2>1, AcceptKnown
  <2> QED BY <2>1, <2>2
<1>5. Asked(acc, n, b, v)
  BY DEF Asked
<1>6. /\ m.type = "Accept" /\ m.src = p /\ m.slot = n /\ m.round = b /\ m.v = v
  OBVIOUS
<1>7. SameSlot(s, u) /\ u.round_state = r
  BY <1>1, ShardUpdate, SameSlotTransitive
<1>8. Here(p, n, r, A, acc, decided)
  OBVIOUS
<1> HIDE DEF m, acc, u, n, r
<1>9. Here(p, n, r, A \cup {m}, acc, decided)
  <2>1. r.round = b
    BY DEF r
  <2> QED BY <1>1, <1>2, <1>4, <1>5, <1>6, <1>8, <2>1, HereSend
<1>10. A \cup {m} \in SUBSET Known
  BY <1>9, <1>1, HereHas
<1>11. Output(out, A \cup {m})
  BY OutputIs
<1> HIDE DEF out
<1> QED BY <1>1, <1>2, <1>3, <1>7, <1>9, <1>10, <1>11, EndsInSlot DEF n

\* Whoever decides commits what it decided, and says so.
LEMMA DecideEnds ==
  ASSUME NEW A, Holds(A), ShardsTypeOK, NEW p \in Proc, NEW chan, Traffic(chan, A),
         NEW s, Stands(p, s, A), NEW t, SameSlot(s, t), NEW v \in Uid,
         t.round_state.round \in Proc, t.round_state.max_rv.v = v,
         NEW fast, NEW tells, NEW B \in SUBSET Known, A \subseteq B, NEW out, Output(out, B),
         Here(p, Slot(s) + 1, ClearRound, B, accepts,
              decided \cup {[slot |-> Slot(s), v |-> v, round |-> t.round_state.round,
                             fast |-> fast]}),
         Decide(p, t, v, fast, tells, chan, out)
  PROVE  Keeps(p)
<1> DEFINE n == Slot(s)
           d == [slot |-> n, v |-> v, round |-> t.round_state.round, fast |-> fast]
           dec == decided \cup {d}
           m == [type |-> "Commit", slot |-> n, v |-> v]
           sent == IF tells THEN Then(out, ToOthers(p, Proc, m)) ELSE out
           ok == CommitAsserts(t, v)
           C == B \cup {m}
<1>1. ShardTypeOK(t) /\ Slot(t) = n
  BY DEF SameSlot
<1>2. /\ Become(p, Panic(CommitSlot(t, v), ok), chan, sent)
      /\ decided' = dec /\ accepts' = accepts
  BY <1>1 DEF Decide
<1>3. m \in Known /\ m.type = "Commit" /\ m.slot = n /\ m.v = v
  BY <1>1, SlotType, CommitKnown
<1>4. \E e \in dec : e.slot = n /\ e.v = v
  <2>1. d \in dec /\ d.slot = n /\ d.v = v
    OBVIOUS
  <2> QED BY <2>1
<1>5. Here(p, n + 1, ClearRound, B, accepts, dec)
  OBVIOUS
<1>6. ok \in BOOLEAN
  BY DEF CommitAsserts
<1> HIDE DEF m, dec, n, ok
<1>7. Here(p, n + 1, ClearRound, C, accepts, dec)
  <2>1. m.type \notin {"Accept", "Prepare"}
    BY <1>3
  <2> QED BY <1>3, <1>4, <1>5, <2>1, HereSend
<1>8. C \in SUBSET Known /\ B \subseteq C /\ A \subseteq C /\ m \in C
  BY <1>7, HereHas
<1> HIDE DEF C
<1>9. Output(sent, C)
  <2>1. Output(out, C)
    BY <1>8, SeqOfMore DEF Output
  <2>2. Output(ToOthers(p, Proc, m), C)
    BY <1>8, OutputIs
  <2> QED BY <2>1, <2>2, OutputIs
<1> HIDE DEF sent
<1>10. decided \subseteq dec
  BY DEF dec
<1> QED BY <1>2, <1>4, <1>6, <1>7, <1>8, <1>9, <1>10, EndsNext DEF n

\* What is ignored changes nothing.
LEMMA IgnoredKeeps ==
  ASSUME NEW A, Holds(A), ShardsTypeOK, NEW p \in Proc, NEW chan, Traffic(chan, A),
         NEW s, Stands(p, s, A), NEW m \in A, Ignored(p, m, s, chan)
  PROVE  Keeps(p)
BY EndsThere DEF Ignored

\* A Commit message brings a decision.
LEMMA CommitMessageKeeps ==
  ASSUME NEW A, Holds(A), ShardsTypeOK, NEW p \in Proc, NEW chan, Traffic(chan, A),
         NEW s, Stands(p, s, A), NEW m \in A, CommitMessage(p, m, s, chan)
  PROVE  Keeps(p)
<1> DEFINE n == Slot(s)
           v == m.v
           ok == CommitAsserts(s, v)
<1>1. Here(p, n, s.round_state, A, accepts, decided)
  BY StandsHere
<1>2. /\ m.type = "Commit" /\ m.slot = n /\ UNCHANGED history
      /\ Become(p, Panic(CommitSlot(s, v), ok), chan, Nothing)
  BY DEF CommitMessage
<1>3. \E d \in decided : d.slot = n /\ d.v = v
  BY <1>1, <1>2, MessagesSay
<1>4. v \in Uid
  <2>1. m \in CommitMsg
    BY <1>1, <1>2, MessagesSay, MessageKinds
  <2> QED BY <2>1 DEF CommitMsg
<1>5. ok \in BOOLEAN
  BY DEF CommitAsserts
<1>6. Here(p, n + 1, ClearRound, A, accepts, decided)
  BY <1>1, HereCommit
<1>7. A \in SUBSET Known /\ Output(Nothing, A)
  BY <1>1, HereHas, OutputIs
<1>8. SameSlot(s, s)
  BY SameSlotReflexive DEF Stands
<1>9. accepts' = accepts /\ decided' = decided
  BY <1>2 DEF history
<1> HIDE DEF v, ok
<1> QED BY <1>2, <1>3, <1>4, <1>5, <1>6, <1>7, <1>8, <1>9, EndsNext

\* A promise tells what its sender goes for.
LEMMA AnswerPrepareKeeps ==
  ASSUME NEW A, Holds(A), ShardsTypeOK, NEW p \in Proc, NEW chan, Traffic(chan, A),
         NEW s, Stands(p, s, A), NEW m \in A, m.type = "Prepare", Concerns(p, m, s),
         AnswerPrepare(p, m, Taken(p, m, s), chan)
  PROVE  Keeps(p)
<1> DEFINE n == Slot(s)
           t == Taken(p, m, s)
           r == t.round_state
           to == Coordinator(m.round)
           silent == r.max_rv.accept_round = m.round
           ok == silent \/ to = m.src \/ to # m.round
           answer == [m EXCEPT !.src = p, !.rv = r.max_rv, !.new_value = FALSE]
           B == IF silent THEN A ELSE A \cup {answer}
           out == IF silent THEN Nothing ELSE ToReplicas(p, {to}, answer)
           u == Panic(t, ok)
<1>1. Here(p, n, r, A, accepts, decided)
  BY TakenHere
<1>2. /\ m \in Known /\ ShardTypeOK(s) /\ ~IsMultiPaxos
      /\ m.slot = n /\ p \in AliveReplicas
  BY <1>1, MessagesSay DEF Stands, Concerns
<1>3. SameSlot(s, t) /\ r \in Rounds /\ r.round = m.round /\ r.max_rv # NoRV
  BY <1>2, CountedType
<1>4. r.max_rv \in Rvs /\ r.max_rv \in FastVs \cup PaxosVs
  BY <1>3, RvsAreValues DEF Rounds
<1>5. Become(p, u, chan, out) /\ UNCHANGED history
  BY DEF AnswerPrepare
<1>6. r.max_rv.accept_round <= r.round /\ r.max_rv.accept_round \in Int /\ r.round \in Int
  BY <1>1, HereHas
<1> HIDE DEF t, n
<1>7. /\ answer \in PrepareMsg /\ answer.type = "Prepare" /\ answer.src = p
      /\ answer.slot = n /\ answer.round = m.round /\ answer.rv = r.max_rv
  BY <1>2, <1>4, MessageKinds DEF PrepareMsg
<1> HIDE DEF answer
<1>8. answer \in Known
  BY <1>4, <1>7 DEF Known, Message
<1>9. SameSlot(s, u) /\ u.round_state = r
  <2>1. ok \in BOOLEAN
    OBVIOUS
  <2> HIDE DEF ok
  <2>2. SameSlot(t, u) /\ u.round_state = r
    BY <1>3, <2>1, PanicType DEF SameSlot
  <2> QED BY <1>3, <2>2, SameSlotTransitive
<1> HIDE DEF u, r
<1>10. Here(p, n, r, B, accepts, decided)
  <2>1. CASE silent
    BY <1>1, <2>1
  <2>2. CASE ~silent
    <3>1. r.max_rv.accept_round < r.round
      BY <1>3, <1>6, <2>2
    <3>2. Here(p, n, r, A \cup {answer}, accepts, decided)
      BY <1>1, <1>2, <1>3, <1>7, <1>8, <3>1, HereSend
    <3> QED BY <2>2, <3>2
  <2> QED BY <2>1, <2>2
<1>11. A \subseteq B /\ Output(out, B)
  BY OutputIs
<1>12. B \in SUBSET Known
  BY <1>10, HereHas
<1>13. accepts' = accepts /\ decided' = decided
  BY <1>5 DEF history
<1> HIDE DEF B, out
<1> QED BY <1>3, <1>5, <1>9, <1>10, <1>11, <1>12, <1>13, EndsInSlot DEF n

\* Once it has promised its own round, its coordinator asks for votes, and has
\* not done so before.
LEMMA StartAcceptingKeeps ==
  ASSUME NEW A, Holds(A), ShardsTypeOK, NEW p \in Proc, NEW chan, Traffic(chan, A),
         NEW s, Stands(p, s, A), NEW m \in A, m.type = "Prepare", Concerns(p, m, s),
         Coordinator(m.round) = p,
         Mode = "EPaxos" => Counted(p, m, s).round_state.max_rv.accept_round # None,
         StartAccepting(p, m, Counted(p, m, s), IsPrepared(Taken(p, m, s).round_state), chan)
  PROVE  Keeps(p)
<1> DEFINE n == Slot(s)
           o == Taken(p, m, s).round_state
           c == Counted(p, m, s)
           r == c.round_state
           b == m.round
           a == SelfAccept(r, p, b)
           t == [c EXCEPT !.round_state = a]
           ok == SelfAcceptAsserts(r, b)
           v == r.max_rv.v
<1>1. Here(p, n, o, A, accepts, decided) /\ Here(p, n, r, A, accepts, decided)
  BY TakenHere, CountedHere
<1>2. /\ m \in Known /\ ShardTypeOK(s) /\ ~IsMultiPaxos
      /\ m.rv.accept_round < b /\ p \in AliveReplicas
  BY <1>1, MessagesSay DEF Stands, Concerns
<1>3. /\ o.round = b /\ o.max_rv # NoRV /\ r = ReceivePromise(o, p, m.src, m.rv)
      /\ SameSlot(s, c) /\ r.round = b /\ r.max_rv # NoRV /\ r \in Rounds
  BY <1>2, CountedType
<1>4. b \in Proc
  BY <1>2, MessageKinds DEF PrepareMsg
<1>5. \/ IsPrepared(r) /\ ~IsPrepared(o) /\ BroadcastAccept(p, Panic(t, ok), chan)
      \/ Become(p, c, chan, Nothing) /\ UNCHANGED history
  BY DEF StartAccepting
<1> HIDE DEF c, o
<1>6. CASE Become(p, c, chan, Nothing) /\ UNCHANGED history
  <2>1. A \in SUBSET Known /\ Output(Nothing, A)
    BY <1>1, HereHas, OutputIs
  <2>2. accepts' = accepts /\ decided' = decided
    BY <1>6 DEF history
  <2> QED BY <1>1, <1>3, <1>6, <2>1, <2>2, EndsInSlot
<1>7. CASE IsPrepared(r) /\ ~IsPrepared(o) /\ BroadcastAccept(p, Panic(t, ok), chan)
  <2>1. r.max_rv.accept_round < b
    <3> SUFFICES ASSUME ~(r.max_rv.accept_round < b) PROVE FALSE
      OBVIOUS
    <3>1. r.max_rv = o.max_rv \/ r.max_rv = m.rv
      BY <1>3 DEF ReceivePromise
    <3>2. o.max_rv.accept_round \in Int /\ o.max_rv.accept_round <= o.round /\ b \in Int
      BY <1>1, <1>4, HereHas, ProcIsNat
    <3>3. o.max_rv.accept_round = b
      BY <1>2, <1>3, <3>1, <3>2
    <3>4. Asked(accepts, n, b, o.max_rv.v)
      BY <1>1, <1>4, <3>3, HereHas, ProcIsNat
    <3>5. IsPrepared(o)
      <4> DEFINE x == [slot |-> n, round |-> b, v |-> o.max_rv.v]
      <4>1. x \in accepts /\ x.slot = n /\ x.round = b
        BY <3>4 DEF Asked
      <4> HIDE DEF x
      <4> QED BY <1>1, <1>2, <1>3, <4>1, HereHas
    <3> QED BY <1>7, <3>5
  <2>2. /\ Here(p, n, a, A, accepts \cup {[slot |-> n, round |-> b, v |-> v]}, decided)
        /\ a \in Rounds /\ a.round = b /\ a.max_rv = PaxosV(b, v) /\ v \in Uid
    <3>1. Mode = "EPaxos" => r.max_rv.accept_round # None
      BY DEF c
    <3> HIDE DEF r, n, b
    <3>2. Coordinator(b) = p
      BY DEF b
    <3> QED BY <1>1, <1>2, <1>3, <1>4, <1>7, <2>1, <3>1, <3>2, HereLead
  <2>3. ok \in BOOLEAN
    BY DEF SelfAcceptAsserts
  <2> HIDE DEF a, ok, n, v
  <2>4. SameSlot(s, t) /\ t.round_state = a
    BY <1>3, <2>2, ShardUpdate, SameSlotTransitive DEF SameSlot
  <2> HIDE DEF t
  <2>5. SameSlot(s, Panic(t, ok)) /\ Panic(t, ok).round_state = a
    BY <2>3, <2>4, PanicType, SameSlotTransitive DEF SameSlot
  <2> QED BY <1>2, <1>4, <1>7, <2>2, <2>5, BroadcastEnds DEF n
<1> QED BY <1>5, <1>6, <1>7

\* A proposer that can decide decides its own value.
LEMMA OwnValueDecided ==
  ASSUME NEW p \in Proc, NEW n, NEW r, NEW A, NEW acc, NEW dec, Here(p, n, r, A, acc, dec),
         Mode = "EPaxos", r.max_rv # NoRV, r.max_rv.accept_round = None,
         EPaxosCanCommit(r, p), NEW x \in r.fast_answers
  PROVE  r.max_rv.v = x.v
<1>1. PICK S, R : /\ Good(S, R, A, acc, dec) /\ R[p] = r /\ S[p] = n
  BY HereIs
<1>2. TypesOK(S, R, A) /\ Words(S, R, A) /\ n \in Nat /\ r \in Rounds
  BY <1>1, HereHas DEF Good, Base, Fast
<1>3. /\ x \in [src : Proc, proposer : Proc, v : Uid]
      /\ Says(S, R, A, x.src, n, x.proposer, x.v)
  BY <1>1, <1>2, AnswersForAre
<1>4. x.proposer = p
  <2>1. IsFiniteSet(r.fast_answers)
    BY <1>1, <1>2, AsManyAnswers
  <2> QED BY <1>2, <2>1, FastCommitAnswers
<1>5. PICK q \in Proc, w \in Uid : r.max_rv = FastV(q, w)
  <2> DEFINE rv == r.max_rv
  <2>1. rv \in Rvs /\ rv.accept_round = None
    BY <1>2 DEF Rounds
  <2> HIDE DEF rv
  <2>2. rv \in FastVs
    BY <2>1, RvsAreValues DEF Rvs, PaxosVs
  <2>3. rv = FastV(rv.proposer, rv.v) /\ rv.proposer \in Proc /\ rv.v \in Uid
    BY <2>2 DEF FastVs, FastV
  <2> QED BY <2>3 DEF rv
<1>6. Says(S, R, A, p, n, q, w)
  BY <1>1, <1>5 DEF Says
<1>7. q = p
  BY <1>2, <1>3, <1>4, <1>6 DEF Words
<1>8. w = x.v
  BY <1>2, <1>3, <1>4, <1>6, <1>7 DEF Words
<1> QED BY <1>5, <1>8, FastVIs

\* An answer is counted, and may be the last one needed.
LEMMA CountAnswerKeeps ==
  ASSUME NEW A, Holds(A), ShardsTypeOK, NEW p \in Proc, NEW chan, Traffic(chan, A),
         NEW s, Stands(p, s, A), NEW m \in A, m.type = "Prepare", Concerns(p, m, s),
         Coordinator(m.round) = p,
         Mode = "EPaxos", Counted(p, m, s).round_state.max_rv.accept_round = None,
         CountAnswer(p, m, Counted(p, m, s), chan)
  PROVE  Keeps(p)
<1> DEFINE n == Slot(s)
           c == Counted(p, m, s)
           o == c.round_state
           q == m.rv.proposer
           v == m.rv.v
           a == m.src
           r == EPaxosAnswered(o, a, q, v)
           ok == /\ AnsweredAsserts(o, m.src) /\ m.rv.proposer # None
                 /\ p \in Proposers(r)
           t1 == [c EXCEPT !.round_state = r]
           t == Panic(t1, ok)
           x == [src |-> a, proposer |-> q, v |-> v]
<1>1. Here(p, n, o, A, accepts, decided)
  BY CountedHere
<1>2. /\ m \in Known /\ ShardTypeOK(s) /\ p \in AliveReplicas /\ m.slot = n
      /\ q <= m.round
  BY <1>1, MessagesSay DEF Stands, Concerns
<1>3. /\ SameSlot(s, c) /\ o.round = m.round /\ o.max_rv # NoRV /\ o \in Rounds
      /\ o = ReceivePromise(Taken(p, m, s).round_state, p, a, m.rv)
      /\ Taken(p, m, s).round_state \in Rounds /\ Taken(p, m, s).round_state.max_rv # NoRV
  BY <1>2, CountedType
<1>4. m.round = p
  BY DEF Coordinator
<1>5. m.rv \in Rvs /\ a \in Proc /\ v \in Uid
  BY <1>2, MessageKinds, RvsAreValues DEF PrepareMsg
<1>6. m.rv.accept_round = None /\ a \in o.prepared_set
  <2> DEFINE u == Taken(p, m, s).round_state
             w == m.rv
  <2>1. u \in Rounds /\ a \in Proc /\ w \in Rvs /\ u.max_rv # NoRV
    BY <1>3, <1>5
  <2> HIDE DEF u, a, w
  <2>2. /\ u.max_rv.accept_round \in OptProc /\ w.accept_round \in OptProc
        /\ ReceivePromise(u, p, a, w).max_rv =
              IF u.max_rv.accept_round < w.accept_round THEN w ELSE u.max_rv
        /\ ReceivePromise(u, p, a, w).prepared_set = Counting(u.prepared_set, p, a)
    BY <2>1, ReceivePromiseType, RvsAreValues DEF Rounds
  <2>3. ReceivePromise(u, p, a, w).max_rv.accept_round = None => w.accept_round = None
    BY <2>2, ProcIsNat DEF OptProc, None
  <2>4. a \in Counting(u.prepared_set, p, a)
    BY <1>2, <2>1 DEF Counting
  <2> QED BY <1>3, <2>2, <2>3, <2>4 DEF u, w
<1>7. m.rv = FastV(q, v) /\ q \in Proc
  <2> DEFINE rv == m.rv
  <2>1. rv \in FastVs
    BY <1>5, <1>6, RvsAreValues DEF Rvs, PaxosVs
  <2> HIDE DEF rv
  <2>2. rv = FastV(rv.proposer, rv.v) /\ rv.proposer \in Proc
    BY <2>1 DEF FastVs, FastV
  <2> QED BY <2>2 DEF rv
<1>8. /\ \/ EPaxosCanCommit(r, p) /\ Decide(p, t, v, TRUE, TRUE, chan, Nothing)
         \/ \E w \in EPaxosAdoptable(r) :
              BroadcastAccept(p, Panic([t EXCEPT !.round_state = AdoptFromEPaxos(r, p, p, w)],
                                       IsPrepared(r) /\ r.accepted_set = {}), chan)
         \/ Become(p, t, chan, Nothing) /\ UNCHANGED history
  BY <1>4 DEF CountAnswer
<1> HIDE DEF c, o, q, v, a
<1>9. /\ r \in Rounds /\ r.round = o.round /\ r.max_rv = o.max_rv
      /\ r.fast_answers = o.fast_answers \cup {x}
  <2>1. o \in Rounds /\ a \in Proc /\ q \in Proc /\ v \in Uid
    BY <1>3, <1>5, <1>7
  <2>2. LET u == EPaxosAnswered(o, a, q, v)
        IN  /\ u \in Rounds /\ u.round = o.round /\ u.max_rv = o.max_rv
            /\ u.fast_answers = o.fast_answers \cup {[src |-> a, proposer |-> q, v |-> v]}
    BY <2>1, AnsweredType
  <2> QED BY <2>2
<1>10. Here(p, n, r, A, accepts, decided)
  <2>1. o.round = p /\ q <= p
    BY <1>2, <1>3, <1>4
  <2>2. m.src = a
    BY DEF a
  <2> HIDE DEF r, n
  <2>3. Here(p, n, EPaxosAnswered(o, a, q, v), A, accepts, decided)
    BY <1>1, <1>2, <1>5, <1>6, <1>7, <2>1, <2>2, HereAnswer DEF n
  <2> QED BY <2>3 DEF r
<1>11. SameSlot(s, t) /\ t.round_state = r
  <2>1. ok \in BOOLEAN
    BY DEF AnsweredAsserts
  <2> HIDE DEF ok, r
  <2>2. SameSlot(s, t1) /\ t1.round_state = r
    BY <1>3, <1>9, ShardUpdate, SameSlotTransitive DEF SameSlot
  <2> HIDE DEF t1
  <2> QED BY <2>1, <2>2, PanicType, SameSlotTransitive DEF SameSlot
<1>12. /\ r.round = p /\ r.max_rv # NoRV /\ r.max_rv.accept_round = None
       /\ x \in r.fast_answers /\ x.v = v
  <2>1. o.max_rv.accept_round = None
    BY DEF o, c
  <2> QED BY <1>3, <1>4, <1>9, <2>1
<1>13. A \in SUBSET Known /\ A \subseteq A /\ Output(Nothing, A)
  BY <1>1, HereHas, OutputIs
<1> HIDE DEF r, t, x, n
<1>14. CASE EPaxosCanCommit(r, p) /\ Decide(p, t, v, TRUE, TRUE, chan, Nothing)
  <2>1. Here(p, n + 1, ClearRound, A, accepts,
             decided \cup {[slot |-> n, v |-> v, round |-> r.round, fast |-> TRUE]})
    BY <1>5, <1>10, <1>12, <1>14, HereDecideFast
  <2>2. r.max_rv.v = v
    BY <1>10, <1>12, <1>14, OwnValueDecided
  <2> QED BY <1>5, <1>11, <1>12, <1>13, <1>14, <2>1, <2>2, DecideEnds DEF n
<1>15. ASSUME NEW w \in EPaxosAdoptable(r),
              BroadcastAccept(p, Panic([t EXCEPT !.round_state = AdoptFromEPaxos(r, p, p, w)],
                                       IsPrepared(r) /\ r.accepted_set = {}), chan)
       PROVE  Keeps(p)
  <2> DEFINE b == AdoptFromEPaxos(r, p, p, w)
             fine == IsPrepared(r) /\ r.accepted_set = {}
             u == [t EXCEPT !.round_state = b]
  <2>1. w \in Uid
    <3>1. r.fast_answers \subseteq [src : Proc, proposer : Proc, v : Uid]
      BY <1>9 DEF Rounds, PaxosRoundStates
    <3> QED BY <3>1 DEF EPaxosAdoptable
  <2>2. b \in Rounds /\ b.round = p /\ b.max_rv = PaxosV(p, w)
    BY <1>9, <1>12, <2>1, AdoptType
  <2>3. Here(p, n, b, A, accepts \cup {[slot |-> n, round |-> p, v |-> w]}, decided)
    BY <1>2, <1>10, <1>12, HereAdopt
  <2>4. fine \in BOOLEAN
    BY DEF IsPrepared
  <2>5. BroadcastAccept(p, Panic(u, fine), chan)
    BY <1>15
  <2> HIDE DEF b, fine
  <2>6. SameSlot(s, u) /\ u.round_state = b
    BY <1>11, <2>2, ShardUpdate, SameSlotTransitive DEF SameSlot
  <2> HIDE DEF u
  <2>7. SameSlot(s, Panic(u, fine)) /\ Panic(u, fine).round_state = b
    BY <2>4, <2>6, PanicType, SameSlotTransitive DEF SameSlot
  <2> QED BY <1>2, <2>1, <2>2, <2>3, <2>5, <2>7, BroadcastEnds DEF n
<1>16. CASE Become(p, t, chan, Nothing) /\ UNCHANGED history
  <2>1. accepts' = accepts /\ decided' = decided
    BY <1>16 DEF history
  <2> QED BY <1>10, <1>11, <1>12, <1>13, <1>16, <2>1, EndsInSlot DEF n
<1> QED BY <1>8, <1>14, <1>15, <1>16

\* The Prepare handler, as a whole.
LEMMA PrepareMessageKeeps ==
  ASSUME NEW A, Holds(A), ShardsTypeOK, NEW p \in Proc, NEW chan, Traffic(chan, A),
         NEW s, Stands(p, s, A), NEW m \in A, PrepareMessage(p, m, s, chan)
  PROVE  Keeps(p)
<1> DEFINE t == Taken(p, m, s)
           c == Counted(p, m, s)
           answers == Mode = "EPaxos" /\ c.round_state.max_rv.accept_round = None
<1>1. /\ m.type = "Prepare" /\ Concerns(p, m, s)
      /\ \/ AnswerPrepare(p, m, t, chan)
         \/ Coordinator(m.round) = p /\ answers /\ CountAnswer(p, m, c, chan)
         \/ /\ Coordinator(m.round) = p /\ ~answers
            /\ StartAccepting(p, m, c, IsPrepared(t.round_state), chan)
  BY DEF PrepareMessage, Taken, Counted
<1>2. CASE AnswerPrepare(p, m, t, chan)
  BY <1>1, <1>2, AnswerPrepareKeeps
<1>3. CASE Coordinator(m.round) = p /\ answers /\ CountAnswer(p, m, c, chan)
  BY <1>1, <1>3, CountAnswerKeeps
<1>4. CASE /\ Coordinator(m.round) = p /\ ~answers
           /\ StartAccepting(p, m, c, IsPrepared(t.round_state), chan)
  BY <1>1, <1>4, StartAcceptingKeeps
<1> QED BY <1>1, <1>2, <1>3, <1>4

\* A vote is told to whoever counts it.
LEMMA VotesOutput ==
  ASSUME NEW p, NEW m, NEW B, [m EXCEPT !.src = p, !.new_value = FALSE] \in B
  PROVE  Output(Votes(p, m), B)
<1> DEFINE vote == [m EXCEPT !.src = p, !.new_value = FALSE]
           committer == IF Mode = "MultiPaxos3P" THEN GetCommitter(m.v) ELSE None
           o1 == IF committer \notin {None, m.round, p} THEN ToReplicas(p, {committer}, vote)
                 ELSE Nothing
           o2 == ToReplicas(p, {m.round}, vote)
<1>1. vote \in B /\ Votes(p, m) = Then(o1, o2)
  BY DEF Votes
<1> HIDE DEF vote, committer
<1>2. Output(o1, B) /\ Output(o2, B)
  BY <1>1, OutputIs
<1> QED BY <1>1, <1>2, OutputIs

\* Having voted in a round, p goes for what its leader asked for.
LEMMA AcceptedHere ==
  ASSUME NEW A, Holds(A), NEW p \in Proc, NEW s, Stands(p, s, A), NEW m \in A,
         m.type = "Accept", Concerns(p, m, s)
  PROVE  LET r == Accepted(p, m, s).round_state
         IN  /\ Here(p, Slot(s), r, A, accepts, decided)
             /\ r.round = m.round /\ r.max_rv.accept_round >= r.round
             /\ r.max_rv.v = m.v /\ r.max_rv # NoRV
             /\ Asked(accepts, Slot(s), m.round, m.v)
             /\ m.round \in Proc /\ m.v \in Uid /\ m.slot = Slot(s)
<1> DEFINE n == Slot(s)
           g == InRound(s, m.round).round_state
           r == Accepted(p, m, s).round_state
           b == m.round
           v == m.v
           a == m.src
<1>1. Here(p, n, g, A, accepts, decided)
  BY InRoundHere
<1>2. /\ m \in Known /\ ShardTypeOK(s) /\ Asked(accepts, m.slot, b, v)
      /\ m.slot = n /\ p \in AliveReplicas
  BY <1>1, MessagesSay DEF Stands, Concerns
<1>3. g.round = b /\ g \in Rounds
  BY <1>2, InRoundType
<1>4. r = ReceiveAccept(g, p, a, b, v) /\ r.round = b /\ r.max_rv # NoRV
  BY <1>2, AcceptedType
<1>5. b \in Proc /\ v \in Uid /\ a \in Proc /\ b \in Int
  BY <1>2, MessageKinds, ProcIsNat DEF AcceptMsg
<1> HIDE DEF r, g, n
<1>6. Here(p, n, r, A, accepts, decided)
  BY <1>1, <1>2, <1>3, <1>4, HereVote
<1>7. r.max_rv.accept_round = b
  <2>1. r.max_rv.accept_round \in Int /\ r.max_rv.accept_round <= b /\ g.max_rv.accept_round \in Int
    BY <1>1, <1>4, <1>6, HereHas
  <2> HIDE DEF a, b, v
  <2>2. r.max_rv = IF g.max_rv.accept_round < b THEN PaxosV(b, v) ELSE g.max_rv
    BY <1>3, <1>4, <1>5, ReceiveAcceptType
  <2>3. PaxosV(b, v).accept_round = b
    BY DEF PaxosV
  <2>4. CASE g.max_rv.accept_round < b
    BY <2>2, <2>3, <2>4
  <2>5. CASE ~(g.max_rv.accept_round < b)
    BY <1>5, <2>1, <2>2, <2>5
  <2> QED BY <2>4, <2>5
<1>8. r.max_rv.v = v
  <2>1. b # None
    BY <1>5, ProcIsNat
  <2>2. Asked(accepts, n, b, r.max_rv.v) /\ OneValue(accepts)
    BY <1>6, <1>7, <2>1, HereHas
  <2> DEFINE x == [slot |-> n, round |-> b, v |-> r.max_rv.v]
             y == [slot |-> n, round |-> b, v |-> v]
  <2>3. x \in accepts /\ y \in accepts
    BY <1>2, <2>2 DEF Asked
  <2>4. x.slot = y.slot /\ x.round = y.round /\ x.v = r.max_rv.v /\ y.v = v
    OBVIOUS
  <2> HIDE DEF x, y
  <2> QED BY <2>2, <2>3, <2>4 DEF OneValue
<1>9. b >= b
  BY <1>5
<1> QED BY <1>2, <1>4, <1>5, <1>6, <1>7, <1>8, <1>9 DEF r, n

\* The Accept handler.
LEMMA AcceptMessageKeeps ==
  ASSUME NEW A, Holds(A), ShardsTypeOK, NEW p \in Proc, NEW chan, Traffic(chan, A),
         NEW s, Stands(p, s, A), NEW m \in A, AcceptMessage(p, m, s, chan)
  PROVE  Keeps(p)
<1> DEFINE n      == Slot(s)
           u      == Accepted(p, m, s)
           r      == u.round_state
           third  == Mode = "MultiPaxos3P" /\ GetCommitter(m.v) = p
           asked  == p # m.round /\ m.src = Coordinator(m.round)
           vote   == [m EXCEPT !.src = p, !.new_value = FALSE]
           out    == IF asked THEN Votes(p, m) ELSE Nothing
           counts == p = m.round \/ third
           tells  == p = m.round \/ m.v.pid # p
           ok     == counts \/ asked
           B      == A \cup {vote}
<1>1. m.type = "Accept" /\ Concerns(p, m, s) /\ p \in AliveReplicas
  BY DEF AcceptMessage, Concerns
<1>2. /\ Here(p, n, r, A, accepts, decided)
      /\ r.round = m.round /\ r.max_rv.accept_round >= r.round
      /\ r.max_rv.v = m.v /\ r.max_rv # NoRV
      /\ Asked(accepts, n, m.round, m.v)
      /\ m.round \in Proc /\ m.v \in Uid /\ m.slot = n
  BY <1>1, AcceptedHere
<1>3. m \in Known /\ ShardTypeOK(s) /\ m \in AcceptMsg
  BY <1>1, <1>2, MessagesSay, MessageKinds DEF Stands
<1>4. SameSlot(s, u)
  BY <1>1, <1>3, AcceptedType
<1>5. \/ PaxosCanCommit(r) /\ Decide(p, u, m.v, FALSE, tells, chan, out)
      \/ Become(p, Panic(u, ok), chan, out) /\ UNCHANGED history
  BY DEF AcceptMessage, Accepted
<1>6. ok \in BOOLEAN /\ tells \in BOOLEAN
  OBVIOUS
<1>7. /\ vote \in Known /\ vote.type = "Accept" /\ vote.src = p /\ vote.slot = n
      /\ vote.round = r.round /\ vote.v = m.v
  <2>1. /\ vote \in AcceptMsg /\ vote.type = "Accept" /\ vote.src = p /\ vote.slot = m.slot
        /\ vote.round = m.round /\ vote.v = m.v
    BY <1>3 DEF AcceptMsg
  <2> QED BY <1>2, <2>1 DEF Known, Message
<1>8. Output(out, B)
  <2>1. vote \in B
    OBVIOUS
  <2> HIDE DEF B
  <2>2. Output(Votes(p, m), B)
    BY <2>1, VotesOutput
  <2> QED BY <2>2, OutputIs
<1> HIDE DEF vote, out, ok, tells, u, n
<1>9. Here(p, n, r, B, accepts, decided)
  BY <1>1, <1>2, <1>7, HereSend
<1>10. B \in SUBSET Known /\ A \subseteq B
  BY <1>9, HereHas
<1> HIDE DEF B
<1>11. CASE PaxosCanCommit(r) /\ Decide(p, u, m.v, FALSE, tells, chan, out)
  <2> DEFINE d == [slot |-> n, v |-> m.v, round |-> r.round, fast |-> FALSE]
  <2>1. Here(p, n, r, B, accepts, decided \cup {d})
    BY <1>2, <1>9, <1>11, HereDecide
  <2> HIDE DEF d
  <2>2. Here(p, n + 1, ClearRound, B, accepts, decided \cup {d})
    BY <2>1, HereCommit
  <2> DEFINE v == m.v
  <2>3. /\ v \in Uid /\ u.round_state.round \in Proc /\ u.round_state.max_rv.v = v
        /\ Decide(p, u, v, FALSE, tells, chan, out)
    BY <1>2, <1>11
  <2>4. Here(p, Slot(s) + 1, ClearRound, B, accepts,
             decided \cup {[slot |-> Slot(s), v |-> v, round |-> u.round_state.round,
                            fast |-> FALSE]})
    BY <2>2 DEF d, n
  <2> HIDE DEF v, d
  <2> QED BY <1>4, <1>8, <1>10, <2>3, <2>4, DecideEnds
<1>12. CASE Become(p, Panic(u, ok), chan, out) /\ UNCHANGED history
  <2>1. SameSlot(s, Panic(u, ok)) /\ Panic(u, ok).round_state = r
    BY <1>4, <1>6, PanicType, SameSlotTransitive DEF SameSlot
  <2>2. accepts' = accepts /\ decided' = decided
    BY <1>12 DEF history
  <2> QED BY <1>2, <1>8, <1>9, <1>10, <1>12, <2>1, <2>2, EndsInSlot DEF n
<1> QED BY <1>5, <1>11, <1>12

\* Any message.
LEMMA ProcessKeeps ==
  ASSUME NEW A, Holds(A), ShardsTypeOK, NEW p \in Proc, NEW chan, Traffic(chan, A),
         NEW s, Stands(p, s, A), NEW m \in A, Process(p, m, s, chan)
  PROVE  Keeps(p)
BY IgnoredKeeps, CommitMessageKeeps, PrepareMessageKeeps, AcceptMessageKeeps DEF Process

-----------------------------------------------------------------------------
(* Proposing *)

\* Round states are their fields.
LEMMA SameRound ==
  ASSUME NEW r \in Rounds, NEW o \in Rounds,
         r.round = o.round, r.max_rv = o.max_rv, r.prepared_set = o.prepared_set,
         r.accepted_set = o.accepted_set, r.fast_answers = o.fast_answers
  PROVE  r = o
BY DEF Rounds, PaxosRoundStates

\* The round a slot starts in.
LEMMA ClearRoundIs ==
  /\ ClearRound \in Rounds /\ ClearRound.round = StartingRound /\ ClearRound.max_rv = NoRV
  /\ ClearRound.prepared_set = {} /\ ClearRound.accepted_set = {}
  /\ ClearRound.fast_answers = {}
BY ClearRoundType DEF ClearRound, ClearPaxosRound

\* The leader of Multi-Paxos needs no promise: the round is its own.
LEMMA LeadsHere ==
  ASSUME NEW p \in AliveReplicas, NEW n, NEW A, NEW acc, NEW dec,
         Here(p, n, ClearRound, A, acc, dec), NEW v \in Uid, IsMultiPaxos, p = StartingRound
  PROVE  LET k == SelfAccept(Went(ClearRound, p, v), p, p)
         IN  /\ Here(p, n, k, A, acc \cup {[slot |-> n, round |-> p, v |-> v]}, dec)
             /\ k \in Rounds /\ k.round = p /\ k.max_rv = PaxosV(p, v)
<1> DEFINE c == ClearRound
           g == GotoRound(c, p)
           rv == OwnV(p, v)
           w == Went(c, p, v)
           k == SelfAccept(w, p, p)
<1>1. p \in Proc /\ p \in OptProc /\ p \in Int
  BY ReplicasAreProcs, ProcIsNat DEF OptProc
<1>2. Mode # "EPaxos" /\ Coordinator(p) = p
  BY DEF IsMultiPaxos, Coordinator
<1>3. c \in Rounds /\ c.round = p /\ c.max_rv = NoRV
  BY ClearRoundIs
<1>4. g = c
  <2>1. /\ g \in Rounds /\ g.round = p /\ g.max_rv = c.max_rv /\ g.prepared_set = {}
        /\ g.accepted_set = {} /\ g.fast_answers = c.fast_answers
    BY <1>1, <1>3, GotoRoundType
  <2> HIDE DEF g
  <2> QED BY <1>3, <2>1, ClearRoundIs, SameRound
<1>5. rv \in Rvs /\ rv.accept_round = None /\ rv.v = v
  BY <1>1, OwnVType
<1>6. w = PaxosProposeV(c, p, rv)
  BY <1>2, <1>4 DEF Went
<1>7. w \in Rounds /\ w.round = p /\ w.max_rv = rv /\ w.max_rv # NoRV
  BY <1>1, <1>3, WentType
<1> HIDE DEF c, g, w, rv
<1>8. Here(p, n, w, A, acc, dec)
  <2>1. Here(p, n, c, A, acc, dec)
    BY DEF c
  <2>2. Here(p, n, PaxosProposeV(c, p, rv), A, acc, dec)
    BY <1>3, <1>5, <2>1, HerePrompt DEF rv
  <2> QED BY <1>6, <2>2
<1>9. w.max_rv.accept_round < p /\ w.max_rv.v = v
  BY <1>1, <1>5, <1>7, ProcIsNat
<1>10. /\ Here(p, n, k, A, acc \cup {[slot |-> n, round |-> p, v |-> w.max_rv.v]}, dec)
       /\ k \in Rounds /\ k.round = p /\ k.max_rv = PaxosV(p, w.max_rv.v)
  BY <1>1, <1>2, <1>7, <1>8, <1>9, HereLead
<1> QED BY <1>9, <1>10 DEF k, w, c

\* In the other modes a proposer goes to its own round and promises it.
LEMMA WentHere ==
  ASSUME NEW p \in AliveReplicas, NEW n, NEW A, NEW acc, NEW dec,
         Here(p, n, ClearRound, A, acc, dec), NEW v \in Uid, ~IsMultiPaxos
  PROVE  LET w == Went(ClearRound, p, v)
         IN  /\ Here(p, n, w, A, acc, dec)
             /\ w \in Rounds /\ w.round = p /\ w.max_rv = OwnV(p, v) /\ w.max_rv # NoRV
<1> DEFINE c == ClearRound
           g == GotoRound(c, p)
           rv == OwnV(p, v)
           w == Went(c, p, v)
           u == PaxosProposeV(g, p, rv)
           x == EPaxosAnswered(u, p, p, v)
<1>1. p \in Proc /\ p \in OptProc /\ p \in Int
  BY ReplicasAreProcs, ProcIsNat DEF OptProc
<1>2. c \in Rounds /\ c.max_rv = NoRV /\ c.fast_answers = {}
  BY ClearRoundIs
<1>3. p > c.round
  BY <1>1, ClearRoundIs, ProcIsNat DEF StartingRound
<1>4. Here(p, n, g, A, acc, dec)
  BY <1>1, <1>3, HereGoto
<1>5. /\ g \in Rounds /\ g.round = p /\ g.max_rv = NoRV /\ g.prepared_set = {}
      /\ g.accepted_set = {} /\ g.fast_answers = {}
  BY <1>1, <1>2, GotoRoundType
<1>6. rv \in Rvs /\ (Mode = "EPaxos" => rv = FastV(p, v))
  BY <1>1, OwnVType DEF OwnV
<1>7. /\ w \in Rounds /\ w.round = p /\ w.max_rv = rv /\ w.max_rv # NoRV
      /\ w.prepared_set = Counting({}, p, p) /\ w.accepted_set = {}
      /\ Mode = "EPaxos" => w.fast_answers = {[src |-> p, proposer |-> p, v |-> v]}
  BY <1>1, <1>2, WentType
<1>8. Mode # "EPaxos" => w = u
  BY DEF Went
<1> HIDE DEF c, w, rv
<1>9. Here(p, n, u, A, acc, dec)
  <2> HIDE DEF g
  <2> QED BY <1>4, <1>5, <1>6, HerePrompt DEF rv
<1>10. /\ u \in Rounds /\ u.round = p /\ u.max_rv = rv /\ u.prepared_set = Counting({}, p, p)
       /\ u.accepted_set = {} /\ u.fast_answers = {}
  <2>1. LET o == ReceivePromise(g, p, p, rv)
        IN  /\ o \in Rounds /\ o.round = g.round
            /\ o.max_rv = IF g.max_rv = NoRV \/ g.max_rv.accept_round < rv.accept_round
                          THEN rv ELSE g.max_rv
            /\ o.prepared_set = Counting(g.prepared_set, p, p)
            /\ o.accepted_set = g.accepted_set /\ o.fast_answers = g.fast_answers
    <3>1. g \in Rounds /\ p \in Proc /\ rv \in Rvs
      BY <1>1, <1>5, <1>6
    <3> HIDE DEF g
    <3> QED BY <3>1, ReceivePromiseType
  <2>2. u = ReceivePromise(g, p, p, rv)
    BY DEF PaxosProposeV
  <2> HIDE DEF g, u
  <2> QED BY <1>5, <2>1, <2>2
<1> HIDE DEF g, u
<1>11. CASE Mode = "EPaxos"
  <2>1. p \in u.prepared_set
    BY <1>10 DEF Counting
  <2>2. p <= p
    BY <1>1
  <2>3. Here(p, n, x, A, acc, dec)
    BY <1>1, <1>6, <1>9, <1>10, <1>11, <2>1, <2>2, HereAnswer
  <2>4. /\ x \in Rounds /\ x.round = p /\ x.max_rv = rv
        /\ x.prepared_set = Counting({}, p, p) /\ x.accepted_set = {}
        /\ x.fast_answers = {[src |-> p, proposer |-> p, v |-> v]}
    BY <1>1, <1>10, AnsweredType
  <2> HIDE DEF x
  <2>5. x = w
    BY <1>7, <1>11, <2>4, SameRound
  <2> QED BY <1>7, <2>3, <2>5 DEF w, c, rv
<1>12. CASE Mode # "EPaxos"
  BY <1>7, <1>8, <1>9, <1>12 DEF w, c, rv
<1> QED BY <1>11, <1>12

\* A replica with no value in its slot proposes, in Multi-Paxos the leader alone.
LEMMA ProposeKeeps ==
  ASSUME NEW A, Holds(A), ShardsTypeOK, NEW p \in AliveReplicas,
         NEW s, Stands(p, s, A), s.round_state.max_rv = NoRV,
         IsMultiPaxos => p = StartingRound,
         NEW v \in Uid, NEW newValue \in BOOLEAN, Propose(p, s, v, newValue)
  PROVE  Keeps(p)
<1> DEFINE n  == Slot(s)
           w  == Went(ClearRound, p, v)
           k  == SelfAccept(w, p, p)
           rv == OwnV(p, v)
           ok == Fine(ClearRound, p)
           accept  == [type |-> "Accept", slot |-> n, src |-> p,
                       round |-> p, v |-> v, new_value |-> newValue]
           prepare == [type |-> "Prepare", slot |-> n, src |-> p,
                       round |-> p, rv |-> rv, new_value |-> newValue]
           leads   == Panic([s EXCEPT !.round_state = k], ok)
           starts  == Panic([s EXCEPT !.round_state = w], ok)
           acc     == accepts \cup {[slot |-> n, round |-> p, v |-> v]}
<1>1. s.round_state = ClearRound /\ Here(p, n, ClearRound, A, accepts, decided)
  BY ReplicasAreProcs, StandsHere DEF ShardOK
<1>2. /\ ShardTypeOK(s) /\ n \in Nat /\ p \in Proc /\ p \in Int /\ Traffic(net, A)
      /\ rv \in Rvs /\ rv.accept_round = None
  BY ReplicasAreProcs, SlotType, ProcIsNat, OwnVType DEF Stands, Holds
<1>3. accept \in Known /\ prepare \in Known
  BY <1>2, AcceptKnown, PrepareKnown
<1>4. \/ /\ IsMultiPaxos /\ Become(p, leads, net, ToReplicas(p, Proc, accept))
         /\ accepts' = acc /\ UNCHANGED decided
      \/ /\ ~IsMultiPaxos /\ Become(p, starts, net, ToReplicas(p, Proc, prepare))
         /\ UNCHANGED history
  BY <1>1, ProposeCases
<1>5. ok \in BOOLEAN
  BY DEF Fine, ProposeAsserts, ProposeVAsserts
<1>6. /\ accept.type = "Accept" /\ accept.src = p /\ accept.slot = n /\ accept.round = p
      /\ accept.v = v
      /\ prepare.type = "Prepare" /\ prepare.src = p /\ prepare.slot = n /\ prepare.round = p
      /\ prepare.rv = rv
  OBVIOUS
<1>7. Asked(acc, n, p, v)
  BY DEF Asked
<1> HIDE DEF ok, accept, prepare, rv
<1>8. ASSUME NEW r \in Rounds
      PROVE  LET t == Panic([s EXCEPT !.round_state = r], ok)
             IN  SameSlot(s, t) /\ t.round_state = r
  <2> DEFINE t == [s EXCEPT !.round_state = r]
  <2>1. SameSlot(s, t) /\ t.round_state = r
    BY <1>2, ShardUpdate
  <2> HIDE DEF t
  <2>2. SameSlot(s, Panic(t, ok)) /\ Panic(t, ok).round_state = r
    BY <1>5, <2>1, PanicType, SameSlotTransitive DEF SameSlot
  <2> QED BY <2>2 DEF t
<1>9. CASE /\ IsMultiPaxos /\ Become(p, leads, net, ToReplicas(p, Proc, accept))
           /\ accepts' = acc /\ UNCHANGED decided
  <2> DEFINE B == A \cup {accept}
  <2>1. /\ Here(p, n, k, A, acc, decided)
        /\ k \in Rounds /\ k.round = p /\ k.max_rv = PaxosV(p, v)
        /\ accepts \subseteq acc
    BY <1>1, <1>9, LeadsHere
  <2> HIDE DEF k, acc
  <2>2. k.max_rv.accept_round >= p /\ k.max_rv # NoRV
    BY <1>2, <2>1, ProcIsNat DEF PaxosV, NoRV
  <2>3. SameSlot(s, leads) /\ leads.round_state = k
    BY <1>8, <2>1
  <2> HIDE DEF leads, n
  <2>4. Here(p, n, k, B, acc, decided)
    BY <1>2, <1>3, <1>6, <1>7, <2>1, <2>2, HereSend
  <2>5. B \in SUBSET Known /\ A \subseteq B /\ Output(ToReplicas(p, Proc, accept), B)
    BY <1>2, <2>4, HereHas, OutputIs
  <2>6. accepts' = acc /\ accepts \subseteq accepts' /\ decided' = decided
    BY <1>9, <2>1
  <2> HIDE DEF B
  <2> QED BY <1>2, <1>9, <2>2, <2>3, <2>4, <2>5, <2>6, EndsInSlot DEF n
<1>10. CASE /\ ~IsMultiPaxos /\ Become(p, starts, net, ToReplicas(p, Proc, prepare))
            /\ UNCHANGED history
  <2> DEFINE B == A \cup {prepare}
  <2>1. /\ Here(p, n, w, A, accepts, decided)
        /\ w \in Rounds /\ w.round = p /\ w.max_rv = rv /\ w.max_rv # NoRV
    BY <1>1, <1>10, WentHere DEF rv
  <2> HIDE DEF w
  <2>2. w.max_rv.accept_round < p
    BY <1>2, <2>1, ProcIsNat
  <2>3. SameSlot(s, starts) /\ starts.round_state = w
    BY <1>8, <2>1
  <2> HIDE DEF starts, n
  <2>4. Here(p, n, w, B, accepts, decided)
    BY <1>2, <1>3, <1>6, <1>10, <2>1, <2>2, HereSend
  <2>5. B \in SUBSET Known /\ A \subseteq B /\ Output(ToReplicas(p, Proc, prepare), B)
    BY <1>2, <2>4, HereHas, OutputIs
  <2>6. accepts' = accepts /\ decided' = decided
    BY <1>10 DEF history
  <2> HIDE DEF B
  <2> QED BY <1>2, <1>10, <2>1, <2>3, <2>4, <2>5, <2>6, EndsInSlot DEF n
<1> QED BY <1>4, <1>9, <1>10

-----------------------------------------------------------------------------
(* The main loop *)

\* What a handler may start from after commands were stored or the scan moved.
LEMMA StandsStill ==
  ASSUME NEW A, NEW p, NEW s, Stands(p, s, A), NEW t, SameSlot(s, t),
         t.round_state = s.round_state
  PROVE  Stands(p, t, A)
BY DEF Stands, SameSlot

\* The shard itself.
LEMMA ShardStands ==
  ASSUME NEW A, Holds(A), ShardsTypeOK, NEW p \in Proc
  PROVE  Stands(p, shard[p], A)
BY DEF Holds, ShardOK, ShardsTypeOK, Stands

\* A value is proposed, or left to others.
LEMMA ProposeStartKeeps ==
  ASSUME NEW A, Holds(A), ShardsTypeOK, NEW p \in Proc, NEW s, Stands(p, s, A),
         NEW v \in Uid, NEW contention, ~contention => s.round_state.max_rv = NoRV,
         ProposeStart(p, s, v, contention)
  PROVE  Keeps(p)
<1> DEFINE t == StoreNewCommand(s, v)
           m == [type |-> "ForwardRequest", v |-> v]
           out == ToOthers(p, Proc, m)
           B == A \cup {m}
<1>1. SameSlot(s, t) /\ t.round_state = s.round_state
  BY StoreNewCommandType DEF Stands
<1>2. Stands(p, t, A)
  BY <1>1, StandsStill
<1>3. m \in Known /\ m.type = "ForwardRequest"
  BY ForwardKnown
<1>4. \/ Become(p, t, net, out) /\ UNCHANGED history
      \/ ~Forwards(p, s, contention) /\ Propose(p, t, v, TRUE)
  BY DEF ProposeStart
<1> HIDE DEF t, m, out
<1>5. CASE Become(p, t, net, out) /\ UNCHANGED history
  <2>1. Here(p, Slot(t), t.round_state, A, accepts, decided) /\ ShardOK(t, A, decided)
    BY <1>2, StandsHere
  <2>2. Here(p, Slot(t), t.round_state, B, accepts, decided)
    <3>1. m.type \notin {"Accept", "Prepare", "Commit"}
      BY <1>3
    <3> QED BY <1>3, <2>1, <3>1, HereSend
  <2>3. B \in SUBSET Known /\ A \subseteq B /\ Output(out, B) /\ Traffic(net, A)
    BY <2>2, HereHas, OutputIs DEF Holds, out
  <2>4. accepts' = accepts /\ decided' = decided
    BY <1>5 DEF history
  <2>5. ShardOK(t, B, decided')
    BY <2>1, <2>3, <2>4, SeqOfMore DEF ShardOK
  <2>6. Moved(p, Slot(t), t.round_state)
    BY <1>2, <2>1, StandsHere DEF Here, Onward, Moved
  <2> HIDE DEF B
  <2> QED BY <1>2, <1>5, <2>2, <2>3, <2>4, <2>5, <2>6, Ends DEF Stands
<1>6. CASE ~Forwards(p, s, contention) /\ Propose(p, t, v, TRUE)
  <2>1. p \in AliveReplicas /\ ~contention /\ (IsMultiPaxos => GetLeader(s) = p)
    BY <1>6 DEF Forwards
  <2>2. IsMultiPaxos => p = StartingRound
    BY <2>1, GetLeaderType
  <2> QED BY <1>1, <1>2, <1>6, <2>1, <2>2, ProposeKeeps
<1> QED BY <1>4, <1>5, <1>6

\* A message is received.
LEMMA ReceiveKeeps ==
  ASSUME NEW A, Holds(A), ShardsTypeOK, NEW p \in Proc, NEW q \in Proc, Receive(p, q)
  PROVE  Keeps(p)
<1> DEFINE m      == Head(net[q][p])
           chan   == [net EXCEPT ![q][p] = Tail(@)]
           stored == StoreRemoteCommand(shard[p], m)
           ok     == StoreAsserts(shard[p], m) /\ ReadyAsserts(stored, m)
           s      == Panic(stored, ok)
           more   == IF CarriesValue(m) THEN 1 ELSE 0
           s1     == [s EXCEPT !.scan = more]
           held   == Append(s.queued_messages, m)
           s2     == [s EXCEPT !.queued_messages = held]
<1>1. Stands(p, shard[p], A) /\ A \in SUBSET Known
  <2>1. Stands(p, shard[p], A)
    BY ShardStands
  <2> QED BY <2>1, StandsHere, HereHas
<1>2. net[q][p] \in Seq(A) /\ net[q][p] # <<>> /\ net \in [Proc -> [Proc -> Seq(A)]]
  BY DEF Receive, Holds, Traffic
<1>3. m \in A /\ Tail(net[q][p]) \in Seq(A) /\ m \in Known
  BY <1>1, <1>2
<1>4. Traffic(chan, A)
  BY <1>2, <1>3 DEF Traffic
<1>5. \/ Process(p, m, s1, chan)
      \/ Become(p, s2, chan, Nothing) /\ UNCHANGED history
  BY DEF Receive
<1> HIDE DEF m, chan
<1>6. Stands(p, stored, A)
  BY <1>1, <1>3, StoreRemoteCommandType, StandsStill DEF Stands
<1>7. ok \in BOOLEAN
  OBVIOUS
<1> HIDE DEF stored, ok
<1>8. Stands(p, s, A)
  BY <1>6, <1>7, PanicType, StandsStill DEF Stands
<1>9. more \in Nat
  OBVIOUS
<1> HIDE DEF s, more
<1>10. Stands(p, s1, A)
  BY <1>8, <1>9, ShardUpdate, StandsStill DEF Stands
<1>11. held \in Seq(A) /\ held \in Seq(Known)
  BY <1>1, <1>3, <1>8 DEF Stands
<1> HIDE DEF held, s1
<1>12. Stands(p, s2, A)
  BY <1>8, <1>11, ShardUpdate DEF Stands
<1> HIDE DEF s2
<1>13. CASE Process(p, m, s1, chan)
  BY <1>3, <1>4, <1>10, <1>13, ProcessKeeps
<1>14. CASE Become(p, s2, chan, Nothing) /\ UNCHANGED history
  BY <1>4, <1>12, <1>14, EndsThere
<1> QED BY <1>5, <1>13, <1>14

\* A client submits a command.
LEMMA ClientCommandKeeps ==
  ASSUME NEW A, Holds(A), ShardsTypeOK, NEW p \in Proc, ClientCommand(p)
  PROVE  Keeps(p)
<1> DEFINE old == shard[p]
           v   == NewCommand(p, old.next_uid)
           k   == Len(old.queued_messages) + 1
           s   == [old EXCEPT !.scan = k]
           contention == Ongoing(old) \/ old.queued_messages # <<>> \/ old.queued_commands # {}
<1>1. Stands(p, old, A) /\ ShardTypeOK(old)
  BY ShardStands DEF ShardsTypeOK
<1>2. v \in Uid /\ k \in Nat
  BY <1>1, NewCommandType DEF ShardTypeOK, Shards
<1>3. ProposeStart(p, s, v, contention)
  BY DEF ClientCommand
<1>4. ~contention => old.round_state.max_rv = NoRV
  BY DEF Ongoing
<1> HIDE DEF old, v, k, contention
<1>5. Stands(p, s, A) /\ s.round_state = old.round_state
  BY <1>1, <1>2, ShardUpdate, StandsStill
<1> HIDE DEF s
<1> QED BY <1>2, <1>3, <1>4, <1>5, ProposeStartKeeps

\* A held message is handled.
LEMMA ProcessHeldKeeps ==
  ASSUME NEW A, Holds(A), ShardsTypeOK, NEW p \in Proc, ProcessHeld(p)
  PROVE  Keeps(p)
<1>1. PICK i \in ReadyHeld(p) :
        /\ \A j \in ReadyHeld(p) : i <= j
        /\ Process(p, shard[p].queued_messages[i],
                   [shard[p] EXCEPT !.queued_messages = RemoveAt(@, i), !.scan = i], net)
  BY ZenonT(60) DEF ProcessHeld
<1> DEFINE h == shard[p].queued_messages
           rest == RemoveAt(h, i)
           t == [shard[p] EXCEPT !.queued_messages = rest]
           s == [t EXCEPT !.scan = i]
<1>2. Stands(p, shard[p], A) /\ ShardTypeOK(shard[p]) /\ h \in Seq(A) /\ Traffic(net, A)
  BY ShardStands DEF ShardsTypeOK, Stands, Holds
<1>3. i \in 1 .. Len(h) /\ h[i] \in A /\ i \in Nat
  BY <1>2 DEF ReadyHeld
<1>4. rest \in Seq(A)
  <2>1. SubSeq(h, 1, i - 1) \in Seq(A) /\ SubSeq(h, i + 1, Len(h)) \in Seq(A)
    BY <1>2, <1>3
  <2> QED BY <2>1 DEF RemoveAt
<1>5. s = [shard[p] EXCEPT !.queued_messages = RemoveAt(@, i), !.scan = i]
  BY <1>2 DEF ShardTypeOK, Shards
<1> HIDE DEF rest
<1>6. Stands(p, t, A)
  <2>1. A \subseteq Known
    BY <1>2, StandsHere, HereHas
  <2>2. rest \in Seq(Known)
    BY <1>4, <2>1, SeqOfMore
  <2> QED BY <1>2, <1>4, <2>2, ShardUpdate DEF Stands
<1> HIDE DEF t, h
<1>7. Stands(p, s, A)
  BY <1>3, <1>6, ShardUpdate, StandsStill DEF Stands
<1>8. Process(p, h[i], s, net)
  BY <1>1, <1>5 DEF h
<1> HIDE DEF s
<1> QED BY <1>2, <1>3, <1>7, <1>8, ProcessKeeps

\* Leftovers are proposed, or the loop waits.
LEMMA ReproposeKeeps ==
  ASSUME NEW A, Holds(A), ShardsTypeOK, NEW p \in Proc, Repropose(p)
  PROVE  Keeps(p)
<1> DEFINE s == [shard[p] EXCEPT !.scan = 0]
           batch == BatchOf(s, p)
<1>1. Stands(p, shard[p], A)
  BY ShardStands
<1>2. Stands(p, s, A)
  BY <1>1, ShardUpdate, StandsStill DEF Stands
<1>3. \/ MustRepropose(p, s) /\ ProposeStart(p, s, batch, FALSE)
      \/ MustRepropose(p, s) /\ \E v \in QueuedSingles(s) : Propose(p, s, v, FALSE)
      \/ Become(p, s, net, Nothing) /\ UNCHANGED history
  BY DEF Repropose
<1> HIDE DEF s
<1>4. batch \in Uid /\ QueuedSingles(s) \subseteq Uid
  BY <1>2, BatchOfType, QueuedSinglesType DEF Stands
<1> HIDE DEF batch
<1>5. MustRepropose(p, s) =>
        /\ s.round_state.max_rv = NoRV /\ p \in AliveReplicas
        /\ IsMultiPaxos => p = StartingRound
  <2>1. MustRepropose(p, s) => s.round_state.max_rv = NoRV /\ GetLeader(s) = p
    BY DEF MustRepropose, Ongoing
  <2> QED BY <2>1, GetLeaderType
<1>6. CASE MustRepropose(p, s) /\ ProposeStart(p, s, batch, FALSE)
  BY <1>2, <1>4, <1>5, <1>6, ProposeStartKeeps
<1>7. ASSUME MustRepropose(p, s), NEW v \in QueuedSingles(s), Propose(p, s, v, FALSE)
      PROVE  Keeps(p)
  BY <1>2, <1>4, <1>5, <1>7, ProposeKeeps
<1>8. CASE Become(p, s, net, Nothing) /\ UNCHANGED history
  <2>1. Traffic(net, A)
    BY DEF Holds
  <2> QED BY <1>2, <1>8, <2>1, EndsThere
<1> QED BY <1>3, <1>6, <1>7, <1>8

-----------------------------------------------------------------------------
(* The invariant is inductive *)

\* Nothing was sent, asked for or decided at first.
LEMMA InitInv == Init => Inv
<1> SUFFICES ASSUME Init PROVE Inv
  OBVIOUS
<1> DEFINE c == ClearRound
           S == [p \in Proc |-> 0]
           R == [p \in Proc |-> c]
<1>1. \A p \in Proc : /\ shard[p].log = <<>> /\ shard[p].queued_messages = <<>>
                      /\ shard[p].round_state = c
  BY DEF Init, NewShard
<1>2. Slots = S /\ RoundsOf = R
  BY <1>1 DEF Slots, RoundsOf, Slot
<1>3. /\ c \in Rounds /\ c.round = StartingRound /\ c.max_rv = NoRV
      /\ c.prepared_set = {} /\ c.accepted_set = {} /\ c.fast_answers = {}
      /\ StartingRound \in Int /\ None <= StartingRound
  BY ClearRoundIs, StartingRoundType, ProcIsNat
<1>4. c.max_rv.accept_round = None /\ c.max_rv.proposer = None
  BY <1>3 DEF NoRV
<1> HIDE DEF c
<1>5. \A p \in Proc : S[p] = 0 /\ R[p] = c /\ Ar(R, p) = None
  BY <1>4 DEF Ar
<1>6. Traffic(net, {})
  BY DEF Traffic, Init, Nothing
<1>7. \A p \in Proc : ShardOK(shard[p], {}, decided)
  <2> SUFFICES ASSUME NEW p \in Proc PROVE ShardOK(shard[p], {}, decided)
    OBVIOUS
  <2>1. <<>> \in Seq({}) /\ \A i \in DOMAIN <<>> : FALSE
    OBVIOUS
  <2>2. shard[p].round_state = ClearRound
    BY <1>1 DEF c
  <2>3. \A i \in DOMAIN shard[p].log : FALSE
    BY <1>1, <2>1
  <2> QED BY <1>1, <2>1, <2>2, <2>3 DEF ShardOK
<1>8. accepts = {} /\ decided = {}
  BY DEF Init
<1>9. Base(S, R, {}, {}, {})
  <2>1. TypesOK(S, R, {}) /\ HistoryOK({}, {})
    BY <1>3 DEF TypesOK, HistoryOK
  <2> HIDE DEF S, R
  <2>2. RoundsOK(S, R, {})
    BY <1>3, <1>5 DEF RoundsOK
  <2>3. VotesKept(S, R, {}) /\ VowsKept(S, R, {})
    BY <1>3, <1>5 DEF VotesKept, VowsKept, Vote, Vow
  <2>4. MessagesOK({}, {}, {})
    BY DEF MessagesOK, AcceptsOK, PreparesOK, CommitsOK
  <2>5. /\ Led(S, R, {}) /\ OneValue({}) /\ Safe(S, R, {}, {})
        /\ Locked(S, R, {}, {}, {}) /\ SlowKept({}, {})
    BY DEF Led, OneValue, Safe, Locked, SlowKept
  <2> QED BY <2>1, <2>2, <2>3, <2>4, <2>5 DEF Base
<1>10. Fast(S, R, {}, {}, {})
  <2> HIDE DEF S, R
  <2>1. \A a, q \in Proc, n \in Nat, v \in Uid : ~Says(S, R, {}, a, n, q, v)
    BY <1>3, <1>5, FastVIs DEF Says
  <2>2. Words(S, R, {})
    BY <2>1 DEF Words
  <2>3. Bounded(R, {}) /\ Answers(R)
    BY <1>3, <1>4, <1>5 DEF Bounded, Answers
  <2>4. FastDecided(S, R, {}, {}) /\ FastAsked(S, R, {}, {}) /\ FastAlone({}, {})
    BY DEF FastDecided, FastAsked, FastAlone
  <2> QED BY <2>2, <2>3, <2>4 DEF Fast
<1>11. Good(Slots, RoundsOf, {}, accepts, decided)
  BY <1>2, <1>8, <1>9, <1>10 DEF Good
<1>12. Holds({})
  BY <1>6, <1>7, <1>11 DEF Holds
<1> QED BY <1>12 DEF Inv

\* A step of any process keeps it.
LEMMA StepKeeps ==
  ASSUME Inv, ShardsTypeOK, NEW p \in Proc, Step(p)
  PROVE  Keeps(p)
<1>1. PICK A \in SUBSET Known : Holds(A)
  BY DEF Inv
<1>2. CASE ClientCommand(p)
  BY <1>1, <1>2, ClientCommandKeeps
<1>3. CASE \E q \in Proc : Receive(p, q)
  BY <1>1, <1>3, ReceiveKeeps
<1>4. CASE ProcessHeld(p)
  BY <1>1, <1>4, ProcessHeldKeeps
<1>5. CASE Repropose(p)
  BY <1>1, <1>5, ReproposeKeeps
<1> QED BY <1>2, <1>3, <1>4, <1>5 DEF Step

\* So does stuttering.
LEMMA UnchangedKeeps == Inv /\ UNCHANGED vars => Inv'
BY DEF Inv, Holds, Slots, RoundsOf, vars

\* So does any step of the system.
LEMMA NextKeeps == Inv /\ Typed /\ [Next]_vars => Inv'
<1> SUFFICES ASSUME Inv, Typed, [Next]_vars PROVE Inv'
  OBVIOUS
<1>1. CASE \E p \in Proc : Step(p)
  BY <1>1, StepKeeps DEF Typed, HandlersTypeOK, Keeps
<1>2. CASE UNCHANGED vars
  BY <1>2, UnchangedKeeps
<1> QED BY <1>1, <1>2 DEF Next, Terminated

\* Inv always holds.
LEMMA AlwaysInv == Spec => []Inv
BY AlwaysTyped, InitInv, NextKeeps, PTL DEF Spec

-----------------------------------------------------------------------------
(* What follows *)

\* The decisions of a slot agree, and no later round's leader asks for anything
\* else.
LEMMA DecisionsAgree ==
  ASSUME NEW S, NEW R, NEW A, NEW acc, NEW dec, Good(S, R, A, acc, dec)
  PROVE  /\ \A d, e \in dec : d.slot = e.slot => d.v = e.v
         /\ \A d \in dec : \A a \in acc : a.slot = d.slot /\ a.round > d.round => a.v = d.v
<1>1. /\ HistoryOK(acc, dec) /\ Locked(S, R, A, acc, dec) /\ SlowKept(acc, dec)
      /\ FastAlone(acc, dec)
  BY DEF Good, Base, Fast
<1>2. \A d \in dec : d.round \in Int
  BY <1>1, ProcIsNat DEF HistoryOK
<1>3. \A a \in acc : a.round \in Int
  BY <1>1, ProcIsNat DEF HistoryOK
<1>4. \A d \in dec : ~d.fast =>
        \E x \in acc : x.slot = d.slot /\ x.round = d.round /\ x.v = d.v
  <2> SUFFICES ASSUME NEW d \in dec, ~d.fast
               PROVE  \E x \in acc : x.slot = d.slot /\ x.round = d.round /\ x.v = d.v
    OBVIOUS
  <2> DEFINE x == [slot |-> d.slot, round |-> d.round, v |-> d.v]
  <2>1. x \in acc /\ x.slot = d.slot /\ x.round = d.round /\ x.v = d.v
    BY <1>1 DEF Locked, Asked
  <2> QED BY <2>1
<1>5. \A d, e \in dec : d.slot = e.slot /\ d.fast => d.v = e.v
  BY <1>1, <1>4 DEF FastAlone
<1>6. \A d, e \in dec : d.slot = e.slot /\ ~d.fast /\ ~e.fast /\ e.round >= d.round => d.v = e.v
  BY <1>1, <1>4 DEF SlowKept
<1>7. ASSUME NEW d \in dec, NEW e \in dec, d.slot = e.slot
      PROVE  d.v = e.v
  <2>1. CASE d.fast \/ e.fast
    BY <1>5, <1>7, <2>1
  <2>2. CASE ~d.fast /\ ~e.fast
    BY <1>2, <1>6, <1>7, <2>2
  <2> QED BY <2>1, <2>2
<1>8. ASSUME NEW d \in dec, NEW a \in acc, a.slot = d.slot, a.round > d.round
      PROVE  a.v = d.v
  <2>1. CASE d.fast
    BY <1>1, <1>8, <2>1 DEF FastAlone
  <2>2. CASE ~d.fast
    <3>1. a.round >= d.round
      BY <1>2, <1>3, <1>8
    <3> QED BY <1>1, <1>8, <2>2, <3>1 DEF SlowKept
  <2> QED BY <2>1, <2>2
<1> QED BY <1>7, <1>8

\* The invariant implies what is wanted of the states.
LEMMA InvImplies == Inv => LaterRoundsKeepDecision /\ Agreement /\ IdleIsClear
<1> SUFFICES ASSUME Inv PROVE LaterRoundsKeepDecision /\ Agreement /\ IdleIsClear
  OBVIOUS
<1>1. PICK A \in SUBSET Known : Holds(A)
  BY DEF Inv
<1>2. Good(Slots, RoundsOf, A, accepts, decided)
  BY <1>1 DEF Holds
<1>3. LaterRoundsKeepDecision
  BY <1>2, DecisionsAgree DEF LaterRoundsKeepDecision
<1>4. Agreement
  <2> SUFFICES ASSUME NEW p \in Proc, NEW q \in Proc,
                      NEW i \in DOMAIN Log(p) \cap DOMAIN Log(q)
               PROVE  Log(p)[i].v = Log(q)[i].v
    BY DEF Agreement
  <2>1. PICK d \in decided : d.slot = i - 1 /\ d.v = Log(p)[i].v
    BY <1>1 DEF Holds, ShardOK, Log
  <2>2. PICK e \in decided : e.slot = i - 1 /\ e.v = Log(q)[i].v
    BY <1>1 DEF Holds, ShardOK, Log
  <2> QED BY <1>2, <2>1, <2>2, DecisionsAgree
<1>5. IdleIsClear
  BY <1>1 DEF Holds, ShardOK, IdleIsClear, Idle, Ongoing, Round
<1> QED BY <1>3, <1>4, <1>5

-----------------------------------------------------------------------------
(* What a step may do *)

\* Somebody moves, or nobody.
LEMMA StepAdvances ==
  ASSUME Inv, Typed, [Next]_vars
  PROVE  Inv' /\ (UNCHANGED vars \/ \E p \in Proc : Advance(p))
<1>1. Inv'
  BY NextKeeps
<1>2. CASE \E p \in Proc : Step(p)
  BY <1>2, StepKeeps DEF Typed, HandlersTypeOK, Keeps
<1>3. CASE UNCHANGED vars
  BY <1>1, <1>3
<1> QED BY <1>1, <1>2, <1>3 DEF Next, Terminated

\* A process that voted in a round has recorded what the round's leader asked
\* for, and that is one value.
LEMMA SameRoundSameValue ==
  ASSUME NEW S, NEW R, NEW A, NEW acc, NEW dec, Good(S, R, A, acc, dec),
         NEW S2, NEW R2, NEW A2, NEW acc2, NEW dec2, Good(S2, R2, A2, acc2, dec2),
         acc \subseteq acc2, NEW p \in Proc, S2[p] = S[p], Ar(R2, p) = Ar(R, p)
  PROVE  R2[p].max_rv.v = R[p].max_rv.v \/ Ar(R, p) = None
<1> SUFFICES ASSUME Ar(R, p) # None PROVE R2[p].max_rv.v = R[p].max_rv.v
  OBVIOUS
<1> DEFINE n == S[p]
           b == Ar(R, p)
           v == R[p].max_rv.v
           w == R2[p].max_rv.v
           x == [slot |-> n, round |-> b, v |-> v]
           y == [slot |-> n, round |-> b, v |-> w]
<1>1. Asked(acc, n, b, v)
  BY DEF Good, Base, RoundsOK
<1>2. Asked(acc2, n, b, w)
  BY DEF Good, Base, RoundsOK
<1> HIDE DEF n, b, v, w
<1>3. x \in acc2 /\ y \in acc2
  BY <1>1, <1>2 DEF Asked
<1>4. x.slot = y.slot /\ x.round = y.round /\ x.v = v /\ y.v = w
  OBVIOUS
<1> HIDE DEF x, y
<1>5. v = w
  BY <1>3, <1>4 DEF Good, Base, OneValue
<1> QED BY <1>5 DEF v, w

\* No step takes a process back in its slot.
LEMMA StepKeepsRounds ==
  ASSUME Inv, Typed, [Next]_vars, NEW p \in Proc, Slots'[p] = Slots[p]
  PROVE  LET r == RoundsOf[p]
             n == RoundsOf'[p]
         IN  /\ n.round >= r.round
             /\ n.max_rv.accept_round >= r.max_rv.accept_round
             /\ n.max_rv.accept_round <= n.round
             /\ n.max_rv.accept_round = r.max_rv.accept_round =>
                  n.max_rv.v = r.max_rv.v \/ r.max_rv.accept_round = None
<1> DEFINE r == RoundsOf[p]
           n == RoundsOf'[p]
<1>1. PICK A : Good(Slots, RoundsOf, A, accepts, decided)
  BY DEF Inv, Holds
<1>2. Inv' /\ (UNCHANGED vars \/ \E q \in Proc : Advance(q))
  BY StepAdvances
<1>3. PICK A2 : Good(Slots', RoundsOf', A2, accepts', decided')
  BY <1>2 DEF Inv, Holds
<1>4. /\ Slots[p] \in Nat /\ r.round \in Int /\ r.max_rv.accept_round \in Int
  BY <1>1, RoundIntegers DEF Good, Base, Ar
<1>5. accepts \subseteq accepts' /\ n.round >= r.round
      /\ n.max_rv.accept_round >= r.max_rv.accept_round
  <2>1. CASE UNCHANGED vars
    <3>1. accepts' = accepts /\ n = r
      BY <2>1 DEF vars, RoundsOf
    <3> HIDE DEF n, r
    <3> QED BY <1>4, <3>1
  <2>2. ASSUME NEW q \in Proc, Advance(q), q # p
        PROVE  accepts \subseteq accepts' /\ n = r
    <3>1. /\ RoundsOf' = [RoundsOf EXCEPT ![q] = RoundsOf'[q]] /\ accepts \subseteq accepts'
      BY <2>2 DEF Advance
    <3> QED BY <2>2, <3>1 DEF RoundsOf
  <2>3. CASE Advance(p)
    <3>1. Slots'[p] # Slots[p] + 1
      BY <1>4
    <3> QED BY <2>3, <3>1 DEF Advance, Moved
  <2>4. CASE \E q \in Proc : Advance(q) /\ q # p
    <3>1. accepts \subseteq accepts' /\ n = r
      BY <2>2, <2>4
    <3> HIDE DEF n, r
    <3> QED BY <1>4, <3>1
  <2> QED BY <1>2, <2>1, <2>3, <2>4
<1>6. n.max_rv.accept_round <= n.round
  BY <1>3 DEF Good, Base, RoundsOK, Ar
<1>7. n.max_rv.accept_round = r.max_rv.accept_round =>
        n.max_rv.v = r.max_rv.v \/ r.max_rv.accept_round = None
  <2> HIDE DEF n, r
  <2>1. Ar(RoundsOf', p) = n.max_rv.accept_round /\ Ar(RoundsOf, p) = r.max_rv.accept_round
    BY DEF Ar, n, r
  <2>2. RoundsOf'[p].max_rv.v = n.max_rv.v /\ RoundsOf[p].max_rv.v = r.max_rv.v
    BY DEF n, r
  <2> QED BY <1>1, <1>3, <1>5, <2>1, <2>2, SameRoundSameValue
<1> QED BY <1>5, <1>6, <1>7

\* Nor does any step of the system.
LEMMA NextKeepsRounds ==
  Inv /\ Typed /\ [Next]_vars => \A p \in AliveReplicas : RoundKept(p)
<1> SUFFICES ASSUME Inv, Typed, [Next]_vars, NEW p \in AliveReplicas PROVE RoundKept(p)
  OBVIOUS
<1> SUFFICES ASSUME Slot(shard'[p]) = Slot(shard[p]) PROVE RoundKept(p)
  BY DEF RoundKept
<1>1. /\ p \in Proc /\ Slots'[p] = Slots[p]
      /\ RoundsOf[p] = Round(p) /\ RoundsOf'[p] = Round(p)'
  BY ReplicasAreProcs DEF Slots, RoundsOf, Round
<1>2. LET r == RoundsOf[p]
          n == RoundsOf'[p]
      IN  /\ n.round >= r.round
          /\ n.max_rv.accept_round >= r.max_rv.accept_round
          /\ n.max_rv.accept_round <= n.round
          /\ n.max_rv.accept_round = r.max_rv.accept_round =>
               n.max_rv.v = r.max_rv.v \/ r.max_rv.accept_round = None
  BY <1>1, StepKeepsRounds
<1> QED BY <1>1, <1>2 DEF RoundKept

-----------------------------------------------------------------------------
(* What the reads of the slot layer rely on *)

\* A majority has a value for a decided slot, or has left it.
LEMMA MajoritySpoke ==
  ASSUME NEW S, NEW R, NEW A, NEW acc, NEW dec, Good(S, R, A, acc, dec), NEW d \in dec
  PROVE  Cardinality({a \in AliveReplicas : Spoke(S, R, a, d.slot)}) >= Majority
<1> DEFINE n == d.slot
           b == d.round
           M == {a \in AliveReplicas : Spoke(S, R, a, n)}
           L == {a \in AliveReplicas : Lock(S, R, A, a, n, b)}
           F == {a \in AliveReplicas : FastKept(S, R, A, a, n, b)}
<1>1. /\ TypesOK(S, R, A) /\ Locked(S, R, A, acc, dec) /\ FastDecided(S, R, A, dec)
      /\ b \in Proc
  BY DEF Good, Base, Fast, HistoryOK
<1>2. F \subseteq M
  BY DEF FastKept
<1>3. L \subseteq M
  <2> SUFFICES ASSUME NEW a \in AliveReplicas, Voted(S, R, a, n, b)
               PROVE  Spoke(S, R, a, n)
    BY DEF Lock
  <2>1. Ar(R, a) >= b => R[a].max_rv # NoRV
    <3>1. NoRV.accept_round = None
      BY DEF NoRV
    <3>2. None \in Int /\ None < b /\ b \in Int
      BY <1>1, ProcIsNat DEF OptProc
    <3> QED BY <3>1, <3>2 DEF Ar
  <2> QED BY <2>1 DEF Voted, Spoke
<1> HIDE DEF M, L, F
<1>4. \/ Cardinality(L) >= Majority
      \/ Cardinality(F) >= EPaxosQuorum
  BY <1>1 DEF Locked, FastDecided, L, F, n, b
<1>5. M \subseteq Proc
  BY ReplicasAreProcs DEF M
<1>6. /\ Cardinality(M) \in Nat /\ Cardinality(L) \in Nat /\ Cardinality(F) \in Nat
      /\ Cardinality(L) <= Cardinality(M) /\ Cardinality(F) <= Cardinality(M)
  BY <1>2, <1>3, <1>5, CountGrows
<1>7. Majority \in Nat
  BY Finite
<1>8. Cardinality(M) >= Majority
  BY <1>4, <1>6, <1>7, QuorumBounds
<1> QED BY <1>8 DEF M, n

\* The state of SlotVotes.
Voting == [p \in Proc |-> Round(p).max_rv # NoRV]

\* Nobody has a value at first.
LEMMA InitVotes == Init => SlotVoting!Init
<1> SUFFICES ASSUME Init PROVE SlotVoting!Init
  OBVIOUS
<1>1. \A p \in Proc : Slot(shard[p]) = 0 /\ Round(p).max_rv = NoRV
  BY ClearRoundIs DEF Init, NewShard, Slot, Round
<1> QED BY <1>1 DEF SlotVoting!Init

\* Who moves on to the next slot may do so.
LEMMA MovesWhenAllowed ==
  ASSUME Inv, Typed', Inv', NEW p \in Proc, Advance(p), Slots'[p] = Slots[p] + 1
  PROVE  SlotVoting!CanCommit(p)
<1> DEFINE n == Slots[p]
           M == {q \in AliveReplicas : Spoke(Slots', RoundsOf', q, n)}
           Q == {q \in AliveReplicas : q = p \/ SlotVoting!VotedIn(q, n)}
<1>1. n \in Nat
  <2>1. PICK A : Good(Slots, RoundsOf, A, accepts, decided)
    BY DEF Inv, Holds
  <2> QED BY <2>1, RoundIntegers DEF Good, Base
<1>2. PICK A : Holds(A)'
  BY DEF Inv
<1>3. PICK d \in decided' : d.slot = n
  <2> DEFINE log == shard'[p].log
  <2>1. Len(log) = n + 1 /\ log \in Seq([v : Uid, fast : BOOLEAN])
    BY DEF Slots, Slot, Typed, HandlersTypeOK, ShardsTypeOK, ShardTypeOK, Shards
  <2>2. \A k \in DOMAIN log : \E d \in decided' : d.slot = k - 1
    BY <1>2 DEF Holds, ShardOK
  <2> HIDE DEF log
  <2>3. n + 1 \in DOMAIN log
    BY <1>1, <2>1
  <2>4. \E d \in decided' : d.slot = (n + 1) - 1
    BY <2>2, <2>3
  <2> QED BY <1>1, <2>4
<1>4. Cardinality(M) >= Majority
  <2> DEFINE S2 == Slots'
             R2 == RoundsOf'
  <2>1. Good(S2, R2, A, accepts', decided')
    BY <1>2 DEF Holds
  <2> HIDE DEF S2, R2
  <2>2. Cardinality({a \in AliveReplicas : Spoke(S2, R2, a, d.slot)}) >= Majority
    BY <2>1, MajoritySpoke
  <2> QED BY <1>3, <2>2 DEF S2, R2
<1>5. M \subseteq Q
  <2> SUFFICES ASSUME NEW q \in AliveReplicas, q # p, Spoke(Slots', RoundsOf', q, n)
               PROVE  SlotVoting!VotedIn(q, n)
    OBVIOUS
  <2>1. q \in Proc /\ Slots'[q] = Slots[q] /\ RoundsOf'[q] = RoundsOf[q]
    <3>1. /\ Slots' = [Slots EXCEPT ![p] = Slots'[p]]
          /\ RoundsOf' = [RoundsOf EXCEPT ![p] = RoundsOf'[p]]
      BY DEF Advance
    <3> QED BY <3>1, ReplicasAreProcs DEF Slots, RoundsOf
  <2>2. Spoke(Slots, RoundsOf, q, n)
    BY <2>1 DEF Spoke
  <2>3. Slots[q] = Slot(shard[q]) /\ RoundsOf[q] = Round(q)
    BY <2>1 DEF Slots, RoundsOf, Round
  <2> HIDE DEF n
  <2> QED BY <2>1, <2>2, <2>3 DEF SlotVoting!VotedIn, Spoke
<1> HIDE DEF M
<1>6. Q \subseteq Proc
  BY ReplicasAreProcs
<1>7. Cardinality(Q) >= Majority
  <2> HIDE DEF Q
  <2>1. Cardinality(M) \in Nat /\ Cardinality(Q) \in Nat /\ Cardinality(M) <= Cardinality(Q)
    BY <1>5, <1>6, CountGrows
  <2> QED BY <1>4, <2>1, Finite
<1>8. SlotVoting!Cardinality(Q) = Cardinality(Q) /\ SlotVoting!Majority = Majority
  BY DEF SlotVoting!Cardinality, Cardinality, SlotVoting!Majority, Majority
<1> QED BY <1>7, <1>8 DEF SlotVoting!CanCommit, Slots

\* Votes are cast, kept and given up as SlotVotes says.
LEMMA StepVotes ==
  ASSUME Inv, Typed', Inv', NEW p \in Proc, Advance(p)
  PROVE  SlotVoting!Vote(p) \/ SlotVoting!CommitSlot(p) \/ UNCHANGED SlotVoting!votesVars
<1> DEFINE n == Slots'[p]
           r == RoundsOf'[p]
<1>1. /\ Slots' = [Slots EXCEPT ![p] = n] /\ RoundsOf' = [RoundsOf EXCEPT ![p] = r]
      /\ Moved(p, n, r)
  BY DEF Advance
<1>2. /\ Slots = [q \in Proc |-> Slot(shard[q])] /\ Slots' = [q \in Proc |-> Slot(shard'[q])]
      /\ Voting = [q \in Proc |-> RoundsOf[q].max_rv # NoRV]
      /\ Voting' = [q \in Proc |-> RoundsOf'[q].max_rv # NoRV]
  BY DEF Slots, RoundsOf, Voting, Round
<1> HIDE DEF n, r
<1>3. Voting' = [Voting EXCEPT ![p] = (r.max_rv # NoRV)]
  BY <1>1, <1>2 DEF RoundsOf
<1>4. CASE n = Slots[p] + 1 /\ r = ClearRound
  <2>1. SlotVoting!CanCommit(p)
    BY <1>4, MovesWhenAllowed DEF n
  <2>2. Slots' = [Slots EXCEPT ![p] = @ + 1]
    BY <1>1, <1>4
  <2>3. Voting' = [Voting EXCEPT ![p] = FALSE]
    BY <1>3, <1>4, ClearRoundIs
  <2> QED BY <2>1, <2>2, <2>3 DEF SlotVoting!CommitSlot, Slots, Voting
<1>5. CASE n = Slots[p] /\ (RoundsOf[p].max_rv # NoRV => r.max_rv # NoRV)
  <2>1. Slots' = Slots
    BY <1>1, <1>5 DEF Slots
  <2>2. CASE Voting[p] <=> r.max_rv # NoRV
    <3>1. Voting' = Voting
      BY <1>2, <1>3, <2>2
    <3> QED BY <2>1, <3>1 DEF SlotVoting!votesVars, Slots, Voting
  <2>3. CASE ~(Voting[p] <=> r.max_rv # NoRV)
    <3>1. ~Voting[p] /\ Voting' = [Voting EXCEPT ![p] = TRUE]
      BY <1>2, <1>3, <1>5, <2>3
    <3> QED BY <2>1, <3>1 DEF SlotVoting!Vote, Slots, Voting
  <2> QED BY <2>2, <2>3
<1> QED BY <1>1, <1>4, <1>5 DEF Moved

\* So does any step of the system.
LEMMA NextVotes == Inv /\ Typed /\ [Next]_vars => [SlotVoting!Next]_(SlotVoting!votesVars)
<1> SUFFICES ASSUME Inv, Typed, [Next]_vars PROVE [SlotVoting!Next]_(SlotVoting!votesVars)
  OBVIOUS
<1>1. Inv' /\ Typed' /\ (UNCHANGED vars \/ \E p \in Proc : Advance(p))
  BY StepAdvances, NextTyped
<1>2. CASE UNCHANGED vars
  BY <1>2 DEF vars, SlotVoting!votesVars, Round
<1>3. CASE \E p \in Proc : Advance(p)
  BY <1>1, <1>3, StepVotes DEF SlotVoting!Next
<1> QED BY <1>1, <1>2, <1>3

\* Once a slot is decided, by a majority's votes or by a fast quorum of answers,
\* no leader of a higher round asks for votes for anything else, in any mode and
\* whatever is delayed or reordered between channels.
THEOREM LaterRoundsKeep == Spec => []LaterRoundsKeepDecision
BY AlwaysInv, InvImplies, PTL

\* Two processes never log different values for a slot, whether they learn the
\* value by counting votes, by counting answers, or from a Commit message.
THEOREM PaxosAgreement == Spec => []Agreement
BY AlwaysInv, InvImplies, PTL

\* A shard with nothing under way and nothing queued has nothing to lose by being
\* put to sleep: its round is the one a new slot starts with.
THEOREM IdleRoundIsClear == Spec => []IdleIsClear
BY AlwaysInv, InvImplies, PTL

\* A replica never goes back to an earlier round of its slot, nor forgets a vote:
\* whoever asks it again is told of the last one, with the value it was for.
THEOREM RoundsNeverGoBack == Spec => RoundsKept
<1>1. Inv /\ Typed /\ [Next]_vars => [\A p \in AliveReplicas : RoundKept(p)]_vars
  BY NextKeepsRounds
<1> QED BY <1>1, AlwaysInv, AlwaysTyped, PTL DEF Spec, RoundsKept

\* Every mode gives the reads of the slot layer what they rely on: a process with
\* a value in its slot keeps one until it commits the slot, and nobody commits a
\* slot before a majority has a value in it or has left it.
THEOREM PaxosImplementsVotes == Spec => ImplementsVotes
BY AlwaysInv, AlwaysTyped, InitVotes, NextVotes, PTL DEF Spec, ImplementsVotes, SlotVoting!Spec

=============================================================================
