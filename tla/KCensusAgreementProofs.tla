----------------------- MODULE KCensusAgreementProofs -----------------------
(***************************************************************************)
(* Every step of a shard can be explained by reports that only grow: what   *)
(* is decided is what they say, and the views in circulation are among      *)
(* them.  From this, that the slots' decisions agree (given GraphSeparates), *)
(* that a fallback adopts what was decided fast (likewise), that no view is  *)
(* ahead of its process, and that the slots implement SlotVotes.            *)
(***************************************************************************)
EXTENDS KCensusReportProofs

\* A message to d that the reports bear out.
GoodTo(H, d) == {m \in MessageTo(d) : MsgOK(H, m)}

SentOK(H, out)      == \A d \in Proc : out[d] \in Seq(GoodTo(H, d))
ChannelsOK(H, chan) == \A p \in Proc : SentOK(H, chan[p])

\* The shard of p, as far as the reports go: its round, the slots it has not come to,
\* the messages it holds back and what it committed.
ShardOK(H, p, s) ==
  /\ RoundOK(H[Slot(s)], p, s.round_state)
  /\ \A n \in Nat : n > Slot(s) => H[n][p] = {EmptyNode}
  /\ s.queued_messages \in Seq(GoodTo(H, p))
  /\ \A i \in DOMAIN s.log : Decided(H[i - 1], s.log[i].v)

\* What leaders decided, and what their censuses obliged them to.
HistoryOK(H) ==
  /\ \A d \in decided : IF d.fast THEN FastDecided(H[d.slot], d.v) ELSE SlowDecided(H[d.slot], d.v)
  /\ \A f \in fallbacks : FallbackOK(H[f.slot], f.choices)

GoodHistory(H) == H \in Histories /\ \A n \in Nat : Good(H[n])

\* The reports H explain the state; chan is what is in flight.
Explains(H, chan) ==
  /\ GoodHistory(H)
  /\ \A p \in Proc : ShardOK(H, p, shard[p])
  /\ ChannelsOK(H, chan)
  /\ HistoryOK(H)

\* K says more than H, of p alone.
Grown(H, K, p) ==
  /\ GoodHistory(H) /\ GoodHistory(K)
  /\ \A n \in Nat : Extends(H[n], K[n], p)

-----------------------------------------------------------------------------
(* What grows *)

\* New reports of one slot leave the others alone.
LEMMA SlotGrows ==
  ASSUME NEW H, GoodHistory(H), NEW p \in Proc, NEW n \in Nat, NEW S, Good(S), Extends(H[n], S, p),
         NEW K, K = [H EXCEPT ![n] = S]
  PROVE  /\ Grown(H, K, p) /\ K[n] = S
         /\ \A k \in Nat : k # n => K[k] = H[k]
<1>1. S \in Reports
  BY DEF Good
<1>2. K \in Histories /\ K[n] = S /\ \A k \in Nat : k # n => K[k] = H[k]
  BY <1>1 DEF GoodHistory, Histories
<1>3. \A k \in Nat : Good(K[k])
  BY <1>2 DEF GoodHistory
<1>4. \A k \in Nat : Extends(H[k], K[k], p)
  BY <1>2, NothingExtends DEF GoodHistory
<1> QED BY <1>2, <1>3, <1>4 DEF Grown, GoodHistory

\* Nothing new.
LEMMA NothingGrows ==
  ASSUME NEW H, GoodHistory(H), NEW p \in Proc
  PROVE  Grown(H, H, p)
BY NothingExtends DEF Grown, GoodHistory

\* A message stays borne out.
LEMMA MessageGrows ==
  ASSUME NEW H, NEW K, NEW p \in Proc, Grown(H, K, p), NEW m \in Message, MsgOK(H, m)
  PROVE  MsgOK(K, m)
<1>1. ASSUME m.type \in {"Spread", "PaxosAccept", "Commit"}
      PROVE  m.slot \in Nat /\ Extends(H[m.slot], K[m.slot], p)
  <2>1. m.slot \in Nat
    BY <1>1, MessageKinds DEF SpreadMsg, PaxosAcceptMsg, CommitMsg
  <2> QED BY <2>1 DEF Grown
<1>2. m.type \in {"Spread", "PaxosAccept", "Commit"} =>
        \A q \in Proc : H[m.slot][q] \subseteq K[m.slot][q]
  BY <1>1 DEF Extends
<1>3. m.type = "Spread" =>
       /\ m.id \in State(m.id.proposer, m.id.src, m.id.time).needed_by
       /\ \A q \in Proc : Incoming(m)[q] \in K[m.slot][q]
       /\ \A q, a \in Proc : Incoming(m)[q].k_proposer = a => Incoming(m)[a].v # NoV
  BY <1>2 DEF MsgOK
<1>4. m.type = "PaxosAccept" =>
       /\ m.src \in AliveReplicas
       /\ VoteOf(m.leader, m.v) \in K[m.slot][m.src] \cap K[m.slot][m.leader]
  <2> SUFFICES ASSUME m.type = "PaxosAccept"
               PROVE  /\ m.src \in AliveReplicas
                      /\ VoteOf(m.leader, m.v) \in K[m.slot][m.src] \cap K[m.slot][m.leader]
    OBVIOUS
  <2>1. m.src \in Proc /\ m.leader \in Proc
    BY MessageKinds DEF PaxosAcceptMsg
  <2>2. m.src \in AliveReplicas /\ VoteOf(m.leader, m.v) \in H[m.slot][m.src] \cap H[m.slot][m.leader]
    BY DEF MsgOK
  <2> QED BY <1>2, <2>1, <2>2
<1>5. m.type = "Commit" => Decided(K[m.slot], m.v)
  BY <1>1, DecidedGrows DEF MsgOK
<1> QED BY <1>3, <1>4, <1>5 DEF MsgOK

\* So do the messages of a sequence.
LEMMA MessagesGrow ==
  ASSUME NEW H, NEW K, NEW p \in Proc, Grown(H, K, p), NEW d
  PROVE  Seq(GoodTo(H, d)) \subseteq Seq(GoodTo(K, d))
<1>1. GoodTo(H, d) \subseteq GoodTo(K, d)
  BY MessageToIsMessage, MessageGrows DEF GoodTo
<1> HIDE DEF GoodTo
<1> SUFFICES ASSUME NEW h \in Seq(GoodTo(H, d)) PROVE h \in Seq(GoodTo(K, d))
  OBVIOUS
<1> QED BY <1>1

\* And what is in flight.
LEMMA ChannelsGrow ==
  ASSUME NEW H, NEW K, NEW p \in Proc, Grown(H, K, p), NEW chan, ChannelsOK(H, chan)
  PROVE  ChannelsOK(K, chan)
BY MessagesGrow DEF ChannelsOK, SentOK

\* The other shards are still explained.
LEMMA OthersGrow ==
  ASSUME NEW H, NEW K, NEW p \in Proc, Grown(H, K, p), NEW q \in Proc, q # p,
         NEW s \in Shards, ShardOK(H, q, s)
  PROVE  ShardOK(K, q, s)
<1>1. Slot(s) \in Nat /\ s.round_state \in RoundStates
  BY SlotType DEF Shards
<1>2. RoundOK(K[Slot(s)], q, s.round_state)
  BY <1>1, OthersRoundOK DEF ShardOK, Grown
<1>3. \A n \in Nat : n > Slot(s) => K[n][q] = {EmptyNode}
  BY <1>1 DEF ShardOK, Grown, Extends
<1>4. s.queued_messages \in Seq(GoodTo(K, q))
  BY MessagesGrow DEF ShardOK
<1>5. \A i \in DOMAIN s.log : Decided(K[i - 1], s.log[i].v)
  <2> TAKE i \in DOMAIN s.log
  <2>1. i \in 1 .. Len(s.log)
    BY DEF Shards
  <2>2. i - 1 \in Nat
    BY <2>1
  <2> QED BY <2>2, DecidedGrows DEF ShardOK, Grown
<1> QED BY <1>2, <1>3, <1>4, <1>5 DEF ShardOK

\* The histories are still explained.
LEMMA HistoryGrows ==
  ASSUME HistoryTypeOK, NEW H, NEW K, NEW p \in Proc, Grown(H, K, p), HistoryOK(H)
  PROVE  HistoryOK(K)
<1>1. \A d \in decided : IF d.fast THEN FastDecided(K[d.slot], d.v) ELSE SlowDecided(K[d.slot], d.v)
  <2> TAKE d \in decided
  <2>1. d.slot \in Nat
    BY DEF HistoryTypeOK
  <2> QED BY <2>1, FastDecidedGrows, SlowDecidedGrows DEF HistoryOK, Grown
<1>2. \A f \in fallbacks : FallbackOK(K[f.slot], f.choices)
  <2> TAKE f \in fallbacks
  <2>1. f.slot \in Nat
    BY DEF HistoryTypeOK
  <2> QED BY <2>1, FallbackGrows DEF HistoryOK, Grown
<1> QED BY <1>1, <1>2 DEF HistoryOK

-----------------------------------------------------------------------------
(* One process takes a step *)

\* The reports H explain every shard, and chan is in flight: the state in which p
\* handles what it took in.
Handling(H, chan) ==
  /\ GoodHistory(H) /\ ChannelsOK(H, chan) /\ HistoryOK(H)
  /\ \A q \in Proc : ShardOK(H, q, shard[q])

\* p's step is explained by what it adds.
LEMMA BecomeExplained ==
  ASSUME HandlersTypeOK, NEW H, NEW K, NEW p \in Proc, Grown(H, K, p),
         NEW chan, ChannelsTypeOK(chan), Handling(H, chan),
         NEW t, t \in Shards, ShardOK(K, p, t), NEW out, SentOK(K, out), Become(p, t, chan, out)
  PROVE  /\ \A q \in Proc : ShardOK(K, q, shard'[q])
         /\ ChannelsOK(K, net')
<1>1. /\ shard' = [shard EXCEPT ![p] = t] /\ shard \in [Proc -> Shards]
      /\ net' = [chan EXCEPT ![p] = Then(@, out)] /\ chan \in [Proc -> [Proc -> Seq(Message)]]
  BY DEF Become, Send, HandlersTypeOK, ShardsTypeOK, ChannelsTypeOK
<1>2. ASSUME NEW q \in Proc PROVE ShardOK(K, q, shard'[q])
  <2>1. CASE q = p
    BY <1>1, <2>1
  <2>2. CASE q # p
    <3>1. shard'[q] = shard[q] /\ shard[q] \in Shards /\ ShardOK(H, q, shard[q])
      BY <1>1, <2>2 DEF Handling
    <3> QED BY <2>2, <3>1, OthersGrow
  <2> QED BY <2>1, <2>2
<1>3. ChannelsOK(K, chan)
  BY ChannelsGrow DEF Handling
<1>4. SentOK(K, Then(chan[p], out))
  <2> SUFFICES ASSUME NEW d \in Proc PROVE Then(chan[p], out)[d] \in Seq(GoodTo(K, d))
    BY DEF SentOK
  <2>1. chan[p][d] \in Seq(GoodTo(K, d)) /\ out[d] \in Seq(GoodTo(K, d))
    BY <1>3 DEF ChannelsOK, SentOK
  <2> HIDE DEF GoodTo
  <2>2. chan[p][d] \o out[d] \in Seq(GoodTo(K, d))
    BY <2>1
  <2> QED BY <2>2 DEF Then
<1>5. \A q \in Proc : SentOK(K, net'[q])
  BY <1>1, <1>3, <1>4 DEF ChannelsOK
<1> QED BY <1>2, <1>5 DEF ChannelsOK

\* A step that decides nothing is explained.
LEMMA StepExplained ==
  ASSUME HandlersTypeOK, NEW H, NEW K, NEW p \in Proc, Grown(H, K, p),
         NEW chan, ChannelsTypeOK(chan), Handling(H, chan),
         NEW t, t \in Shards, ShardOK(K, p, t), NEW out, SentOK(K, out), Become(p, t, chan, out),
         UNCHANGED history
  PROVE  Explains(K, net)'
<1>1. (\A q \in Proc : ShardOK(K, q, shard'[q])) /\ ChannelsOK(K, net')
  BY BecomeExplained
<1>2. HistoryOK(K)
  BY HistoryGrows DEF Handling, HandlersTypeOK
<1>3. HistoryOK(K)'
  BY <1>2 DEF HistoryOK, history
<1>4. GoodHistory(K)
  BY DEF Grown
<1> QED BY <1>1, <1>3, <1>4 DEF Explains

\* What changes nothing but the queues, the scan or an alarm keeps a shard explained.
LEMMA SameReports ==
  ASSUME NEW H, NEW p \in Proc, NEW s, ShardOK(H, p, s), NEW t,
         t.round_state = s.round_state, t.log = s.log, t.queued_messages \in Seq(GoodTo(H, p))
  PROVE  ShardOK(H, p, t)
BY DEF ShardOK, Slot

\* H with the reports S in slot n.
InSlot(H, n, S) == [H EXCEPT ![n] = S]

\* p goes on in its slot.
LEMMA SameSlot ==
  ASSUME NEW H, GoodHistory(H), NEW p \in Proc, NEW s \in Shards, ShardOK(H, p, s),
         NEW S, Good(S), Extends(H[Slot(s)], S, p), NEW K, K = InSlot(H, Slot(s), S),
         NEW t, t.log = s.log, t.queued_messages = s.queued_messages,
         RoundOK(S, p, t.round_state)
  PROVE  Grown(H, K, p) /\ K[Slot(s)] = S /\ ShardOK(K, p, t)
<1>1. Slot(s) \in Nat /\ Slot(t) = Slot(s)
  BY SlotType DEF Slot
<1>2. Grown(H, K, p) /\ K[Slot(s)] = S /\ \A k \in Nat : k # Slot(s) => K[k] = H[k]
  <2> DEFINE n == Slot(s)
  <2>1. n \in Nat /\ Extends(H[n], S, p) /\ K = [H EXCEPT ![n] = S]
    BY <1>1 DEF InSlot
  <2> HIDE DEF n
  <2>2. K[n] = S /\ \A k \in Nat : k # n => K[k] = H[k]
    BY <2>1 DEF GoodHistory, Histories
  <2>3. Grown(H, K, p)
    BY <2>1, SlotGrows
  <2> QED BY <2>2, <2>3 DEF n
<1>3. \A n \in Nat : n > Slot(t) => K[n][p] = {EmptyNode}
  BY <1>1, <1>2 DEF ShardOK
<1>4. t.queued_messages \in Seq(GoodTo(K, p))
  BY <1>2, MessagesGrow DEF ShardOK
<1>5. \A i \in DOMAIN t.log : Decided(K[i - 1], t.log[i].v)
  <2> TAKE i \in DOMAIN t.log
  <2>1. i \in 1 .. Len(s.log)
    BY DEF Shards
  <2>2. i - 1 \in Nat
    BY <2>1
  <2> QED BY <1>2, <2>2, DecidedGrows DEF ShardOK, Grown
<1> QED BY <1>1, <1>2, <1>3, <1>4, <1>5 DEF ShardOK

\* p goes on to the next slot.
LEMMA NextSlot ==
  ASSUME NEW H, GoodHistory(H), NEW p \in Proc, NEW s, ShardTypeOK(p, s), ShardOK(H, p, s),
         NEW v \in Uid, Decided(H[Slot(s)], v), NEW ok \in BOOLEAN,
         NEW t, t = Panic(CommitSlot(s, v), ok)
  PROVE  ShardOK(H, p, t)
<1>1. Slot(s) \in Nat /\ Slot(t) = Slot(s) + 1 /\ t.round_state = ClearRound
  BY SlotType, CommitMoves DEF ShardTypeOK
<1>2. RoundOK(H[Slot(t)], p, t.round_state)
  <2>1. Slot(t) \in Nat /\ Slot(t) > Slot(s)
    BY <1>1
  <2>2. H[Slot(t)][p] = {EmptyNode} /\ Good(H[Slot(t)])
    BY <2>1 DEF ShardOK, GoodHistory
  <2> QED BY <1>1, <2>2, ClearRoundOK
<1>3. \A n \in Nat : n > Slot(t) => H[n][p] = {EmptyNode}
  BY <1>1 DEF ShardOK
<1>4. /\ t.queued_messages = s.queued_messages
      /\ t.log = Append(s.log, [v |-> v, fast |-> ~s.slot_left_fast_path])
  BY DEF Panic, CommitSlot, ShardTypeOK, Shards
<1>5. \A i \in DOMAIN t.log : Decided(H[i - 1], t.log[i].v)
  <2> DEFINE e == [v |-> v, fast |-> ~s.slot_left_fast_path]
  <2>1. s.log \in Seq([v : Uid, fast : BOOLEAN]) /\ e \in [v : Uid, fast : BOOLEAN] /\ e.v = v
    BY DEF ShardTypeOK, Shards
  <2>2. t.log = Append(s.log, e)
    BY <1>4
  <2> HIDE DEF e
  <2> TAKE i \in DOMAIN t.log
  <2>3. i \in 1 .. Len(s.log) + 1
    BY <2>1, <2>2
  <2>4. CASE i = Len(s.log) + 1
    <3>1. t.log[i] = e /\ i - 1 = Slot(s)
      BY <2>1, <2>2, <2>4 DEF Slot
    <3> QED BY <2>1, <3>1
  <2>5. CASE i # Len(s.log) + 1
    <3>1. i \in DOMAIN s.log /\ t.log[i] = s.log[i]
      BY <2>1, <2>2, <2>3, <2>5
    <3> QED BY <3>1 DEF ShardOK
  <2> QED BY <2>4, <2>5
<1> QED BY <1>2, <1>3, <1>4, <1>5 DEF ShardOK

-----------------------------------------------------------------------------
(* What is sent *)

\* Nothing is borne out.
LEMMA NothingSent == \A H : SentOK(H, Nothing)
BY DEF SentOK, Nothing

\* Two outputs, one after the other, are borne out.
LEMMA ThenSent ==
  ASSUME NEW H, NEW o1, NEW o2, SentOK(H, o1), SentOK(H, o2)
  PROVE  SentOK(H, Then(o1, o2))
<1> SUFFICES ASSUME NEW d \in Proc PROVE Then(o1, o2)[d] \in Seq(GoodTo(H, d))
  BY DEF SentOK
<1>1. o1[d] \in Seq(GoodTo(H, d)) /\ o2[d] \in Seq(GoodTo(H, d))
  BY DEF SentOK
<1> HIDE DEF GoodTo
<1>2. o1[d] \o o2[d] \in Seq(GoodTo(H, d))
  BY <1>1
<1> QED BY <1>2 DEF Then

\* So is a broadcast of one message that is.
LEMMA ToOthersSent ==
  ASSUME NEW H, NEW p, NEW D, NEW m \in PaxosAcceptMsg \cup CommitMsg, MsgOK(H, m)
  PROVE  SentOK(H, ToOthers(p, D, m))
<1>1. \A d \in Proc : m \in GoodTo(H, d)
  BY DEF GoodTo, MessageTo, Message, PaxosAcceptMsg, CommitMsg
<1> HIDE DEF GoodTo
<1> QED BY <1>1 DEF ToOthers, SentOK

\* A value alone says nothing of the census.
LEMMA ValueSpreadsSent ==
  ASSUME NEW H, NEW p \in Proc, NEW s \in Shards, NEW v \in Uid, NEW a \in Proc,
         NEW t \in StateIds(a, p)
  PROVE  SentOK(H, ValueSpreads(s, p, v, a, t))
<1> SUFFICES ASSUME NEW d \in Proc PROVE ValueSpreads(s, p, v, a, t)[d] \in Seq(GoodTo(H, d))
  BY DEF SentOK
<1> DEFINE y == ValueSpreads(s, p, v, a, t)[d]
<1>1. y \in Seq(MessageTo(d))
  BY ValueSpreadsOutgoing DEF Outgoing
<1>2. \A i \in DOMAIN y : y[i].type = "SpreadValueOnly"
  BY DEF ValueSpreads
<1> HIDE DEF y
<1>3. \A i \in DOMAIN y : y[i] \in GoodTo(H, d)
  BY <1>1, <1>2 DEF GoodTo, MsgOK
<1> HIDE DEF GoodTo
<1>4. y \in Seq(GoodTo(H, d))
  BY <1>1, <1>3
<1> QED BY <1>4 DEF y

\* Nor does forwarding one.
LEMMA ForwardedSent ==
  ASSUME NEW H, NEW p \in Proc, NEW s \in Shards, NEW m \in MessageTo(p),
         m.type \in {"Spread", "SpreadValueOnly"}, CarriesValue(m)
  PROVE  SentOK(H, Forwarded(s, p, m))
<1>1. m.v \in Uid /\ m.id \in SpreadId /\ ShouldIncludeValue(m.id) /\ m.id.dest = p
  BY DEF MessageTo, Message, SpreadMsg, SpreadValueOnlyMsg, PaxosAcceptMsg, CommitMsg, CarriesValue
<1>2. m.id.proposer \in Proc
  BY <1>1 DEF SpreadId, MessageId
<1>3. MsgArrivalStateId(m.id) \in StateIds(m.id.proposer, p)
  BY <1>1, <1>2, GraphAssumption DEF GraphMessages, ShouldIncludeValue
<1> QED BY <1>1, <1>2, <1>3, ValueSpreadsSent DEF Forwarded

\* A decision is explained if the reports say so.
LEMMA DecideExplained ==
  ASSUME HandlersTypeOK, NEW H, NEW K, NEW p \in Proc, Grown(H, K, p),
         NEW chan, ChannelsTypeOK(chan), Handling(H, chan),
         NEW s, ShardTypeOK(p, s), ShardOK(K, p, s), NEW v \in Uid, NEW fast \in BOOLEAN,
         fast => FastDecided(K[Slot(s)], v), ~fast => SlowDecided(K[Slot(s)], v),
         NEW out, SentOK(K, out), Decide(p, s, v, fast, chan, out)
  PROVE  Explains(K, net)'
<1> DEFINE commit == [type |-> "Commit", slot |-> Slot(s), v |-> v]
           ok == CommitAsserts(s, v) /\ MyV(s, p) = v
           t == Panic(CommitSlot(s, v), ok)
           sent == Then(out, ToOthers(p, Proc, commit))
<1>1. Slot(s) \in Nat /\ Decided(K[Slot(s)], v)
  BY SlotType DEF ShardTypeOK, Decided
<1>2. commit \in CommitMsg /\ MsgOK(K, commit)
  BY <1>1 DEF CommitMsg, MsgOK
<1>3. SentOK(K, sent)
  <2> HIDE DEF commit
  <2> QED BY <1>2, ToOthersSent, ThenSent
<1>4. ok \in BOOLEAN
  BY DEF CommitAsserts
<1>5. Become(p, t, chan, sent) /\ UNCHANGED fallbacks
      /\ decided' = decided \cup {[slot |-> Slot(s), v |-> v, fast |-> fast]}
  BY DEF Decide
<1> HIDE DEF ok, commit, sent
<1>6. t \in Shards
  BY <1>4, CommitSlotType, PanicType DEF ShardTypeOK
<1>7. ShardOK(K, p, t)
  <2>1. GoodHistory(K)
    BY DEF Grown
  <2> QED BY <1>1, <1>4, <2>1, NextSlot
<1> HIDE DEF t
<1>8. (\A q \in Proc : ShardOK(K, q, shard'[q])) /\ ChannelsOK(K, net')
  BY <1>3, <1>5, <1>6, <1>7, BecomeExplained
<1>9. HistoryOK(K)
  BY HistoryGrows DEF Handling, HandlersTypeOK
<1>10. HistoryOK(K)'
  <2> DEFINE e == [slot |-> Slot(s), v |-> v, fast |-> fast]
  <2>1. e.slot = Slot(s) /\ e.v = v /\ e.fast = fast /\ decided' = decided \cup {e}
    BY <1>5
  <2> HIDE DEF e
  <2>2. IF e.fast THEN FastDecided(K[e.slot], e.v) ELSE SlowDecided(K[e.slot], e.v)
    BY <2>1
  <2> QED BY <1>5, <1>9, <2>1, <2>2 DEF HistoryOK
<1>11. GoodHistory(K)
  BY DEF Grown
<1> QED BY <1>8, <1>10, <1>11 DEF Explains

\* What inner_spread sends is borne out by the census under a conflict, and by what the
\* plan implies without one.
LEMMA SpreadsSent ==
  ASSUME NEW K, NEW p \in Proc, NEW s \in Shards, NEW v \in Uid, NEW a \in Proc,
         NEW T \in SUBSET StateIds(a, p), NEW newValue \in BOOLEAN,
         NEW S, S = K[Slot(s)], Good(S),
         HasConflict(s.round_state, p) => RoundOK(S, p, s.round_state),
         ~HasConflict(s.round_state, p) =>
           \A u \in T : \A id \in State(a, p, u).needed_by : \A z \in Proc :
             BuildRemoteState(v, id, z) \in S[z]
  PROVE  SentOK(K, Spreads(s, p, v, a, T, newValue))
<1> SUFFICES ASSUME NEW d \in Proc
             PROVE  Spreads(s, p, v, a, T, newValue)[d] \in Seq(GoodTo(K, d))
  BY DEF SentOK
<1> DEFINE ids == InTimeOrder(Emitted(a, p, T, d))
           conflict == HasConflict(s.round_state, p)
           y == Spreads(s, p, v, a, T, newValue)[d]
<1>1. y \in Seq(MessageTo(d))
  BY SpreadsOutgoing DEF Outgoing
<1>2. ids \in Seq(Emitted(a, p, T, d))
  BY EmittedType, InTimeOrderType
<1>3. /\ DOMAIN y = DOMAIN ids
      /\ \A i \in DOMAIN y : /\ y[i].type = "Spread" /\ y[i].slot = Slot(s) /\ y[i].v = v
                             /\ y[i].id = ids[i] /\ (y[i].explicit = conflict)
                             /\ conflict => y[i].remote_states = s.round_state.node_states
  BY DEF Spreads
<1> HIDE DEF y, ids
<1>4. ASSUME NEW i \in DOMAIN y PROVE MsgOK(K, y[i])
  <2>1. y[i] \in SpreadMsg
    BY <1>1, <1>3, MessageToIsMessage, MessageKinds
  <2>2. PICK u \in T : y[i].id \in State(a, p, u).needed_by
    BY <1>2, <1>3 DEF Emitted
  <2>3. y[i].id.proposer = a /\ y[i].id.src = p /\ y[i].id.time = u
    BY <2>2, StateType
  <2>4. y[i].id \in State(y[i].id.proposer, y[i].id.src, y[i].id.time).needed_by
    BY <2>2, <2>3
  <2>5. K[y[i].slot] = S
    BY <1>3
  <2>6. CASE conflict
    <3>1. s.round_state \in RoundStates /\ RoundOK(S, p, s.round_state)
      BY <2>6 DEF Shards
    <3>2. y[i].explicit /\ y[i].remote_states = s.round_state.node_states
      BY <1>3, <2>6
    <3> QED BY <2>1, <2>4, <2>5, <3>1, <3>2, CensusMsgOK
  <2>7. CASE ~conflict
    <3>1. ~y[i].explicit
      BY <1>3, <2>7
    <3>2. \A q \in Proc : BuildRemoteState(y[i].v, y[i].id, q) \in S[q]
      BY <1>3, <2>2, <2>7
    <3> QED BY <2>1, <2>4, <2>5, <3>1, <3>2, PlainMsgOK
  <2> QED BY <2>6, <2>7
<1>5. \A i \in DOMAIN y : y[i] \in GoodTo(K, d)
  BY <1>1, <1>4 DEF GoodTo
<1> HIDE DEF GoodTo
<1>6. y \in Seq(GoodTo(K, d))
  BY <1>1, <1>5
<1> QED BY <1>6 DEF y

-----------------------------------------------------------------------------
(* The handlers that learn nothing of the slot *)

\* A message of a decided slot is explained by what is known.
LEMMA StaleExplained ==
  ASSUME HandlersTypeOK, NEW H, NEW p \in Proc, NEW chan, ChannelsTypeOK(chan), Handling(H, chan),
         NEW m \in GoodTo(H, p), NEW s, ShardTypeOK(p, s), ShardOK(H, p, s),
         StaleMessage(p, m, s, chan)
  PROVE  \E K : Explains(K, net)'
<1> DEFINE out == IF m.type = "Spread" /\ CarriesValue(m) THEN Forwarded(s, p, m) ELSE Nothing
<1>1. s \in Shards /\ m \in MessageTo(p)
  BY DEF ShardTypeOK, GoodTo
<1>2. SentOK(H, out)
  BY <1>1, NothingSent, ForwardedSent
<1>3. Become(p, s, chan, out) /\ UNCHANGED history
  BY DEF StaleMessage
<1> HIDE DEF out
<1>4. Grown(H, H, p)
  BY NothingGrows DEF Handling
<1>5. Explains(H, net)'
  BY <1>1, <1>2, <1>3, <1>4, StepExplained
<1> QED BY <1>5

\* So is a value without a census.
LEMMA ValueOnlyExplained ==
  ASSUME HandlersTypeOK, NEW H, NEW p \in Proc, NEW chan, ChannelsTypeOK(chan), Handling(H, chan),
         NEW m \in GoodTo(H, p), NEW s, ShardTypeOK(p, s), ShardOK(H, p, s),
         ValueOnly(p, m, s, chan)
  PROVE  \E K : Explains(K, net)'
<1> DEFINE out == Forwarded(s, p, m)
<1>1. s \in Shards /\ m \in MessageTo(p) /\ m.type = "SpreadValueOnly" /\ CarriesValue(m)
  BY DEF ShardTypeOK, GoodTo, ValueOnly, CarriesValue
<1>2. SentOK(H, out)
  BY <1>1, ForwardedSent
<1>3. Become(p, s, chan, out) /\ UNCHANGED history
  BY DEF ValueOnly
<1> HIDE DEF out
<1>4. Grown(H, H, p)
  BY NothingGrows DEF Handling
<1>5. Explains(H, net)'
  BY <1>1, <1>2, <1>3, <1>4, StepExplained
<1> QED BY <1>5

\* A Commit message says what was decided.
LEMMA CommitExplained ==
  ASSUME HandlersTypeOK, NEW H, NEW p \in Proc, NEW chan, ChannelsTypeOK(chan), Handling(H, chan),
         NEW m \in GoodTo(H, p), NEW s, ShardTypeOK(p, s), ShardOK(H, p, s),
         CommitMessage(p, m, s, chan)
  PROVE  \E K : Explains(K, net)'
<1> DEFINE ok == CommitAsserts(s, m.v)
           t == Panic(CommitSlot(s, m.v), ok)
<1>1. m.v \in Uid /\ MsgOK(H, m) /\ m.type = "Commit" /\ m.slot = Slot(s)
  BY MessageToIsMessage, MessageKinds DEF GoodTo, CommitMessage
<1>2. Decided(H[Slot(s)], m.v)
  BY <1>1 DEF MsgOK
<1>3. ok \in BOOLEAN
  BY DEF CommitAsserts
<1>4. Become(p, t, chan, Nothing) /\ UNCHANGED history
  BY DEF CommitMessage
<1> HIDE DEF ok
<1>5. t \in Shards
  BY <1>1, <1>3, CommitSlotType, PanicType DEF ShardTypeOK
<1>6. ShardOK(H, p, t)
  <2>1. GoodHistory(H)
    BY DEF Handling
  <2> QED BY <1>1, <1>2, <1>3, <2>1, NextSlot
<1> HIDE DEF t
<1>7. Grown(H, H, p)
  BY NothingGrows DEF Handling
<1>8. Explains(H, net)'
  BY <1>4, <1>5, <1>6, <1>7, NothingSent, StepExplained
<1> QED BY <1>8

-----------------------------------------------------------------------------
(* The first half of the Spread handler *)

\* What m brings p is among the reports R, and it is on its way to p.
Brings(R, p, m) ==
  /\ m \in SpreadMsg /\ m.id.dest = p
  /\ m.id \in State(m.id.proposer, m.id.src, m.id.time).needed_by
  /\ Incoming(m) \in [Proc -> NodeStates]
  /\ \A q \in Proc : Incoming(m)[q] \in R[q]
  /\ \A q, a \in Proc : Incoming(m)[q].k_proposer = a => Incoming(m)[a].v # NoV

\* A Spread that the reports bear out does.
LEMMA SpreadBrings ==
  ASSUME NEW H, NEW p \in Proc, NEW m \in GoodTo(H, p), m.type = "Spread"
  PROVE  Brings(H[m.slot], p, m)
<1>1. m \in MessageTo(p) /\ MsgOK(H, m)
  BY DEF GoodTo
<1>2. m \in SpreadMsg /\ m.id.dest = p
  BY <1>1, MessageToIsMessage, MessageKinds DEF MessageTo
<1>3. m.id \in MessageId /\ m.id.time \in StateIds(m.id.proposer, m.id.src) /\ m.id.proposer \in Proc
  BY <1>2 DEF SpreadMsg, SpreadId, MessageId
<1>4. Incoming(m) \in [Proc -> NodeStates]
  BY <1>2, <1>3, BuildRemoteStateType DEF Incoming, SpreadMsg
<1> QED BY <1>1, <1>2, <1>4 DEF MsgOK, Brings

\* Whoever finds a conflict accepts nothing.
LEMMA ConflictAccepts ==
  ASSUME NEW o \in RoundStates, NEW p \in Proc, NEW v \in Uid, NEW a \in Proc,
         TryAcceptAsserts(o, p, a), HasConflict(KCensusTryAccept(o, p, v, a), p)
  PROVE  KCensusTryAccept(o, p, v, a) = o
<1> SUFFICES ASSUME Accepts(o, p) PROVE FALSE
  BY DEF KCensusTryAccept
<1> DEFINE e == AcceptWithKState(Mine(o, p), p, v, a, 0)
           y == SetMine(o, p, e)
<1>1. e \in NodeStates /\ e.accept_round = Mine(o, p).accept_round
  <2>1. Mine(o, p) \in NodeStates
    BY MineType
  <2>2. e \in NodeStates
    BY <2>1, AcceptWithKStateType
  <2>3. e.accept_round = Mine(o, p).accept_round
    BY <2>1 DEF AcceptWithKState, UpdateKState, NodeStates
  <2> QED BY <2>2, <2>3
<1>2. KCensusTryAccept(o, p, v, a) = [y EXCEPT !.proposers = @ \cup {a}]
  BY DEF KCensusTryAccept
<1> HIDE DEF e
<1>3. y \in RoundStates /\ Mine(y, p) = e /\ y.proposers = o.proposers
  BY <1>1, SetMineType
<1> HIDE DEF y
<1>4. /\ KCensusTryAccept(o, p, v, a).proposers = o.proposers \cup {a}
      /\ Mine(KCensusTryAccept(o, p, v, a), p) = e
  BY <1>2, <1>3 DEF RoundStates, Mine
<1>5. o.proposers \subseteq {a} /\ Mine(o, p).accept_round = None
  BY DEF TryAcceptAsserts, Accepts, HasConflict
<1> QED BY <1>1, <1>4, <1>5 DEF HasConflict

\* Merging what a Spread brings.
LEMMA MergesSpread ==
  ASSUME NEW R, Good(R), NEW p \in Proc, NEW r \in RoundStates, RoundOK(R, p, r),
         NEW m, Brings(R, p, m), NEW o, o = UpdateRemoteStates(r, Incoming(m))
  PROVE  /\ Merged(R, p, r, o) /\ r.proposers \subseteq o.proposers
         /\ \A q \in Proc : /\ o.node_states[q] \in {r.node_states[q], Incoming(m)[q]}
                            /\ Precedes(Incoming(m)[q], o.node_states[q])
                            /\ Incoming(m)[q].k_proposer \in o.proposers \cup {None}
                                 \/ o.node_states[q] = r.node_states[q]
<1> DEFINE incoming == Incoming(m)
<1>1. incoming \in [Proc -> NodeStates]
  BY DEF Brings
<1>2. \A q \in Proc : incoming[q] \in R[q]
  BY DEF Brings
<1>3. \A q, a \in Proc : incoming[q].k_proposer = a => incoming[a].v # NoV
  BY DEF Brings
<1>4. o = UpdateRemoteStates(r, incoming)
  OBVIOUS
<1> HIDE DEF incoming
<1>5. /\ o \in RoundStates /\ Mine(o, p) = Mine(r, p) /\ Known(R, o)
      /\ r.proposers \subseteq o.proposers
      /\ o.propagation_states = r.propagation_states
      /\ o.received_msgs = r.received_msgs
      /\ o.paxos_accept_count = r.paxos_accept_count
      /\ \A q \in Proc : /\ o.node_states[q] \in R[q]
                         /\ o.node_states[q] \in {r.node_states[q], incoming[q]}
                         /\ Precedes(r.node_states[q], o.node_states[q])
                         /\ Precedes(incoming[q], o.node_states[q])
                         /\ incoming[q].k_proposer \in o.proposers \cup {None}
                              \/ o.node_states[q] = r.node_states[q]
  BY <1>1, <1>2, <1>3, <1>4, MergeOK
<1> QED BY <1>5 DEF Merged, incoming

\* In a conflict the Spread leaves p a promise, and a census it can show.
LEMMA NotedConflict ==
  ASSUME NEW R, Good(R), NEW p \in Proc, NEW s, ShardTypeOK(p, s), RoundOK(R, p, s.round_state),
         NEW m, Brings(R, p, m), NotedAsserts(s, p, m), NEW n, n = Noted(s, p, m).round_state,
         HasConflict(Informed(s.round_state, p, m), p),
         NEW S, S = [R EXCEPT ![p] = @ \cup {Mine(n, p)}]
  PROVE  /\ Extends(R, S, p) /\ Good(S)
         /\ n \in RoundStates /\ RoundOK(S, p, n) /\ HasConflict(n, p)
<1> DEFINE r == s.round_state
           o == UpdateRemoteStates(r, Incoming(m))
           id == m.id
<1>1. /\ r \in RoundStates /\ RoundOK(R, p, r) /\ s \in Shards
      /\ m.v \in Uid /\ m.id.proposer \in Proc /\ id \in MessageId
  BY DEF ShardTypeOK, Shards, Brings, SpreadMsg, SpreadId, MessageId
<1>2. Merged(R, p, r, o)
  <2> HIDE DEF r
  <2> QED BY <1>1, MergesSpread
<1>3. TryAcceptAsserts(o, p, m.id.proposer) /\ Informed(r, p, m) = KCensusTryAccept(o, p, m.v, m.id.proposer)
  BY DEF NotedAsserts, Informed
<1>4. HasConflict(Informed(r, p, m), p)
  OBVIOUS
<1>5. n = [FreezeAndPrepareForLeaders(Informed(r, p, m), p) EXCEPT !.received_msgs = @ \cup {id}]
  BY <1>1, <1>4 DEF Noted, Shards
<1> HIDE DEF o, r
<1>6. Informed(r, p, m) = o
  BY <1>1, <1>2, <1>3, <1>4, ConflictAccepts DEF Merged
<1>7. HasConflict(o, p)
  BY <1>4, <1>6
<1>8. n = [FreezeAndPrepareForLeaders(o, p) EXCEPT !.received_msgs = @ \cup {id}]
  BY <1>5, <1>6
<1> HIDE DEF id
<1>9. Good(R) /\ S = [R EXCEPT ![p] = @ \cup {Mine(n, p)}] /\ p \in Proc
  OBVIOUS
<1>10. r \in RoundStates
  BY <1>1
<1>11. RoundOK(R, p, r)
  BY <1>1
<1>12. id \in MessageId
  BY <1>1
<1> QED BY ONLY <1>2, <1>7, <1>8, <1>9, <1>10, <1>11, <1>12, NotedInConflict

\* Without a conflict the Spread leaves p following its proposer.
LEMMA NotedPlain ==
  ASSUME NEW R, Good(R), NEW p \in Proc, NEW s, ShardTypeOK(p, s), RoundOK(R, p, s.round_state),
         NEW m, Brings(R, p, m), NotedAsserts(s, p, m), NEW n, n = Noted(s, p, m).round_state,
         ~HasConflict(Informed(s.round_state, p, m), p)
  PROVE  Follows(R, p, s.round_state, m.id.proposer, m.v, n)
<1> DEFINE r == s.round_state
           o == UpdateRemoteStates(r, Incoming(m))
           i == Informed(r, p, m)
           id == m.id
           v == m.v
           a == m.id.proposer
           incoming == [q \in Proc |-> BuildRemoteState(v, id, q)]
<1>1. /\ r \in RoundStates /\ RoundOK(R, p, r) /\ s \in Shards
      /\ v \in Uid /\ a \in Proc /\ id \in SpreadId /\ id.dest = p /\ id.proposer = a
      /\ id \in State(id.proposer, id.src, id.time).needed_by
  BY DEF ShardTypeOK, Shards, Brings, SpreadMsg, SpreadId, MessageId
<1>2. ~m.explicit /\ ~IsFrozen(Mine(i, p))
  BY DEF NotedAsserts
<1>3. Incoming(m) = incoming
  BY <1>2 DEF Incoming
<1>4. /\ Merged(R, p, r, o) /\ r.proposers \subseteq o.proposers
      /\ \A q \in Proc : /\ o.node_states[q] \in {r.node_states[q], incoming[q]}
                         /\ Precedes(incoming[q], o.node_states[q])
                         /\ incoming[q].k_proposer \in o.proposers \cup {None}
                              \/ o.node_states[q] = r.node_states[q]
  <2> HIDE DEF r, incoming
  <2> QED BY <1>1, <1>3, MergesSpread
<1>5. /\ TryAcceptAsserts(o, p, a) /\ i = KCensusTryAccept(o, p, v, a)
      /\ Accepts(o, p) => r.proposers = {}
  BY DEF NotedAsserts, Informed
<1>6. ~HasConflict(i, p) /\ n = [i EXCEPT !.received_msgs = @ \cup {id}]
  BY <1>1 DEF Noted, Shards
<1>7. \A q \in Proc : incoming[q] \in R[q]
  BY <1>3 DEF Brings
<1>8. Implied(v, id, incoming)
  BY DEF Implied
<1>9. o \in RoundStates /\ Mine(o, p) = Mine(r, p)
  BY <1>4 DEF Merged
<1>10. Mine(n, p) = Mine(i, p)
  <2>1. i \in RoundStates
    BY <1>1, <1>5, <1>9, TryAcceptType
  <2> QED BY <1>6, <2>1 DEF RoundStates, Mine
<1> HIDE DEF r, o, i, id, v, a, incoming
<1>11. Follows(R, p, r, a, v, n)
  <2>1. CASE Accepts(o, p)
    <3>1. r.proposers = {} /\ Mine(r, p).accept_round = None
      BY <1>5, <1>9, <2>1 DEF Accepts, HasConflict
    <3>2. r = ClearRound
      BY <1>1, <3>1 DEF RoundOK, Plain, HasConflict
    <3>3. /\ \A q \in Proc : r.node_states[q] = EmptyNode
          /\ r.paxos_accept_count = 0 /\ Mine(o, p) = EmptyNode
      BY <1>9, <3>2 DEF ClearRound, Mine
    <3>4. i = [SetMine(o, p, At(v, a, p, 0)) EXCEPT !.proposers = @ \cup {a}]
      BY <1>5, <2>1, <3>3 DEF KCensusTryAccept, At
    <3>5. n = FirstNoted(p, o, v, id)
      BY <1>1, <1>6, <3>4 DEF FirstNoted
    <3>6. \A q \in Proc : /\ o.node_states[q] \in {EmptyNode, incoming[q]}
                          /\ Precedes(incoming[q], o.node_states[q])
      BY <1>4, <3>3
    <3>7. o.proposers \subseteq {id.proposer}
      BY <1>1, <1>5, <2>1 DEF TryAcceptAsserts
    <3>8. ~IsFrozen(Mine(n, p))
      BY <1>2, <1>10
    <3>9. Merged(R, p, ClearRound, o) /\ RoundOK(R, p, ClearRound)
      BY <1>1, <1>4, <3>2
    <3>10. Good(R) /\ p \in Proc
      OBVIOUS
    <3>11. v \in Uid /\ id \in SpreadId /\ id.dest = p
      BY <1>1
    <3>12. id \in State(id.proposer, id.src, id.time).needed_by
      BY <1>1
    <3>13. Follows(R, p, ClearRound, id.proposer, v, n)
      BY ONLY <1>7, <1>8, <3>5, <3>6, <3>7, <3>8, <3>9, <3>10, <3>11, <3>12, FollowsFirst
    <3> QED BY <1>1, <3>2, <3>13
  <2>2. CASE ~Accepts(o, p)
    <3>1. i = o
      BY <1>5, <2>2 DEF KCensusTryAccept
    <3>2. ~HasConflict(o, p) /\ ~IsFrozen(Mine(o, p)) /\ Mine(o, p).v # NoV
      BY <1>2, <1>6, <2>2, <3>1 DEF Accepts
    <3>3. n = [o EXCEPT !.received_msgs = @ \cup {id}]
      BY <1>6, <3>1
    <3>4. Follows(R, p, r, id.proposer, v, n)
      BY <1>1, <1>4, <1>7, <1>8, <3>2, <3>3, FollowsOn
    <3> QED BY <1>1, <3>4
  <2> QED BY <2>1, <2>2
<1> QED BY <1>11 DEF r, a, v, id

-----------------------------------------------------------------------------
(* The second half of the Spread handler *)

\* Reports that grow twice have grown.
LEMMA GrownTwice ==
  ASSUME NEW H, NEW K, NEW L, NEW p \in Proc, Grown(H, K, p), Grown(K, L, p)
  PROVE  Grown(H, L, p)
<1> SUFFICES ASSUME NEW n \in Nat PROVE Extends(H[n], L[n], p)
  BY DEF Grown
<1>1. Extends(H[n], K[n], p) /\ Extends(K[n], L[n], p)
  BY DEF Grown
<1>2. ASSUME NEW h \in H[n][p], NEW g \in L[n][p] \ H[n][p] PROVE Precedes(h, g)
  <2>1. CASE g \in K[n][p]
    BY <1>1, <2>1 DEF Extends
  <2>2. CASE g \notin K[n][p]
    BY <1>1, <2>2 DEF Extends
  <2> QED BY <2>1, <2>2
<1> QED BY <1>1, <1>2 DEF Extends

\* A leader's vote for what it proposes is explained if the vote is safe.
LEMMA AcceptExplained ==
  ASSUME HandlersTypeOK, NEW H, NEW K, NEW p \in Proc, Grown(H, K, p),
         NEW chan, ChannelsTypeOK(chan), Handling(H, chan),
         NEW s, ShardTypeOK(p, s), ShardOK(K, p, s), NEW v \in Uid, NEW newValue \in BOOLEAN,
         Mine(s.round_state, p).prepared_for = p, Mine(s.round_state, p).accept_round < p,
         Safe(K[Slot(s)], p, v), GraphSeparates => FastSafe(K[Slot(s)], v),
         NEW out, SentOK(K, out), AcceptInFallback(p, s, v, newValue, chan, out)
  PROVE  \E L : /\ Grown(H, L, p) /\ Grown(K, L, p)
                /\ \A q \in Proc : ShardOK(L, q, shard'[q])
                /\ ChannelsOK(L, net')
<1> DEFINE S == K[Slot(s)]
           o == s.round_state
           r == VoteFor(o, p, p, v)
           U == Voting(S, p, p, v)
           L == InSlot(K, Slot(s), U)
           ok == AdoptAsserts(o)
           t == Panic([s EXCEPT !.round_state = r], ok)
           dest == IF newValue THEN Proc ELSE AliveReplicas
           accept == [type |-> "PaxosAccept", slot |-> Slot(s), src |-> p,
                      leader |-> p, v |-> v, new_value |-> newValue]
<1>1. /\ Slot(s) \in Nat /\ s \in Shards /\ o \in RoundStates
      /\ Good(S) /\ RoundOK(S, p, o)
  BY SlotType DEF ShardTypeOK, Shards, Grown, GoodHistory, ShardOK
<1>2. Mine(o, p) \in NodeStates /\ Mine(o, p) \in S[p] /\ Mine(o, p).prepared_for = p
  BY <1>1, MineType DEF RoundOK, Mine
<1>3. p \in AliveReplicas
  <2>1. Mine(o, p).prepared_for \in AliveReplicas \cup {None}
    BY <1>1, <1>2, ReportFacts DEF Sound
  <2> QED BY <1>2, <2>1, ProcIsNat DEF None
<1>4. Mine(o, p).prepared_for <= p /\ Mine(o, p).accept_round < p
  BY <1>2, ProcIsNat
<1>5. Safe(S, p, v) /\ (GraphSeparates => FastSafe(S, v))
  OBVIOUS
<1>6. accept \in PaxosAcceptMsg
  BY <1>1 DEF PaxosAcceptMsg
<1>7. ok \in BOOLEAN
  BY DEF AdoptAsserts
<1>8. Become(p, t, chan, Then(out, ToOthers(p, dest, accept)))
  BY DEF AcceptInFallback
<1>9. t = Panic([s EXCEPT !.round_state = r], ok) /\ o = s.round_state
  OBVIOUS
<1>10. accept.type = "PaxosAccept" /\ accept.slot = Slot(s) /\ accept.src = p
       /\ accept.leader = p /\ accept.v = v
  OBVIOUS
<1> HIDE DEF S, o, r, ok, t, dest, accept
<1>11. /\ Extends(S, U, p) /\ Good(U) /\ r \in RoundStates /\ RoundOK(U, p, r)
       /\ VoteOf(p, v) \in U[p]
  <2>1. r = VoteFor(o, p, p, v) /\ U = Voting(S, p, p, v)
    BY DEF r
  <2> HIDE DEF U
  <2> QED BY <1>1, <1>3, <1>4, <1>5, <2>1, VotedRound
<1> HIDE DEF U
<1>12. ShardTypeOK(p, t)
  BY <1>7, <1>9, <1>11, ShardUpdate, PanicType
<1>13. t.log = s.log /\ t.queued_messages = s.queued_messages /\ t.round_state = r
  BY <1>1, <1>9, <1>11 DEF Panic, Shards
<1>14. L = InSlot(K, Slot(s), U) /\ S = K[Slot(s)]
  BY DEF S
<1>15. L[Slot(s)] = U
  BY <1>1 DEF Grown, GoodHistory, Histories, InSlot
<1> HIDE DEF L
<1>16. Grown(K, L, p) /\ ShardOK(L, p, t)
  <2>1. GoodHistory(K) /\ Extends(K[Slot(s)], U, p)
    BY <1>11, <1>14 DEF Grown
  <2>2. RoundOK(U, p, t.round_state)
    BY <1>11, <1>13
  <2>3. ShardOK(K, p, s)
    OBVIOUS
  <2> QED BY ONLY <1>1, <1>11, <1>13, <1>14, <2>1, <2>2, <2>3, SameSlot, p \in Proc
<1>17. Grown(H, L, p)
  BY <1>16, GrownTwice
<1>18. MsgOK(L, accept)
  BY <1>3, <1>10, <1>11, <1>15 DEF MsgOK
<1>19. SentOK(L, Then(out, ToOthers(p, dest, accept)))
  <2>1. SentOK(L, out)
    BY <1>16, MessagesGrow DEF SentOK
  <2> QED BY <1>6, <1>18, <2>1, ToOthersSent, ThenSent
<1>20. (\A q \in Proc : ShardOK(L, q, shard'[q])) /\ ChannelsOK(L, net')
  <2> t \in Shards
    BY <1>12 DEF ShardTypeOK
  <2> QED BY <1>8, <1>16, <1>17, <1>19, BecomeExplained
<1> QED BY <1>16, <1>17, <1>20

\* Starting the fallback is explained: what the census obliges p to is safe, and so is
\* anything when it obliges p to nothing.
LEMMA StartFallbackExplained ==
  ASSUME HandlersTypeOK, NEW H, NEW K, NEW p \in Proc, Grown(H, K, p),
         NEW chan, ChannelsTypeOK(chan), Handling(H, chan),
         NEW s, ShardTypeOK(p, s), ShardOK(K, p, s), NEW v \in Uid,
         CanStartPaxosAccept(s.round_state, p),
         NEW out, SentOK(K, out), StartFallback(p, s, v, chan, out)
  PROVE  \E L : Explains(L, net)'
<1> DEFINE o == s.round_state
           S == K[Slot(s)]
           choices == AdoptChoices(o)
           batch == BatchOf(s, p)
           t == StoreNewCommand(s, batch)
<1>1. /\ Slot(s) \in Nat /\ s \in Shards /\ o \in RoundStates
      /\ Good(S) /\ RoundOK(S, p, o)
  BY SlotType DEF ShardTypeOK, Shards, Grown, GoodHistory, ShardOK
<1>2. Census(S, p, o) /\ Mine(o, p).prepared_for = p /\ Mine(o, p).accept_round < p
  BY <1>1 DEF Census, CanStartPaxosAccept, RoundOK
<1>3. batch \in Uid
  BY <1>1, BatchOfType
<1>4. ShardTypeOK(p, t) /\ t.round_state = o /\ t.queued_messages = s.queued_messages
  BY <1>3, StoreNewCommandType
<1>5. ShardOK(K, p, t) /\ Slot(t) = Slot(s)
  <2>1. t.log = s.log
    BY <1>1 DEF StoreNewCommand, Shards
  <2>2. t.queued_messages \in Seq(GoodTo(K, p))
    BY <1>4 DEF ShardOK
  <2> HIDE DEF t
  <2> QED BY <1>4, <2>1, <2>2, SameReports DEF Slot
<1> HIDE DEF o, S, t, batch
<1>6. ASSUME NEW x, choices # {} => x \in choices
      PROVE  Safe(S, p, x) /\ (GraphSeparates => FastSafe(S, x))
  <2>1. Voted(o) # {} => x = o.node_states[HighestVote(o)].v
    BY <1>6 DEF AdoptChoices
  <2>2. Safe(S, p, x)
    BY <1>1, <1>2, <2>1, NewVoteSafe
  <2>3. ASSUME GraphSeparates PROVE FastSafe(S, x)
    <3> HIDE DEF choices
    <3>1. /\ \A y \in AdoptChoices(o) : FastSafe(S, y)
          /\ AdoptChoices(o) = {} => \A b \in Proc : Dead(S, b)
      BY <1>1, <1>2, <2>3, AdoptionSafe
    <3>2. CASE choices = {}
      BY <3>1, <3>2 DEF choices, FastSafe
    <3>3. CASE choices # {}
      BY <1>6, <3>1, <3>3 DEF choices
    <3> QED BY <3>2, <3>3
  <2> QED BY <2>2, <2>3
<1>7. \A x \in choices : x \in Uid
  BY <1>1, <1>2, AdoptedIsCommand
<1>8. FallbackOK(S, choices)
  <2>1. CASE GraphSeparates
    BY <1>1, <1>2, <2>1, AdoptionSafe
  <2>2. CASE ~GraphSeparates
    BY <2>2 DEF FallbackOK
  <2> QED BY <2>1, <2>2
<1>9. \/ \E w \in choices : AcceptInFallback(p, s, IF w = NoV THEN v ELSE w, FALSE, chan, out)
      \/ choices = {} /\ AcceptInFallback(p, t, batch, TRUE, chan, out)
      \/ choices = {} /\ AcceptInFallback(p, s, v, FALSE, chan, out)
  BY DEF StartFallback, o, batch, t
<1>10. /\ fallbacks' = fallbacks \cup {[slot |-> Slot(s), leader |-> p, choices |-> choices]}
       /\ UNCHANGED decided
  BY DEF StartFallback, o
<1>11. o = s.round_state /\ S = K[Slot(s)]
  BY DEF o, S
<1> HIDE DEF choices
<1> DEFINE Onward(L) == /\ Grown(H, L, p) /\ Grown(K, L, p)
                      /\ \A q \in Proc : ShardOK(L, q, shard'[q])
                      /\ ChannelsOK(L, net')
<1>12. ASSUME NEW w \in choices, AcceptInFallback(p, s, IF w = NoV THEN v ELSE w, FALSE, chan, out)
       PROVE  \E L : Onward(L)
  <2>1. w \in Uid /\ (IF w = NoV THEN v ELSE w) = w
    BY <1>7, NoneIsNobody
  <2>2. Safe(S, p, w) /\ (GraphSeparates => FastSafe(S, w))
    BY <1>6
  <2>3. AcceptInFallback(p, s, w, FALSE, chan, out)
    BY <1>12, <2>1
  <2> QED BY <1>2, <1>11, <2>1, <2>2, <2>3, AcceptExplained
<1>13. ASSUME choices = {}, AcceptInFallback(p, t, batch, TRUE, chan, out)
       PROVE  \E L : Onward(L)
  <2>1. Safe(S, p, batch) /\ (GraphSeparates => FastSafe(S, batch))
    BY <1>6, <1>13
  <2> QED BY <1>2, <1>3, <1>4, <1>5, <1>11, <1>13, <2>1, AcceptExplained
<1>14. ASSUME choices = {}, AcceptInFallback(p, s, v, FALSE, chan, out)
       PROVE  \E L : Onward(L)
  <2>1. Safe(S, p, v) /\ (GraphSeparates => FastSafe(S, v))
    BY <1>6, <1>14
  <2> QED BY <1>2, <1>11, <1>14, <2>1, AcceptExplained
<1>15. \E L : Onward(L)
  BY <1>9, <1>12, <1>13, <1>14
<1>16. PICK L : Onward(L)
  BY <1>15
<1>17. HistoryOK(L)
  BY <1>16, HistoryGrows DEF Handling, HandlersTypeOK
<1>18. FallbackOK(L[Slot(s)], choices)
  BY <1>1, <1>8, <1>11, <1>16, FallbackGrows DEF Grown
<1>19. HistoryOK(L)'
  <2> DEFINE e == [slot |-> Slot(s), leader |-> p, choices |-> choices]
  <2>1. e.slot = Slot(s) /\ e.choices = choices /\ fallbacks' = fallbacks \cup {e}
    BY <1>10
  <2> HIDE DEF e
  <2> QED BY <1>10, <1>17, <1>18, <2>1 DEF HistoryOK
<1>20. GoodHistory(L)
  BY <1>16 DEF Grown
<1> QED BY <1>16, <1>19, <1>20 DEF Explains

\* The end of the walk is explained, if a proposer's leader that came to the end of the
\* schedule without a conflict may decide.
LEMMA ConcludeExplained ==
  ASSUME HandlersTypeOK, NEW H, NEW K, NEW p \in Proc, Grown(H, K, p),
         NEW chan, ChannelsTypeOK(chan), Handling(H, chan),
         NEW walked, ShardTypeOK(p, walked), ShardOK(K, p, walked), NEW m \in SpreadMsg,
         NEW conflict \in BOOLEAN,
         (~conflict /\ Leader(m.id.proposer) = p
            /\ AtEndOfSchedule(walked.round_state, p, m.id.proposer)) =>
           FastDecided(K[Slot(walked)], m.v),
         NEW out, SentOK(K, out), Conclude(p, m, conflict, walked, out, chan)
  PROVE  \E L : Explains(L, net)'
<1> DEFINE r       == walked.round_state
           commits == ~conflict /\ Leader(m.id.proposer) = p /\ AtEndOfSchedule(r, p, m.id.proposer)
           leads   == ~commits /\ Mine(r, p).prepared_for = p
           asserts == /\ commits => CanKCensusCommit(r, p)
                      /\ leads => conflict /\ p \in AliveReplicas
           s       == Panic(walked, asserts)
<1>1. m.v \in Uid
  BY DEF SpreadMsg
<1>2. commits => FastDecided(K[Slot(walked)], m.v)
  OBVIOUS
<1> HIDE DEF commits, leads
<1>3. asserts \in BOOLEAN
  OBVIOUS
<1> HIDE DEF asserts
<1>4. /\ s.round_state = r /\ s.log = walked.log
      /\ s.queued_messages = walked.queued_messages
  BY DEF Panic, ShardTypeOK, Shards
<1>5. ShardTypeOK(p, s)
  BY <1>3, PanicType
<1> HIDE DEF s
<1>6. ShardOK(K, p, s) /\ Slot(s) = Slot(walked)
  <2>1. s.queued_messages \in Seq(GoodTo(K, p))
    BY <1>4 DEF ShardOK
  <2> QED BY <1>4, <2>1, SameReports DEF Slot
<1>7. \/ commits /\ Decide(p, s, m.v, TRUE, chan, out)
      \/ CanStartPaxosAccept(r, p) /\ StartFallback(p, s, m.v, chan, out)
      \/ Become(p, s, chan, out) /\ UNCHANGED history
  BY DEF Conclude, r, commits, leads, asserts, s
<1>8. CASE commits /\ Decide(p, s, m.v, TRUE, chan, out)
  <2>1. FastDecided(K[Slot(s)], m.v)
    BY <1>2, <1>6, <1>8
  <2>2. PICK fast \in BOOLEAN : fast /\ Decide(p, s, m.v, fast, chan, out)
    BY <1>8
  <2>3. Explains(K, net)'
    BY <1>1, <1>5, <1>6, <2>1, <2>2, DecideExplained
  <2> QED BY <2>3
<1>9. CASE CanStartPaxosAccept(r, p) /\ StartFallback(p, s, m.v, chan, out)
  <2>1. CanStartPaxosAccept(s.round_state, p)
    BY <1>4, <1>9
  <2> QED BY <1>1, <1>5, <1>6, <1>9, <2>1, StartFallbackExplained
<1>10. CASE Become(p, s, chan, out) /\ UNCHANGED history
  <2>1. s \in Shards
    BY <1>5 DEF ShardTypeOK
  <2>2. Explains(K, net)'
    BY <1>6, <1>10, <2>1, StepExplained
  <2> QED BY <2>2
<1> QED BY <1>7, <1>8, <1>9, <1>10

\* p, following a, walks on: what it sends is implied by the plan, and the leader that
\* comes to the end knows the command met its requirements.
LEMMA WalksOn ==
  ASSUME NEW R, Good(R), NEW p \in Proc, NEW r \in RoundStates, RoundOK(R, p, r),
         NEW a \in Proc, NEW v \in Uid, NEW n, Follows(R, p, r, a, v, n),
         NEW conflict \in BOOLEAN, ~conflict, NEW o, o = Advance(n, p, a, conflict),
         NEW S, S = Walking(R, p, a, v, n)
  PROVE  /\ Extends(R, S, p) /\ Good(S) /\ RoundOK(S, p, o) /\ o \in RoundStates
         /\ n \in RoundStates /\ ~HasConflict(n, p)
         /\ Leader(a) = p /\ AtEndOfSchedule(o, p, a) => FastDecided(S, v)
         /\ \A u \in Reached(n, p, a) : \A id \in State(a, p, u).needed_by : \A z \in Proc :
              BuildRemoteState(v, id, z) \in S[z]
<1> DEFINE t == WalksTo(n, p, a)
<1>1. /\ Following(R, p, a, v, n) /\ n.paxos_accept_count = r.paxos_accept_count
      /\ \A q \in Proc : Precedes(r.node_states[q], n.node_states[q])
  BY DEF Follows
<1>2. /\ Extends(R, S, p) /\ Good(S) /\ RoundOK(S, p, o)
      /\ \A u \in Reached(n, p, a) : At(v, a, p, u) \in S[p]
  BY <1>1, WalkedPlain
<1>3. o \in RoundStates /\ o.propagation_states[a] = t
  BY <1>1, WalkedRound
<1>4. /\ n \in RoundStates /\ n.proposers = {a}
      /\ n.propagation_states[a] \in Nat /\ n.propagation_states[a] \in StateIds(a, p)
      /\ Mine(n, p) = At(v, a, p, n.propagation_states[a])
      /\ At(v, a, a, 0) \in R[a]
      /\ \A id \in n.received_msgs : \A q \in Proc : BuildRemoteState(v, id, q) \in R[q]
  BY <1>1 DEF Following, RoundStates
<1>5. ~HasConflict(n, p)
  <2>1. Mine(n, p).accept_round = None
    BY <1>4, AtFields
  <2> QED BY <1>4, <2>1 DEF HasConflict
<1>6. /\ t \in StateIds(a, p) /\ t \in Nat
      /\ \A u \in Reached(n, p, a) : u \in StateIds(a, p) /\ u \in Nat /\ u <= t
      /\ \A u \in StateIds(a, p) : u <= t => State(a, p, u).dependencies \subseteq n.received_msgs
  BY <1>1, WalkBounds
<1>7. At(v, a, p, t) \in S[p]
  BY DEF Walking, Good, Reports
<1> HIDE DEF t
<1>8. ASSUME Leader(a) = p, AtEndOfSchedule(o, p, a) PROVE FastDecided(S, v)
  <2>1. WalksTo(n, p, a) = FinalStateId(a, p) /\ At(v, a, p, FinalStateId(a, p)) \in S[p]
    BY <1>3, <1>7, <1>8 DEF AtEndOfSchedule, t
  <2>2. Full(S, a, v)
    BY <1>1, <1>2, <1>8, <2>1, EndIsFull
  <2> QED BY <2>2 DEF FastDecided
<1>9. ASSUME NEW u \in Reached(n, p, a), NEW id \in State(a, p, u).needed_by, NEW z \in Proc
      PROVE  BuildRemoteState(v, id, z) \in S[z]
  <2>1. u \in StateIds(a, p) /\ At(v, a, p, u) \in S[p]
    BY <1>2, <1>6
  <2>2. \A q \in Proc : R[q] \subseteq S[q]
    BY <1>2 DEF Extends
  <2>3. At(v, a, a, 0) \in S[a]
    BY <1>4, <2>2
  <2>4. \A s \in n.received_msgs : \A q \in Proc : BuildRemoteState(v, s, q) \in S[q]
    BY <1>4, <2>2
  <2>5. \A w \in StateIds(a, p) : w <= u => State(a, p, w).dependencies \subseteq n.received_msgs
    <3> TAKE w \in StateIds(a, p)
    <3>1. w \in Nat
      BY PlanFacts
    <3>2. w <= u => w <= t
      BY <1>6, <3>1
    <3> QED BY <1>6, <3>2
  <2> QED BY <1>2, <2>1, <2>3, <2>4, <2>5, ImpliedReports
<1> QED BY <1>2, <1>3, <1>4, <1>5, <1>8, <1>9

\* The walk of a Spread that was noted is explained: S are the slot's reports after it.
LEMMA WalkExplained ==
  ASSUME HandlersTypeOK, NEW H, NEW p \in Proc,
         NEW chan, ChannelsTypeOK(chan), Handling(H, chan),
         NEW s, ShardTypeOK(p, s), ShardOK(H, p, s), NEW m \in SpreadMsg,
         NEW noted, ShardTypeOK(p, noted), noted.log = s.log,
         noted.queued_messages = s.queued_messages,
         NEW conflict \in BOOLEAN, conflict = HasConflict(noted.round_state, p),
         NEW o \in RoundStates, o = Advance(noted.round_state, p, m.id.proposer, conflict),
         NEW S, Good(S), Extends(H[Slot(s)], S, p), RoundOK(S, p, o),
         conflict => RoundOK(S, p, noted.round_state),
         ~conflict =>
           /\ Leader(m.id.proposer) = p /\ AtEndOfSchedule(o, p, m.id.proposer) => FastDecided(S, m.v)
           /\ \A u \in Reached(noted.round_state, p, m.id.proposer) :
                \A id \in State(m.id.proposer, p, u).needed_by : \A z \in Proc :
                  BuildRemoteState(m.v, id, z) \in S[z],
         WalkFrom(p, m, noted, chan)
  PROVE  \E L : Explains(L, net)'
<1> DEFINE a       == m.id.proposer
           reached == Reached(noted.round_state, p, a)
           sends   == SpreadsAsserts(noted.round_state, p, m.v, a, reached)
           walked  == Panic([noted EXCEPT !.round_state = o], sends)
           out     == Spreads(noted, p, m.v, a, reached, m.new_value)
           K       == InSlot(H, Slot(s), S)
<1>1. a \in Proc /\ m.v \in Uid /\ m.new_value \in BOOLEAN
  BY DEF SpreadMsg, SpreadId, MessageId
<1>2. /\ noted \in Shards /\ noted.round_state \in RoundStates
      /\ s \in Shards /\ Slot(noted) = Slot(s) /\ Slot(s) \in Nat
  BY SlotType DEF ShardTypeOK, Shards, Slot
<1>3. reached \subseteq StateIds(a, p)
  BY <1>1, <1>2, ReachedType
<1>4. sends \in BOOLEAN
  BY DEF SpreadsAsserts
<1>5. Conclude(p, m, conflict, walked, out, chan)
  BY DEF WalkFrom, WalkSchedule
<1>6. ~conflict => (Leader(a) = p /\ AtEndOfSchedule(o, p, a) => FastDecided(S, m.v))
  OBVIOUS
<1>7. ~conflict => \A u \in reached : \A id \in State(a, p, u).needed_by : \A z \in Proc :
                     BuildRemoteState(m.v, id, z) \in S[z]
  OBVIOUS
<1>8. ShardTypeOK(p, walked) /\ walked.log = s.log /\ walked.round_state = o
      /\ walked.queued_messages = s.queued_messages
  <2> HIDE DEF sends
  <2>1. ShardTypeOK(p, walked)
    BY <1>4, ShardUpdate, PanicType
  <2>2. walked.log = s.log /\ walked.round_state = o /\ walked.queued_messages = s.queued_messages
    BY <1>2 DEF Panic, Shards
  <2> QED BY <2>1, <2>2
<1> HIDE DEF walked
<1>9. K = InSlot(H, Slot(s), S) /\ GoodHistory(H) /\ ShardOK(H, p, s)
  BY DEF Handling
<1>10. K[Slot(s)] = S
  BY <1>2, <1>9 DEF GoodHistory, Histories, InSlot
<1> HIDE DEF K
<1>11. Grown(H, K, p) /\ ShardOK(K, p, walked)
  <2>1. Good(S) /\ Extends(H[Slot(s)], S, p)
    OBVIOUS
  <2>2. RoundOK(S, p, walked.round_state)
    BY <1>8
  <2> QED BY ONLY <1>2, <1>8, <1>9, <2>1, <2>2, SameSlot, p \in Proc
<1>12. SentOK(K, out)
  <2>1. S = K[Slot(noted)] /\ reached \in SUBSET StateIds(a, p)
    BY <1>2, <1>3, <1>10
  <2> HIDE DEF reached, a
  <2> QED BY <1>1, <1>2, <1>7, <2>1, SpreadsSent
<1> HIDE DEF out
<1>13. Slot(walked) = Slot(s)
  BY <1>8 DEF Slot
<1>14. (~conflict /\ Leader(a) = p /\ AtEndOfSchedule(walked.round_state, p, a)) =>
         FastDecided(K[Slot(walked)], m.v)
  BY <1>6, <1>8, <1>10, <1>13
<1> QED BY <1>5, <1>8, <1>11, <1>12, <1>14, ConcludeExplained

\* A Spread is explained: a conflict only ever adds what p itself promises, and without
\* one p goes on in the schedule it follows.
LEMMA SpreadExplained ==
  ASSUME HandlersTypeOK, NEW H, NEW p \in Proc, NEW chan, ChannelsTypeOK(chan), Handling(H, chan),
         NEW m \in GoodTo(H, p), NEW s, ShardTypeOK(p, s), ShardOK(H, p, s),
         Spread(p, m, s, chan)
  PROVE  \E K : Explains(K, net)'
<1> DEFINE noted == Noted(s, p, m)
           n == noted.round_state
           r == s.round_state
           a == m.id.proposer
           conflict == HasConflict(n, p)
           o == Advance(n, p, a, conflict)
           R == H[Slot(s)]
<1>1. /\ m \in MessageTo(p) /\ m.type = "Spread" /\ m.slot = Slot(s)
      /\ m \in SpreadMsg /\ a \in Proc /\ m.v \in Uid
  BY MessageToIsMessage, MessageKinds DEF Spread, GoodTo, SpreadMsg, SpreadId, MessageId
<1>2. /\ Slot(s) \in Nat /\ s \in Shards /\ r \in RoundStates
      /\ Good(R) /\ RoundOK(R, p, r)
  BY SlotType DEF ShardTypeOK, Shards, Handling, GoodHistory, ShardOK
<1>3. Brings(R, p, m)
  BY <1>1, SpreadBrings
<1>4. CASE ~NotedAsserts(s, p, m)
  <2> DEFINE t == Panic(s, FALSE)
  <2>1. Become(p, t, chan, Nothing) /\ UNCHANGED history
    BY <1>4 DEF Spread
  <2>2. t.round_state = r /\ t.log = s.log /\ t.queued_messages = s.queued_messages
    BY <1>2 DEF Panic, Shards
  <2>3. t \in Shards
    BY PanicType DEF ShardTypeOK
  <2> HIDE DEF t
  <2>4. t.queued_messages \in Seq(GoodTo(H, p))
    BY <2>2 DEF ShardOK
  <2>5. ShardOK(H, p, t)
    BY <2>2, <2>4, SameReports
  <2>6. Grown(H, H, p)
    BY NothingGrows DEF Handling
  <2>7. Explains(H, net)'
    BY <2>1, <2>3, <2>5, <2>6, NothingSent, StepExplained
  <2> QED BY <2>7
<1>5. CASE NotedAsserts(s, p, m)
  <2>1. WalkFrom(p, m, noted, chan)
    BY <1>5 DEF Spread
  <2>2. ShardTypeOK(p, noted)
    BY <1>1, NotedType
  <2>3. noted.log = s.log /\ noted.queued_messages = s.queued_messages
    BY <1>2 DEF Noted, Shards
  <2>4. n = Noted(s, p, m).round_state /\ n = noted.round_state
    OBVIOUS
  <2> HIDE DEF noted
  <2>5. n \in RoundStates
    BY <2>2 DEF ShardTypeOK, Shards
  <2> HIDE DEF n
  <2>6. conflict \in BOOLEAN
    BY DEF HasConflict
  <2>7. CASE HasConflict(Informed(r, p, m), p)
    <3> DEFINE S == [R EXCEPT ![p] = @ \cup {Mine(n, p)}]
    <3>1. /\ Extends(R, S, p) /\ Good(S) /\ RoundOK(S, p, n) /\ conflict
      BY <1>2, <1>3, <1>5, <2>4, <2>7, NotedConflict
    <3> HIDE DEF S, conflict
    <3>2. conflict = HasConflict(n, p) /\ HasConflict(n, p)
      BY <3>1 DEF conflict
    <3>3. o \in RoundStates /\ RoundOK(S, p, o)
      BY <1>1, <2>5, <2>6, <3>1, <3>2, WalkedInConflict
    <3>4. Extends(H[Slot(s)], S, p) /\ o = Advance(noted.round_state, p, m.id.proposer, conflict)
      BY <2>4, <3>1
    <3>5. conflict = HasConflict(noted.round_state, p) /\ RoundOK(S, p, noted.round_state)
      BY <2>4, <3>1, <3>2
    <3> HIDE DEF o
    <3> QED BY <1>1, <2>1, <2>2, <2>3, <2>6, <3>1, <3>3, <3>4, <3>5, WalkExplained
  <2>8. CASE ~HasConflict(Informed(r, p, m), p)
    <3> DEFINE S == Walking(R, p, a, m.v, n)
    <3>1. Follows(R, p, r, a, m.v, n)
      BY <1>2, <1>3, <1>5, <2>4, <2>8, NotedPlain
    <3>2. ~HasConflict(n, p) /\ ~conflict
      <4>1. Following(R, p, a, m.v, n)
        BY <3>1 DEF Follows
      <4>2. n.proposers = {a} /\ Mine(n, p).accept_round = None
        BY <4>1 DEF Following, Mine
      <4> QED BY <4>2 DEF HasConflict
    <3> HIDE DEF S, conflict
    <3>3. S = Walking(R, p, a, m.v, n) /\ o = Advance(n, p, a, conflict)
      BY DEF S
    <3> HIDE DEF o, a
    <3>4. /\ Extends(R, S, p) /\ Good(S) /\ RoundOK(S, p, o) /\ o \in RoundStates
          /\ Leader(a) = p /\ AtEndOfSchedule(o, p, a) => FastDecided(S, m.v)
          /\ \A u \in Reached(n, p, a) : \A id \in State(a, p, u).needed_by : \A z \in Proc :
               BuildRemoteState(m.v, id, z) \in S[z]
      BY <1>1, <1>2, <2>6, <3>1, <3>2, <3>3, WalksOn
    <3>5. /\ Extends(H[Slot(s)], S, p) /\ o = Advance(noted.round_state, p, m.id.proposer, conflict)
          /\ conflict = HasConflict(noted.round_state, p)
      BY <2>4, <3>2, <3>3, <3>4 DEF conflict, a
    <3>6. /\ Leader(m.id.proposer) = p /\ AtEndOfSchedule(o, p, m.id.proposer) => FastDecided(S, m.v)
          /\ \A u \in Reached(noted.round_state, p, m.id.proposer) :
               \A id \in State(m.id.proposer, p, u).needed_by : \A z \in Proc :
                 BuildRemoteState(m.v, id, z) \in S[z]
      BY <2>4, <3>4 DEF a
    <3> QED BY <1>1, <2>1, <2>2, <2>3, <2>6, <3>2, <3>4, <3>5, <3>6, WalkExplained
  <2> QED BY <2>7, <2>8
<1> QED BY <1>4, <1>5

-----------------------------------------------------------------------------
(* The PaxosAccept handler *)

\* Whoever promised l, or a higher leader, does not change its census by promising l.
LEMMA PromisedAlready ==
  ASSUME NEW r \in RoundStates, NEW p \in Proc, NEW l \in Proc, ~(Mine(r, p).prepared_for < l)
  PROVE  FreezeAndPrepareFor(r, p, l) = r
<1> DEFINE o == FreezeAndPrepareFor(r, p, l)
<1>1. PrepareFor(Mine(r, p), l) = Mine(r, p)
  BY DEF PrepareFor
<1>2. o = SetMine(r, p, Mine(r, p))
  BY <1>1 DEF FreezeAndPrepareFor
<1>3. \A q \in Proc : Replace(r.node_states, p, Mine(r, p))[q] = r.node_states[q]
  BY DEF Replace, Mine
<1>4. Replace(r.node_states, p, Mine(r, p)) = r.node_states
  BY <1>3 DEF Replace, RoundStates
<1> QED BY <1>2, <1>4 DEF SetMine, RoundStates

\* p's own view after the promise.
LEMMA PromisedView ==
  ASSUME NEW r \in RoundStates, NEW p \in Proc, NEW l \in Proc
  PROVE  Mine(FreezeAndPrepareFor(r, p, l), p) = PrepareFor(Mine(r, p), l)
<1>1. PrepareFor(Mine(r, p), l) \in NodeStates
  BY MineType, PrepareForType DEF OptProc
<1> QED BY <1>1, SetMineType DEF FreezeAndPrepareFor

\* A replica that is not bound to the leader only confirms what it had promised.
LEMMA UnboundStays ==
  ASSUME NEW r \in RoundStates, NEW p \in Proc, NEW l \in Proc,
         Mine(FreezeAndPrepareFor(r, p, l), p).prepared_for # l
  PROVE  FreezeAndPrepareFor(r, p, l) = r
<1>1. Mine(r, p) \in NodeStates
  BY MineType
<1>2. Mine(r, p).prepared_for < l => PrepareFor(Mine(r, p), l).prepared_for = l
  BY <1>1 DEF PrepareFor, NodeStates
<1> QED BY <1>2, PromisedView, PromisedAlready

\* The vote of a replica that is bound to the leader l.
LEMMA ReplicaVotes ==
  ASSUME NEW R, Good(R), NEW p \in Proc, NEW r \in RoundStates, RoundOK(R, p, r),
         NEW l \in AliveReplicas, NEW v \in Uid, VoteOf(l, v) \in R[l], l # p,
         NEW o, o = FreezeAndPrepareFor(r, p, l), Mine(o, p).prepared_for = l,
         NEW n, n = VoteFor(o, p, l, v)
  PROVE  \E S : /\ Extends(R, S, p) /\ Good(S) /\ n \in RoundStates /\ RoundOK(S, p, n)
                /\ VoteOf(l, v) \in S[p]
<1> DEFINE h == Mine(r, p)
           g == PrepareFor(h, l)
<1>1. l \in Proc /\ l \in Int /\ l # None
  <2>1. l \in Proc
    BY ReplicasFinite
  <2> QED BY <2>1, ProcIsNat, NoneIsNobody
<1>2. h \in NodeStates /\ h \in R[p]
  BY MineType DEF RoundOK, Mine
<1>3. /\ h.prepared_for \in Int /\ h.accept_round \in Int /\ h.accept_round <= h.prepared_for
  BY <1>2, ReportFacts, Ranks DEF Sound
<1>4. Mine(o, p) = g
  BY <1>1, PromisedView
<1>5. h.prepared_for <= l
  <2>1. ~(h.prepared_for < l) => g = h
    BY DEF PrepareFor
  <2> HIDE DEF g, h
  <2>2. CASE h.prepared_for < l
    BY <1>1, <1>3, <2>2
  <2>3. CASE ~(h.prepared_for < l)
    <3>1. h.prepared_for = l
      BY <1>4, <2>1, <2>3
    <3> QED BY <1>1, <3>1
  <2> QED BY <2>2, <2>3
<1>6. CASE h.accept_round < l
  <2>1. g.prepared_for = l /\ g.accept_round = h.accept_round
    <3>1. g.prepared_for = l
      BY <1>4
    <3>2. g.accept_round = h.accept_round
      BY <1>2 DEF PrepareFor, NodeStates
    <3> QED BY <3>1, <3>2
  <2>2. Votes(g, l) /\ Votes(h, l)
    BY <1>1, <1>5, <1>6, <2>1 DEF Votes
  <2>3. PaxosAccept(g, l, v) = PaxosAccept(h, l, v)
    BY <2>2 DEF PaxosAccept
  <2> DEFINE x == PaxosAccept(h, l, v)
  <2>4. n = [SetMine(o, p, x) EXCEPT !.paxos_accept_count = @]
    <3>1. n = [SetMine(o, p, x) EXCEPT !.paxos_accept_count = IF l = p /\ Votes(g, l) THEN @ + 1 ELSE @]
      BY <1>4, <2>3 DEF VoteFor
    <3> QED BY <3>1
  <2>5. VoteFor(r, p, l, v) = [SetMine(r, p, x) EXCEPT !.paxos_accept_count = @]
    BY DEF VoteFor
  <2>6. o = SetMine(r, p, g)
    BY DEF FreezeAndPrepareFor
  <2> HIDE DEF x, g, h
  <2>7. n = VoteFor(r, p, l, v)
    <3>1. \A q \in Proc : Replace(Replace(r.node_states, p, g), p, x)[q] = Replace(r.node_states, p, x)[q]
      BY DEF Replace
    <3>2. Replace(Replace(r.node_states, p, g), p, x) = Replace(r.node_states, p, x)
      BY <3>1 DEF Replace
    <3>3. SetMine(o, p, x) = SetMine(r, p, x)
      BY <2>6, <3>2 DEF SetMine, RoundStates
    <3> QED BY <2>4, <2>5, <3>3
  <2>8. Mine(r, p).prepared_for <= l /\ Mine(r, p).accept_round < l
    BY <1>5, <1>6 DEF h
  <2> DEFINE U == Voting(R, p, l, v)
  <2>9. U = Voting(R, p, l, v)
    OBVIOUS
  <2> HIDE DEF U
  <2>10. /\ Extends(R, U, p) /\ Good(U) /\ n \in RoundStates /\ RoundOK(U, p, n)
         /\ VoteOf(l, v) \in U[p]
    <3>1. l = p => Safe(R, p, v) /\ (GraphSeparates => FastSafe(R, v))
      OBVIOUS
    <3>2. l # p => VoteOf(l, v) \in R[l]
      OBVIOUS
    <3>3. Good(R) /\ r \in RoundStates /\ RoundOK(R, p, r) /\ l \in AliveReplicas /\ v \in Uid
      OBVIOUS
    <3> QED BY ONLY <2>7, <2>8, <2>9, <3>1, <3>2, <3>3, VotedRound, p \in Proc
  <2> QED BY <2>10
<1>7. CASE ~(h.accept_round < l)
  <2>1. h.accept_round = l /\ h.prepared_for = l
    <3> HIDE DEF h, g
    <3> QED BY <1>1, <1>3, <1>5, <1>7
  <2>2. ~(h.prepared_for < l) /\ ~Votes(h, l)
    BY <1>1, <2>1 DEF Votes
  <2>3. o = r
    BY <1>1, <2>2, PromisedAlready
  <2>4. PaxosAccept(h, l, v) = h
    BY <2>2 DEF PaxosAccept, PrepareFor
  <2>5. n = r
    <3>1. n = [SetMine(r, p, h) EXCEPT !.paxos_accept_count = @]
      BY <2>2, <2>3, <2>4 DEF VoteFor
    <3>2. \A q \in Proc : Replace(r.node_states, p, h)[q] = r.node_states[q]
      BY DEF Replace, Mine
    <3>3. Replace(r.node_states, p, h) = r.node_states
      BY <3>2 DEF Replace, RoundStates
    <3> HIDE DEF h
    <3> QED BY <3>1, <3>3 DEF SetMine, RoundStates
  <2>6. VoteOf(l, v) \in R[p]
    <3>1. VoteOf(l, h.v) \in R[p] /\ h.accept_round = VoteOf(l, v).accept_round
      BY <1>1, <1>2, <2>1, VoteFacts, VoteOfFields
    <3>2. h.v = v
      <4>1. VoteOf(l, v).v = v
        BY VoteOfFields
      <4> HIDE DEF h
      <4> QED BY <1>1, <1>2, <2>1, <3>1, <4>1, OneVotePerRound
    <3> QED BY <3>1, <3>2
  <2>7. Extends(R, R, p)
    BY NothingExtends
  <2> QED BY <2>5, <2>6, <2>7
<1> QED BY <1>6, <1>7

\* The answer of p to a PaxosAccept.
Answer(m, p) == [m EXCEPT !.src = p, !.new_value = FALSE]

\* What a replica does with the PaxosAccept of a leader l # p is explained by its vote.
LEMMA VotesExplained ==
  ASSUME HandlersTypeOK, NEW H, NEW p \in Proc, NEW chan, ChannelsTypeOK(chan), Handling(H, chan),
         NEW s, ShardTypeOK(p, s), ShardOK(H, p, s),
         NEW m \in PaxosAcceptMsg, m.slot = Slot(s), NEW l \in AliveReplicas, m.leader = l, l # p,
         VoteOf(l, m.v) \in H[Slot(s)][l], p \in AliveReplicas,
         NEW o, o = FreezeAndPrepareFor(s.round_state, p, l), Mine(o, p).prepared_for = l,
         NEW t, t.round_state = VoteFor(o, p, l, m.v), t.log = s.log,
         t.queued_messages = s.queued_messages, t \in Shards,
         NEW D, Become(p, t, chan, ToOthers(p, D, Answer(m, p))),
         UNCHANGED history
  PROVE  \E K : Explains(K, net)'
<1> DEFINE R == H[Slot(s)]
           r == s.round_state
           n == VoteFor(o, p, l, m.v)
           answer == Answer(m, p)
           out == ToOthers(p, D, answer)
<1>1. /\ Slot(s) \in Nat /\ s \in Shards /\ r \in RoundStates
      /\ Good(R) /\ RoundOK(R, p, r) /\ m.v \in Uid
  BY SlotType DEF ShardTypeOK, Shards, Handling, GoodHistory, ShardOK, PaxosAcceptMsg
<1>2. n = VoteFor(o, p, l, m.v) /\ o = FreezeAndPrepareFor(r, p, l) /\ VoteOf(l, m.v) \in R[l]
  OBVIOUS
<1>3. answer \in PaxosAcceptMsg /\ answer.type = "PaxosAccept" /\ answer.src = p
      /\ answer.leader = l /\ answer.v = m.v /\ answer.slot = Slot(s)
  BY DEF PaxosAcceptMsg, Answer
<1>4. Become(p, t, chan, out) /\ t.round_state = n
  OBVIOUS
<1> HIDE DEF n, out
<1>5. PICK S : /\ Extends(R, S, p) /\ Good(S) /\ RoundOK(S, p, n) /\ VoteOf(l, m.v) \in S[p]
  BY <1>1, <1>2, ReplicaVotes
<1> DEFINE K == InSlot(H, Slot(s), S)
<1>6. K = InSlot(H, Slot(s), S) /\ GoodHistory(H) /\ ShardOK(H, p, s)
  BY DEF Handling
<1>7. K[Slot(s)] = S
  BY <1>1, <1>6 DEF GoodHistory, Histories, InSlot
<1> HIDE DEF K
<1>8. Grown(H, K, p) /\ ShardOK(K, p, t)
  <2>1. Good(S) /\ Extends(H[Slot(s)], S, p)
    BY <1>5
  <2>2. RoundOK(S, p, t.round_state)
    BY <1>4, <1>5
  <2>3. t.log = s.log /\ t.queued_messages = s.queued_messages
    OBVIOUS
  <2> QED BY ONLY <1>1, <1>6, <2>1, <2>2, <2>3, SameSlot, p \in Proc
<1>9. MsgOK(K, answer)
  <2>1. VoteOf(l, m.v) \in S[l]
    BY <1>2, <1>5, ReplicasFinite DEF Extends
  <2> HIDE DEF answer
  <2> QED BY <1>3, <1>5, <1>7, <2>1 DEF MsgOK
<1>10. SentOK(K, out)
  <2> HIDE DEF answer
  <2> QED BY <1>3, <1>9, ToOthersSent DEF out
<1>11. Explains(K, net)'
  BY <1>4, <1>8, <1>10, StepExplained
<1> QED BY <1>11

\* The leader's count of its own round is explained by the votes it heard.
LEMMA CountsExplained ==
  ASSUME HandlersTypeOK, NEW H, NEW p \in Proc, NEW chan, ChannelsTypeOK(chan), Handling(H, chan),
         NEW s, ShardTypeOK(p, s), ShardOK(H, p, s),
         NEW m \in PaxosAcceptMsg, m.slot = Slot(s), m.src \in AliveReplicas,
         VoteOf(p, m.v) \in H[Slot(s)][m.src], VoteOf(p, m.v) \in H[Slot(s)][p],
         NEW o, o = FreezeAndPrepareFor(s.round_state, p, p),
         NEW t, t.round_state = RecvPaxosAccept(o, p, m.src, m.v), t.log = s.log,
         t.queued_messages = s.queued_messages, ShardTypeOK(p, t),
         \/ CanPaxosCommit(t.round_state) /\ Decide(p, t, m.v, FALSE, chan, Nothing)
         \/ Become(p, t, chan, Nothing) /\ UNCHANGED history
  PROVE  \E K : Explains(K, net)'
<1> DEFINE R == H[Slot(s)]
           r == s.round_state
           n == RecvPaxosAccept(o, p, m.src, m.v)
<1>1. /\ Slot(s) \in Nat /\ s \in Shards /\ r \in RoundStates
      /\ Good(R) /\ RoundOK(R, p, r) /\ m.v \in Uid
  BY SlotType DEF ShardTypeOK, Shards, Handling, GoodHistory, ShardOK, PaxosAcceptMsg
<1>2. n = RecvPaxosAccept(o, p, m.src, m.v) /\ t.round_state = n
  OBVIOUS
<1> HIDE DEF n
<1>3. o = r
  <2>1. Mine(r, p) \in NodeStates /\ Precedes(VoteOf(p, m.v), Mine(r, p))
    BY <1>1, MineType DEF RoundOK
  <2>2. p <= Mine(r, p).prepared_for
    BY <2>1, VoteOfFields DEF Precedes
  <2>3. Mine(r, p).prepared_for \in Int /\ p \in Int
    BY <2>1, Ranks, ProcIsNat
  <2>4. ~(Mine(r, p).prepared_for < p)
    BY <2>2, <2>3
  <2> QED BY <1>1, <2>4, PromisedAlready
<1>4. n \in RoundStates /\ RoundOK(R, p, n)
  BY <1>1, <1>2, <1>3, HeardVote
<1>5. ShardOK(H, p, t) /\ Slot(t) = Slot(s)
  BY <1>2, <1>4 DEF ShardOK, Slot
<1>6. Grown(H, H, p)
  BY NothingGrows DEF Handling
<1>7. CASE CanPaxosCommit(t.round_state) /\ Decide(p, t, m.v, FALSE, chan, Nothing)
  <2>1. SlowDecided(H[Slot(t)], m.v)
    BY <1>1, <1>2, <1>4, <1>5, <1>7, CountIsChosen
  <2>2. PICK fast \in BOOLEAN : ~fast /\ Decide(p, t, m.v, fast, chan, Nothing)
    BY <1>7
  <2>3. Explains(H, net)'
    BY <1>1, <1>5, <1>6, <2>1, <2>2, NothingSent, DecideExplained
  <2> QED BY <2>3
<1>8. CASE Become(p, t, chan, Nothing) /\ UNCHANGED history
  <2>1. t \in Shards
    BY DEF ShardTypeOK
  <2>2. Explains(H, net)'
    BY <1>5, <1>6, <1>8, <2>1, NothingSent, StepExplained
  <2> QED BY <2>2
<1> QED BY <1>7, <1>8

\* So is the PaxosAccept handler.
LEMMA PaxosAcceptExplained ==
  ASSUME HandlersTypeOK, NEW H, NEW p \in Proc, NEW chan, ChannelsTypeOK(chan), Handling(H, chan),
         NEW m \in GoodTo(H, p), NEW s, ShardTypeOK(p, s), ShardOK(H, p, s),
         PaxosAcceptMessage(p, m, s, chan)
  PROVE  \E K : Explains(K, net)'
<1> DEFINE l        == m.leader
           prepared == Promise(s, p, l)
           o        == FreezeAndPrepareFor(s.round_state, p, l)
           vote     == VoteFor(o, p, l, m.v)
           count    == RecvPaxosAccept(o, p, m.src, m.v)
           voted    == [prepared EXCEPT !.round_state = vote]
           counted  == [prepared EXCEPT !.round_state = count]
           cast     == Panic(voted, m.src = l)
           answer   == [m EXCEPT !.src = p, !.new_value = FALSE]
           reply    == ToOthers(p, {l} \cap AliveReplicas, answer)
<1>1. m \in PaxosAcceptMsg /\ MsgOK(H, m) /\ m.type = "PaxosAccept" /\ m.slot = Slot(s)
  BY MessageToIsMessage, MessageKinds DEF PaxosAcceptMessage, GoodTo
<1>2. /\ l \in Proc /\ m.src \in Proc /\ m.v \in Uid
      /\ m.src \in AliveReplicas
      /\ VoteOf(l, m.v) \in H[Slot(s)][m.src] /\ VoteOf(l, m.v) \in H[Slot(s)][l]
  BY <1>1 DEF PaxosAcceptMsg, MsgOK
<1>3. /\ Slot(s) \in Nat /\ s \in Shards /\ s.round_state \in RoundStates /\ Good(H[Slot(s)])
  BY SlotType DEF ShardTypeOK, Shards, Handling, GoodHistory
<1>4. l \in AliveReplicas
  <2>1. VoteOf(l, m.v).prepared_for \in AliveReplicas \cup {None}
    BY <1>2, <1>3, ReportFacts DEF Sound
  <2> QED BY <1>2, <2>1, VoteOfFields, NoneIsNobody
<1>5. o \in RoundStates /\ vote \in RoundStates /\ count \in RoundStates
  BY <1>2, <1>3, FreezeType, VoteForType, RecvPaxosAcceptType
<1>6. /\ prepared = [s EXCEPT !.round_state = o, !.slot_left_fast_path = TRUE]
      /\ prepared.round_state = o
  BY <1>3 DEF Promise, Shards
<1> HIDE DEF o, vote, count, prepared
<1>7. ShardTypeOK(p, prepared) /\ prepared.log = s.log /\ prepared.queued_messages = s.queued_messages
  <2>1. ShardTypeOK(p, [s EXCEPT !.round_state = o])
    BY <1>5, ShardUpdate
  <2>2. prepared = [[s EXCEPT !.round_state = o] EXCEPT !.slot_left_fast_path = TRUE]
    BY <1>3, <1>6 DEF Shards
  <2>3. prepared.log = s.log /\ prepared.queued_messages = s.queued_messages
    BY <1>3, <1>6 DEF Shards
  <2> QED BY <2>1, <2>2, <2>3, ShardUpdate
<1>8. /\ ShardTypeOK(p, voted) /\ voted.log = s.log /\ voted.queued_messages = s.queued_messages
      /\ ShardTypeOK(p, counted) /\ counted.log = s.log /\ counted.queued_messages = s.queued_messages
      /\ voted.round_state = vote /\ counted.round_state = count
  <2>1. ShardTypeOK(p, voted) /\ ShardTypeOK(p, counted)
    BY <1>5, <1>7, ShardUpdate
  <2> QED BY <1>7, <2>1 DEF ShardTypeOK, Shards
<1>9. \/ Become(p, s, chan, Nothing) /\ UNCHANGED history
      \/ /\ Mine(prepared.round_state, p).prepared_for # l
         /\ Become(p, prepared, chan, Nothing) /\ UNCHANGED history
      \/ /\ p \in AliveReplicas /\ Mine(prepared.round_state, p).prepared_for = l /\ l # p
         /\ Become(p, cast, chan, reply) /\ UNCHANGED history
      \/ /\ l = p
         /\ \/ CanPaxosCommit(counted.round_state) /\ Decide(p, counted, m.v, FALSE, chan, Nothing)
            \/ Become(p, counted, chan, Nothing) /\ UNCHANGED history
  BY <1>6 DEF PaxosAcceptMessage, prepared, vote, count
<1> HIDE DEF voted, counted
<1>10. /\ ShardTypeOK(p, cast) /\ cast.round_state = vote /\ cast.log = s.log
       /\ cast.queued_messages = s.queued_messages
  <2>1. (m.src = l) \in BOOLEAN
    OBVIOUS
  <2>2. ShardTypeOK(p, cast)
    BY <1>8, <2>1, PanicType
  <2> QED BY <1>8, <2>2 DEF Panic, ShardTypeOK, Shards
<1> HIDE DEF cast
<1>11. Grown(H, H, p)
  BY NothingGrows DEF Handling
<1>12. CASE Become(p, s, chan, Nothing) /\ UNCHANGED history
  <2>1. Explains(H, net)'
    BY <1>3, <1>11, <1>12, NothingSent, StepExplained
  <2> QED BY <2>1
<1>13. CASE /\ Mine(prepared.round_state, p).prepared_for # l
            /\ Become(p, prepared, chan, Nothing) /\ UNCHANGED history
  <2>1. prepared.round_state = s.round_state
    BY <1>2, <1>3, <1>6, <1>13, UnboundStays DEF o
  <2>2. prepared.queued_messages \in Seq(GoodTo(H, p))
    BY <1>7 DEF ShardOK
  <2>3. ShardOK(H, p, prepared)
    BY <1>7, <2>1, <2>2, SameReports
  <2>4. prepared \in Shards
    BY <1>7 DEF ShardTypeOK
  <2>5. Explains(H, net)'
    BY <1>11, <1>13, <2>3, <2>4, NothingSent, StepExplained
  <2> QED BY <2>5
<1>14. CASE /\ p \in AliveReplicas /\ Mine(prepared.round_state, p).prepared_for = l /\ l # p
            /\ Become(p, cast, chan, reply) /\ UNCHANGED history
  <2>1. /\ o = FreezeAndPrepareFor(s.round_state, p, l) /\ Mine(o, p).prepared_for = l
        /\ cast.round_state = VoteFor(o, p, l, m.v) /\ cast \in Shards
    BY <1>6, <1>10, <1>14 DEF o, vote, ShardTypeOK
  <2>2. Become(p, cast, chan, ToOthers(p, {l} \cap AliveReplicas, Answer(m, p)))
    BY <1>14 DEF Answer
  <2>3. m.leader = l /\ l # p /\ p \in AliveReplicas /\ UNCHANGED history
    BY <1>14
  <2>4. /\ HandlersTypeOK /\ ChannelsTypeOK(chan) /\ Handling(H, chan)
        /\ ShardTypeOK(p, s) /\ ShardOK(H, p, s)
    OBVIOUS
  <2>5. VoteOf(l, m.v) \in H[Slot(s)][l] /\ m \in PaxosAcceptMsg /\ m.slot = Slot(s)
    BY <1>1, <1>2
  <2> HIDE DEF l, reply
  <2> QED BY ONLY <1>4, <1>10, <2>1, <2>2, <2>3, <2>4, <2>5, VotesExplained, p \in Proc
<1>15. CASE /\ l = p
            /\ \/ CanPaxosCommit(counted.round_state) /\ Decide(p, counted, m.v, FALSE, chan, Nothing)
               \/ Become(p, counted, chan, Nothing) /\ UNCHANGED history
  <2>1. o = FreezeAndPrepareFor(s.round_state, p, p) /\ counted.round_state = RecvPaxosAccept(o, p, m.src, m.v)
    BY <1>8, <1>15 DEF o, count
  <2>2. VoteOf(p, m.v) \in H[Slot(s)][m.src] /\ VoteOf(p, m.v) \in H[Slot(s)][p]
    BY <1>2, <1>15
  <2> QED BY <1>1, <1>2, <1>8, <1>15, <2>1, <2>2, CountsExplained
<1> QED BY <1>9, <1>12, <1>13, <1>14, <1>15

\* So is the handling of any message.
LEMMA ProcessExplained ==
  ASSUME HandlersTypeOK, NEW H, NEW p \in Proc, NEW chan, ChannelsTypeOK(chan), Handling(H, chan),
         NEW m \in GoodTo(H, p), NEW s, ShardTypeOK(p, s), ShardOK(H, p, s),
         Process(p, m, s, chan)
  PROVE  \E K : Explains(K, net)'
BY StaleExplained, ValueOnlyExplained, CommitExplained, SpreadExplained, PaxosAcceptExplained
   DEF Process

-----------------------------------------------------------------------------
(* The main loop *)

\* Proposing is explained: the proposer's first report, and what the plan implies of it.
LEMMA ProposeExplained ==
  ASSUME HandlersTypeOK, NEW H, NEW p \in Proc, Handling(H, net),
         NEW s, ShardTypeOK(p, s), ShardOK(H, p, s), NEW v \in Uid, NEW newValue \in BOOLEAN,
         ProposeAndSpread(p, s, v, newValue), UNCHANGED history
  PROVE  \E K : Explains(K, net)'
<1> DEFINE R == H[Slot(s)]
           r == s.round_state
           n == KCensusTryAccept(r, p, v, p)
           t == [s EXCEPT !.round_state = n]
           out == Spreads(t, p, v, p, {0}, newValue)
           S == Proposing(R, p, v)
<1>1. /\ Slot(s) \in Nat /\ s \in Shards /\ r \in RoundStates
      /\ Good(R) /\ RoundOK(R, p, r)
  BY SlotType DEF ShardTypeOK, Shards, Handling, GoodHistory, ShardOK
<1>2. ChannelsTypeOK(net) /\ GoodHistory(H)
  BY DEF HandlersTypeOK, Handling
<1>3. CASE Accepts(r, p) /\ TryAcceptAsserts(r, p, p)
  <2>1. Become(p, t, net, out)
    BY <1>3 DEF ProposeAndSpread
  <2>2. r = ClearRound /\ RoundOK(R, p, ClearRound)
    BY <1>1, <1>3, AcceptsIsClear
  <2>3. n = [SetMine(ClearRound, p, At(v, p, p, 0)) EXCEPT !.proposers = @ \cup {p}]
    <3>1. Mine(r, p) = EmptyNode
      BY <2>2 DEF Mine, ClearRound
    <3> QED BY <1>3, <2>2, <3>1 DEF KCensusTryAccept, At
  <2>4. S = Proposing(R, p, v)
    OBVIOUS
  <2>5. t.round_state = n /\ t.log = s.log /\ t.queued_messages = s.queued_messages /\ Slot(t) = Slot(s)
    BY <1>1 DEF Shards, Slot
  <2> HIDE DEF n, S, out
  <2>6. /\ Extends(R, S, p) /\ Good(S) /\ n \in RoundStates /\ RoundOK(S, p, n)
        /\ At(v, p, p, 0) \in S[p] /\ ~HasConflict(n, p)
    BY <1>1, <2>2, <2>3, <2>4, ProposedRound
  <2>7. ShardTypeOK(p, t)
    BY <2>6, ShardUpdate
  <2> HIDE DEF t
  <2> DEFINE K == InSlot(H, Slot(s), S)
  <2>8. K = InSlot(H, Slot(s), S) /\ ShardOK(H, p, s)
    OBVIOUS
  <2>9. K[Slot(s)] = S
    BY <1>1, <1>2 DEF GoodHistory, Histories, InSlot
  <2> HIDE DEF K
  <2>10. Grown(H, K, p) /\ ShardOK(K, p, t)
    <3>1. Good(S) /\ Extends(H[Slot(s)], S, p)
      BY <2>6
    <3>2. RoundOK(S, p, t.round_state)
      BY <2>5, <2>6
    <3> QED BY ONLY <1>1, <1>2, <2>5, <2>8, <3>1, <3>2, SameSlot, p \in Proc
  <2>11. ASSUME NEW id \in State(p, p, 0).needed_by, NEW z \in Proc
         PROVE  BuildRemoteState(v, id, z) \in S[z]
    <3> DEFINE msgs == {}
    <3>1. \A w \in StateIds(p, p) : w <= 0 => State(p, p, w).dependencies \subseteq msgs
      BY <2>2 DEF RoundOK, ClearRound
    <3>2. \A x \in msgs : \A q \in Proc : BuildRemoteState(v, x, q) \in S[q]
      OBVIOUS
    <3>3. 0 \in StateIds(p, p)
      BY PlanFacts
    <3> HIDE DEF msgs
    <3> QED BY <2>6, <3>1, <3>2, <3>3, ImpliedReports
  <2>12. SentOK(K, out)
    <3> DEFINE T == {0}
    <3>1. T \in SUBSET StateIds(p, p)
      BY PlanFacts
    <3>2. S = K[Slot(t)] /\ t \in Shards /\ ~HasConflict(t.round_state, p) /\ Good(S)
      BY <2>5, <2>6, <2>7, <2>9 DEF ShardTypeOK
    <3>3. \A u \in T : \A id \in State(p, p, u).needed_by : \A z \in Proc :
            BuildRemoteState(v, id, z) \in S[z]
      BY <2>11
    <3>4. out = Spreads(t, p, v, p, T, newValue)
      BY DEF out
    <3> HIDE DEF T
    <3>5. SentOK(K, Spreads(t, p, v, p, T, newValue))
      BY <3>1, <3>2, <3>3, SpreadsSent
    <3> QED BY <3>4, <3>5
  <2>13. Explains(K, net)'
    <3> t \in Shards
      BY <2>7 DEF ShardTypeOK
    <3> QED BY <1>2, <2>1, <2>10, <2>12, StepExplained
  <2> QED BY <2>13
<1>4. CASE ~(Accepts(r, p) /\ TryAcceptAsserts(r, p, p))
  <2> DEFINE u == Panic(s, FALSE)
  <2>1. Become(p, u, net, Nothing)
    BY <1>4 DEF ProposeAndSpread
  <2>2. u.round_state = s.round_state /\ u.log = s.log /\ u.queued_messages = s.queued_messages
    BY <1>1 DEF Panic, Shards
  <2>3. u \in Shards
    BY PanicType DEF ShardTypeOK
  <2> HIDE DEF u
  <2>4. u.queued_messages \in Seq(GoodTo(H, p))
    BY <2>2 DEF ShardOK
  <2>5. ShardOK(H, p, u)
    BY <2>2, <2>4, SameReports
  <2>6. Grown(H, H, p)
    BY <1>2, NothingGrows
  <2>7. Explains(H, net)'
    BY <1>2, <2>1, <2>3, <2>5, <2>6, NothingSent, StepExplained
  <2> QED BY <2>7
<1> QED BY <1>3, <1>4

\* What is in the way of neither the round, nor the log, nor the held messages.
LEMMA StillExplained ==
  ASSUME NEW H, NEW p \in Proc, NEW s, ShardOK(H, p, s), NEW t,
         t.round_state = s.round_state, t.log = s.log, t.queued_messages = s.queued_messages
  PROVE  ShardOK(H, p, t)
<1>1. t.queued_messages \in Seq(GoodTo(H, p))
  BY DEF ShardOK
<1> QED BY <1>1, SameReports

\* Taking a message from a connection is explained.
LEMMA ReceiveExplained ==
  ASSUME HandlersTypeOK, NEW H, NEW p \in Proc, NEW q \in Proc, Explains(H, net), Receive(p, q)
  PROVE  \E K : Explains(K, net)'
<1> DEFINE m      == Head(net[q][p])
           chan   == [net EXCEPT ![q][p] = Tail(@)]
           old    == shard[p]
           stored == StoreRemoteCommand(old, m)
           ok     == StoreAsserts(old, m) /\ ReadyAsserts(stored, m)
           s      == Panic(stored, ok)
           more   == IF CarriesValue(m) THEN 1 ELSE 0
           held   == Append(s.queued_messages, m)
           taken  == [s EXCEPT !.scan = more]
           kept   == [s EXCEPT !.queued_messages = held]
<1>1. net[q][p] \in Seq(MessageTo(p)) /\ net[q][p] # <<>> /\ net[q][p] \in Seq(GoodTo(H, p))
  BY DEF Receive, HandlersTypeOK, ChannelsTypeOK, Outgoing, Explains, ChannelsOK, SentOK
<1>2. /\ m \in MessageTo(p) /\ Tail(net[q][p]) \in Seq(MessageTo(p))
      /\ m \in GoodTo(H, p) /\ Tail(net[q][p]) \in Seq(GoodTo(H, p))
  <2> HIDE DEF GoodTo
  <2> QED BY <1>1
<1>3. ChannelsTypeOK(chan)
  BY <1>2 DEF HandlersTypeOK, ChannelsTypeOK, Outgoing
<1>4. \A a, d \in Proc : chan[a][d] = IF a = q /\ d = p THEN Tail(net[q][p]) ELSE net[a][d]
  BY DEF HandlersTypeOK, ChannelsTypeOK, Outgoing
<1> HIDE DEF m, chan
<1>5. Handling(H, chan)
  <2>1. ChannelsOK(H, chan)
    BY <1>2, <1>4 DEF ChannelsOK, SentOK, Explains
  <2> QED BY <2>1 DEF Handling, Explains
<1>6. ShardTypeOK(p, old) /\ ShardOK(H, p, old)
  BY DEF HandlersTypeOK, ShardsTypeOK, Explains
<1>7. ShardTypeOK(p, stored)
  BY <1>2, <1>6, MessageToIsMessage, StoreRemoteCommandType
<1>8. stored.round_state = old.round_state /\ stored.log = old.log
      /\ stored.queued_messages = old.queued_messages
  BY <1>6 DEF StoreRemoteCommand, ShardTypeOK, Shards
<1> HIDE DEF stored, old
<1>9. ok \in BOOLEAN
  OBVIOUS
<1> HIDE DEF ok
<1>10. ShardTypeOK(p, s)
  BY <1>7, <1>9, PanicType
<1>11. s.round_state = old.round_state /\ s.log = old.log /\ s.queued_messages = old.queued_messages
  BY <1>7, <1>8 DEF Panic, ShardTypeOK, Shards
<1> HIDE DEF s
<1>12. more \in Nat
  OBVIOUS
<1>13. held \in Seq(MessageTo(p)) /\ held \in Seq(GoodTo(H, p))
  <2>1. s.queued_messages \in Seq(MessageTo(p)) /\ s.queued_messages \in Seq(GoodTo(H, p))
    BY <1>6, <1>10, <1>11 DEF ShardTypeOK, ShardOK
  <2> HIDE DEF GoodTo
  <2> QED BY <1>2, <2>1
<1> HIDE DEF more, held
<1>14. ShardTypeOK(p, taken) /\ ShardTypeOK(p, kept)
  BY <1>10, <1>12, <1>13, ShardUpdate
<1>15. /\ taken.round_state = s.round_state /\ taken.log = s.log
       /\ taken.queued_messages = s.queued_messages
       /\ kept.round_state = s.round_state /\ kept.log = s.log /\ kept.queued_messages = held
  BY <1>10 DEF ShardTypeOK, Shards
<1>16. \/ Process(p, m, taken, chan)
       \/ Become(p, kept, chan, Nothing) /\ UNCHANGED history
  BY DEF Receive, m, chan, old, stored, ok, s, more, held
<1> HIDE DEF taken, kept
<1>17. ShardOK(H, p, taken)
  BY <1>6, <1>11, <1>15, StillExplained
<1>18. ShardOK(H, p, kept)
  BY <1>6, <1>11, <1>13, <1>15, SameReports
<1>19. CASE Process(p, m, taken, chan)
  BY <1>2, <1>3, <1>5, <1>14, <1>17, <1>19, ProcessExplained
<1>20. CASE Become(p, kept, chan, Nothing) /\ UNCHANGED history
  <2>1. kept \in Shards /\ Grown(H, H, p)
    BY <1>5, <1>14, NothingGrows DEF ShardTypeOK, Handling
  <2>2. Explains(H, net)'
    BY <1>3, <1>5, <1>18, <1>20, <2>1, NothingSent, StepExplained
  <2> QED BY <2>2
<1> QED BY <1>16, <1>19, <1>20

\* So is a client's command.
LEMMA ClientCommandExplained ==
  ASSUME HandlersTypeOK, NEW H, NEW p \in Proc, Explains(H, net), ClientCommand(p)
  PROVE  \E K : Explains(K, net)'
<1> DEFINE old == shard[p]
           v   == NewCommand(p, old.next_uid)
           s   == [StoreNewCommand(old, v) EXCEPT !.scan = Len(old.queued_messages) + 1]
           out == ValueSpreads(s, p, v, p, 0)
<1>1. ShardTypeOK(p, old) /\ ShardOK(H, p, old) /\ Handling(H, net)
  BY DEF HandlersTypeOK, ShardsTypeOK, Explains, Handling
<1>2. v \in Uid /\ Len(old.queued_messages) + 1 \in Nat
  BY <1>1, NewCommandType DEF ShardTypeOK, Shards
<1> HIDE DEF old, v
<1>3. ShardTypeOK(p, s)
  BY <1>1, <1>2, StoreNewCommandType, ShardUpdate
<1>4. s.round_state = old.round_state /\ s.log = old.log /\ s.queued_messages = old.queued_messages
  BY <1>1 DEF StoreNewCommand, ShardTypeOK, Shards
<1> HIDE DEF s
<1>5. ShardOK(H, p, s)
  BY <1>1, <1>4, StillExplained
<1>6. SentOK(H, out)
  <2>1. s \in Shards /\ 0 \in StateIds(p, p)
    BY <1>3, PlanFacts DEF ShardTypeOK
  <2> QED BY <1>2, <2>1, ValueSpreadsSent
<1> HIDE DEF out
<1>7. (Become(p, s, net, out) \/ ProposeAndSpread(p, s, v, TRUE)) /\ UNCHANGED history
  BY DEF ClientCommand, old, v, s, out
<1>8. CASE Become(p, s, net, out)
  <2>1. s \in Shards /\ Grown(H, H, p) /\ ChannelsTypeOK(net)
    BY <1>1, <1>3, NothingGrows DEF ShardTypeOK, Handling, HandlersTypeOK
  <2>2. Explains(H, net)'
    BY <1>1, <1>5, <1>6, <1>7, <1>8, <2>1, StepExplained
  <2> QED BY <2>2
<1>9. CASE ProposeAndSpread(p, s, v, TRUE)
  BY <1>1, <1>2, <1>3, <1>5, <1>7, <1>9, ProposeExplained
<1> QED BY <1>7, <1>8, <1>9

\* So is handling a held message.
LEMMA ProcessHeldExplained ==
  ASSUME HandlersTypeOK, NEW H, NEW p \in Proc, Explains(H, net), ProcessHeld(p)
  PROVE  \E K : Explains(K, net)'
<1>1. PICK i \in ReadyHeld(p) :
        Process(p, shard[p].queued_messages[i],
                [shard[p] EXCEPT !.queued_messages = RemoveAt(@, i), !.scan = i], net)
  BY ZenonT(60) DEF ProcessHeld
<1> DEFINE h == shard[p].queued_messages
           rest == RemoveAt(h, i)
           t == [shard[p] EXCEPT !.queued_messages = rest]
           s == [t EXCEPT !.scan = i]
<1>2. /\ ShardTypeOK(p, shard[p]) /\ ShardOK(H, p, shard[p]) /\ Handling(H, net)
      /\ h \in Seq(MessageTo(p)) /\ h \in Seq(GoodTo(H, p)) /\ ChannelsTypeOK(net)
  BY DEF HandlersTypeOK, ShardsTypeOK, ShardTypeOK, ShardOK, Explains, Handling
<1>3. i \in 1 .. Len(h) /\ i \in Nat
  BY <1>2 DEF ReadyHeld
<1>4. h[i] \in GoodTo(H, p)
  <2> HIDE DEF GoodTo, h
  <2> QED BY <1>2, <1>3
<1>5. rest \in Seq(MessageTo(p)) /\ rest \in Seq(GoodTo(H, p))
  <2> HIDE DEF GoodTo, h
  <2>1. SubSeq(h, 1, i - 1) \in Seq(MessageTo(p)) /\ SubSeq(h, i + 1, Len(h)) \in Seq(MessageTo(p))
    BY <1>2, <1>3
  <2>2. SubSeq(h, 1, i - 1) \in Seq(GoodTo(H, p)) /\ SubSeq(h, i + 1, Len(h)) \in Seq(GoodTo(H, p))
    BY <1>2, <1>3
  <2> QED BY <2>1, <2>2 DEF RemoveAt
<1>6. s = [shard[p] EXCEPT !.queued_messages = RemoveAt(@, i), !.scan = i]
  BY <1>2 DEF ShardTypeOK, Shards
<1> HIDE DEF rest
<1>7. ShardTypeOK(p, t)
  BY <1>2, <1>5, ShardUpdate
<1>8. t.round_state = shard[p].round_state /\ t.log = shard[p].log /\ t.queued_messages = rest
  BY <1>2 DEF ShardTypeOK, Shards
<1> HIDE DEF t
<1>9. ShardTypeOK(p, s)
  BY <1>3, <1>7, ShardUpdate
<1>10. s.round_state = shard[p].round_state /\ s.log = shard[p].log /\ s.queued_messages = rest
  BY <1>7, <1>8 DEF ShardTypeOK, Shards
<1> HIDE DEF s
<1>11. ShardOK(H, p, s)
  BY <1>2, <1>5, <1>10, SameReports
<1>12. Process(p, h[i], s, net)
  BY <1>1, <1>6
<1> HIDE DEF h
<1> QED BY <1>2, <1>4, <1>9, <1>11, <1>12, ProcessExplained

\* So is the end of the loop's body.
LEMMA ReproposeExplained ==
  ASSUME HandlersTypeOK, NEW H, NEW p \in Proc, Explains(H, net), Repropose(p)
  PROVE  \E K : Explains(K, net)'
<1> DEFINE s == [shard[p] EXCEPT !.scan = 0]
           batch == BatchOf(s, p)
           t == StoreNewCommand(s, batch)
<1>1. ShardTypeOK(p, s)
  BY ShardUpdate DEF HandlersTypeOK, ShardsTypeOK
<1>2. /\ ShardTypeOK(p, shard[p]) /\ ShardOK(H, p, shard[p]) /\ Handling(H, net)
      /\ ChannelsTypeOK(net)
  BY DEF HandlersTypeOK, ShardsTypeOK, Explains, Handling
<1>3. /\ s.round_state = shard[p].round_state /\ s.log = shard[p].log
      /\ s.queued_messages = shard[p].queued_messages
  BY <1>2 DEF ShardTypeOK, Shards
<1> HIDE DEF s
<1>4. ShardOK(H, p, s)
  BY <1>2, <1>3, StillExplained
<1>5. batch \in Uid /\ QueuedSingles(s) \subseteq Uid
  BY <1>1, BatchOfType, QueuedSinglesType DEF ShardTypeOK, Uid
<1> HIDE DEF batch
<1>6. ShardTypeOK(p, t)
  BY <1>1, <1>5, StoreNewCommandType
<1>7. t.round_state = s.round_state /\ t.log = s.log /\ t.queued_messages = s.queued_messages
  BY <1>1 DEF StoreNewCommand, ShardTypeOK, Shards
<1> HIDE DEF t
<1>8. ShardOK(H, p, t)
  BY <1>4, <1>7, StillExplained
<1>9. /\ UNCHANGED history
      /\ \/ ProposeAndSpread(p, t, batch, TRUE)
         \/ \E v \in QueuedSingles(s) : ProposeAndSpread(p, s, v, FALSE)
         \/ Become(p, s, net, Nothing)
  BY DEF Repropose, s, batch, t
<1>10. CASE ProposeAndSpread(p, t, batch, TRUE)
  BY <1>2, <1>5, <1>6, <1>8, <1>9, <1>10, ProposeExplained
<1>11. CASE \E v \in QueuedSingles(s) : ProposeAndSpread(p, s, v, FALSE)
  BY <1>1, <1>2, <1>4, <1>5, <1>9, <1>11, ProposeExplained
<1>12. CASE Become(p, s, net, Nothing)
  <2>1. s \in Shards /\ Grown(H, H, p)
    BY <1>1, <1>2, NothingGrows DEF ShardTypeOK, Handling
  <2>2. Explains(H, net)'
    BY <1>2, <1>4, <1>9, <1>12, <2>1, NothingSent, StepExplained
  <2> QED BY <2>2
<1> QED BY <1>9, <1>10, <1>11, <1>12

-----------------------------------------------------------------------------
(* The invariant *)

Explained == Typed /\ \E H : Explains(H, net)

\* At first nobody has reported anything.
LEMMA InitExplained == Init => Explained
<1> SUFFICES ASSUME Init PROVE Explained
  OBVIOUS
<1> DEFINE R == [q \in Proc |-> {EmptyNode}]
           H == [n \in Nat |-> R]
<1>1. Good(R)
  <2>1. R \in Reports /\ \A q \in Proc : R[q] = {EmptyNode}
    BY EmptyNodeType DEF Reports
  <2>2. Precedes(EmptyNode, EmptyNode)
    BY EmptyNodeType, Ranks DEF Precedes
  <2>3. \A q \in Proc : Sound(q, EmptyNode)
    BY EmptyNodeType, EmptyNodeFields, Ranks DEF Sound
  <2> HIDE DEF R
  <2>4. \A q \in Proc : Justified(R, q, EmptyNode)
    BY <2>3, EmptyNodeFields DEF Justified
  <2>5. \A q \in Proc : EmptyNode.accept_round # q
    BY EmptyNodeFields, NoneIsNobody
  <2> QED BY <2>1, <2>2, <2>4, <2>5 DEF Good, ReportsOK
<1>2. GoodHistory(H) /\ \A n \in Nat : H[n] = R
  BY <1>1 DEF GoodHistory, Histories, Good
<1>3. \A n \in Nat : \A q \in Proc : H[n][q] = {EmptyNode}
  BY <1>2
<1> HIDE DEF R, H
<1>4. ASSUME NEW p \in Proc PROVE ShardOK(H, p, shard[p])
  <2>1. shard[p] = NewShard
    BY DEF Init
  <2>2. /\ NewShard.round_state = ClearRound /\ NewShard.log = <<>>
        /\ NewShard.queued_messages = <<>> /\ Slot(NewShard) = 0
    BY DEF NewShard, Slot
  <2>3. RoundOK(H[0], p, ClearRound)
    BY <1>1, <1>2, <1>3, ClearRoundOK
  <2>4. \A i \in DOMAIN NewShard.log : Decided(H[i - 1], NewShard.log[i].v)
    BY <2>2
  <2>5. NewShard.queued_messages \in Seq(GoodTo(H, p))
    <3> HIDE DEF GoodTo
    <3> QED BY <2>2
  <2> QED BY <1>3, <2>1, <2>2, <2>3, <2>4, <2>5 DEF ShardOK
<1>5. ChannelsOK(H, net)
  BY NothingSent DEF Init, ChannelsOK
<1>6. HistoryOK(H)
  BY DEF Init, HistoryOK
<1> QED BY <1>2, <1>4, <1>5, <1>6, InitTyped DEF Explained, Explains

\* Every step is explained.
LEMMA NextExplained == Explained /\ [Next]_vars => Explained'
<1> SUFFICES ASSUME Explained, [Next]_vars PROVE Explained'
  OBVIOUS
<1>1. Typed' /\ HandlersTypeOK
  BY NextTyped DEF Explained, Typed
<1>2. PICK H : Explains(H, net)
  BY DEF Explained
<1>3. CASE \E p \in Proc : Step(p)
  <2>1. \E K : Explains(K, net)'
    BY <1>1, <1>2, <1>3, ClientCommandExplained, ReceiveExplained, ProcessHeldExplained,
       ReproposeExplained DEF Step
  <2> QED BY <1>1, <2>1 DEF Explained
<1>4. CASE UNCHANGED vars
  <2>1. Explains(H, net)'
    BY <1>2, <1>4 DEF Explains, ShardOK, ChannelsOK, SentOK, HistoryOK, vars
  <2> QED BY <1>1, <2>1 DEF Explained
<1> QED BY <1>3, <1>4 DEF Next, Terminated

\* Every reachable state is explained.
LEMMA AlwaysExplained == Spec => []Explained
BY InitExplained, NextExplained, PTL DEF Spec

-----------------------------------------------------------------------------
(* No view is ahead *)

\* What q reported is not ahead of what q reports.
LEMMA ReportsBehind ==
  ASSUME NEW R, Good(R), NEW q \in Proc, NEW r \in RoundStates, RoundOK(R, q, r), NEW h \in R[q]
  PROVE  ~Newer(h, Mine(r, q))
<1>1. h \in NodeStates /\ Mine(r, q) \in NodeStates
  BY ReportFacts, MineType
<1>2. Precedes(h, Mine(r, q))
  BY DEF RoundOK
<1> QED BY <1>1, <1>2, PrecedesNotNewer

\* The reports a state is explained by include every view in it.
LEMMA ViewsAreReports ==
  ASSUME Typed, NEW H, Explains(H, net), NEW q \in Proc, NEW view \in ViewsOf(q)
  PROVE  view \in H[Slot(shard[q])][q]
<1>1. CASE \E p \in Proc : Slot(shard[p]) = Slot(shard[q]) /\ view = Round(p).node_states[q]
  <2>1. PICK p \in Proc : Slot(shard[p]) = Slot(shard[q]) /\ view = Round(p).node_states[q]
    BY <1>1
  <2>2. RoundOK(H[Slot(shard[p])], p, Round(p))
    BY DEF Explains, ShardOK, Round
  <2> QED BY <2>1, <2>2 DEF RoundOK
<1>2. CASE \E s, d \in Proc : \E i \in DOMAIN net[s][d] :
             /\ net[s][d][i].type = "Spread" /\ net[s][d][i].slot = Slot(shard[q])
             /\ view = Incoming(net[s][d][i])[q]
  <2>1. PICK s \in Proc, d \in Proc : \E i \in DOMAIN net[s][d] :
             /\ net[s][d][i].type = "Spread" /\ net[s][d][i].slot = Slot(shard[q])
             /\ view = Incoming(net[s][d][i])[q]
    BY <1>2
  <2>2. PICK i \in DOMAIN net[s][d] :
             /\ net[s][d][i].type = "Spread" /\ net[s][d][i].slot = Slot(shard[q])
             /\ view = Incoming(net[s][d][i])[q]
    BY <2>1
  <2>3. net[s][d] \in Seq(GoodTo(H, d))
    BY DEF Explains, ChannelsOK, SentOK
  <2> HIDE DEF GoodTo
  <2>4. net[s][d][i] \in GoodTo(H, d)
    BY <2>3
  <2>5. MsgOK(H, net[s][d][i])
    BY <2>4 DEF GoodTo
  <2> QED BY <2>2, <2>5 DEF MsgOK
<1> QED BY <1>1, <1>2 DEF ViewsOf

\* Nothing a process believes of another, or is told of it in a message, census or
\* implied by the plan, is ahead of what the other did.
THEOREM NoViewIsAhead == Spec => []NoViewAhead
<1>1. ASSUME Explained PROVE NoViewAhead
  <2>1. PICK H : Explains(H, net)
    BY <1>1 DEF Explained
  <2> SUFFICES ASSUME NEW q \in Proc, NEW view \in ViewsOf(q) PROVE ~Newer(view, Mine(Round(q), q))
    BY DEF NoViewAhead
  <2>2. shard[q] \in Shards
    BY <1>1 DEF Explained, Typed, HandlersTypeOK, ShardsTypeOK
  <2>3. Slot(shard[q]) \in Nat /\ Round(q) \in RoundStates
    BY <2>2, SlotType DEF Shards, Round
  <2>4. Good(H[Slot(shard[q])]) /\ RoundOK(H[Slot(shard[q])], q, Round(q))
    BY <2>1, <2>3 DEF Explains, GoodHistory, ShardOK, Round
  <2>5. view \in H[Slot(shard[q])][q]
    BY <1>1, <2>1, ViewsAreReports DEF Explained
  <2> QED BY <2>3, <2>4, <2>5, ReportsBehind
<1> QED BY <1>1, AlwaysExplained, PTL

-----------------------------------------------------------------------------
(* Decisions *)

\* What p committed in slot i - 1 was decided there.
LEMMA LogIsDecided ==
  ASSUME NEW H, GoodHistory(H), NEW p \in Proc, NEW s \in Shards, ShardOK(H, p, s),
         NEW i \in DOMAIN s.log
  PROVE  /\ i - 1 \in Nat /\ Good(H[i - 1])
         /\ s.log[i].v \in Uid /\ Decided(H[i - 1], s.log[i].v)
<1> DEFINE Record == [v : Uid, fast : BOOLEAN]
<1>1. s.log \in Seq(Record)
  BY DEF Shards
<1> HIDE DEF Record
<1>2. i \in 1 .. Len(s.log) /\ s.log[i] \in Record
  BY <1>1
<1>3. i - 1 \in Nat
  BY <1>2
<1>4. Decided(H[i - 1], s.log[i].v)
  BY DEF ShardOK
<1>5. s.log[i].v \in Uid
  BY <1>2 DEF Record
<1> QED BY <1>3, <1>4, <1>5 DEF GoodHistory

\* Its proposer accepts a command once.
LEMMA OneAcceptance ==
  ASSUME NEW R, Good(R), NEW b \in Proc, NEW v \in Uid \cup {NoV}, NEW w \in Uid,
         At(v, b, b, 0) \in R[b], At(w, b, b, 0) \in R[b]
  PROVE  v = w
<1>1. v \in Uid
  <2>1. At(v, b, b, 0).v = v /\ At(v, b, b, 0).k_proposer = b
    BY DEF At, AcceptWithKState, UpdateKState, EmptyNode
  <2>2. Sound(b, At(v, b, b, 0))
    BY ReportFacts
  <2> QED BY <2>1, <2>2, NoneIsNobody DEF Sound
<1> DEFINE x == At(v, b, b, 0)
           y == At(w, b, b, 0)
<1>2. x \in R[b] /\ y \in R[b]
  OBVIOUS
<1>3. x.v = v /\ y.v = w /\ x.accept_round = y.accept_round
  BY <1>1, AtFields
<1> HIDE DEF x, y
<1> QED BY <1>1, <1>2, <1>3, SameCommand, NoneIsNobody

\* No two processes commit a slot differently, whether on the fast path, in a fallback or
\* told to, if the plan tells any two commands apart.
THEOREM SlotsAgree ==
  ASSUME GraphSeparates
  PROVE  Spec => []Agreement
<1>1. ASSUME Explained PROVE Agreement
  <2>1. PICK H : Explains(H, net)
    BY <1>1 DEF Explained
  <2> SUFFICES ASSUME NEW p \in Proc, NEW q \in Proc, NEW i \in DOMAIN Log(p), i \in DOMAIN Log(q)
               PROVE  Log(p)[i].v = Log(q)[i].v
    BY DEF Agreement
  <2>2. GoodHistory(H) /\ \A x \in Proc : shard[x] \in Shards /\ ShardOK(H, x, shard[x])
    BY <1>1, <2>1 DEF Explained, Explains, Typed, HandlersTypeOK, ShardsTypeOK
  <2>3. /\ Good(H[i - 1])
        /\ Log(p)[i].v \in Uid /\ Decided(H[i - 1], Log(p)[i].v)
        /\ Log(q)[i].v \in Uid /\ Decided(H[i - 1], Log(q)[i].v)
    BY <2>2, LogIsDecided DEF Log
  <2> QED BY <2>3, DecisionsAgree
<1> QED BY <1>1, AlwaysExplained, PTL

\* A leader that falls back in a slot decided on the fast path, before or after, is
\* obliged by its census to propose what was decided, on the same assumption.
THEOREM FastDecisionsAreAdopted ==
  ASSUME GraphSeparates
  PROVE  Spec => []AdoptsFastDecision
<1>1. ASSUME Explained PROVE AdoptsFastDecision
  <2>1. PICK H : Explains(H, net)
    BY <1>1 DEF Explained
  <2> SUFFICES ASSUME NEW f \in fallbacks, NEW d \in decided, d.fast, d.slot = f.slot
               PROVE  f.choices = {d.v}
    BY DEF AdoptsFastDecision
  <2>2. d.slot \in Nat /\ d.v \in Uid
    BY <1>1 DEF Explained, Typed, HandlersTypeOK, HistoryTypeOK
  <2>3. Good(H[d.slot]) /\ FastDecided(H[d.slot], d.v) /\ FallbackOK(H[d.slot], f.choices)
    BY <2>1, <2>2 DEF Explains, GoodHistory, HistoryOK
  <2>4. PICK b \in Proc : Full(H[d.slot], b, d.v)
    BY <2>3 DEF FastDecided
  <2>5. PICK v \in f.choices : f.choices = {v} /\ At(v, b, b, 0) \in H[d.slot][b]
    BY <2>2, <2>3, <2>4, DeadIsNotFull DEF FallbackOK
  <2>6. v \in Uid \cup {NoV}
    BY <1>1, <2>5 DEF Explained, Typed, HandlersTypeOK, HistoryTypeOK
  <2>7. v = d.v
    BY <2>2, <2>3, <2>4, <2>5, <2>6, OneAcceptance DEF Full
  <2> QED BY <2>5, <2>7
<1> QED BY <1>1, AlwaysExplained, PTL

-----------------------------------------------------------------------------
(* Votes, as the reads see them *)

\* Those who reported a command in a slot.
Reporters(R) == {q \in AliveReplicas : \E h \in R[q] : h.v # NoV}

\* What is decided was reported by a majority.
LEMMA DecidedByMajority ==
  ASSUME NEW R, Good(R), NEW v \in Uid, Decided(R, v)
  PROVE  Cardinality(Reporters(R)) >= Majority
<1>1. IsFiniteSet(Reporters(R)) /\ Cardinality(Reporters(R)) \in Nat
  BY ReplicasFinite, FS_Subset, FS_CardinalityType DEF Reporters
<1>2. ASSUME NEW M \in SUBSET Reporters(R), Cardinality(M) >= Majority
      PROVE  Cardinality(Reporters(R)) >= Majority
  <2>1. Cardinality(M) <= Cardinality(Reporters(R)) /\ Cardinality(M) \in Nat
    BY <1>1, FS_Subset, FS_CardinalityType
  <2> QED BY <1>1, <1>2, <2>1, MajorityIsNat
<1>3. CASE FastDecided(R, v)
  <2>1. PICK b \in Proc : Full(R, b, v)
    BY <1>3 DEF FastDecided
  <2>2. ASSUME NEW q \in VQuorum(b) \cap AliveReplicas PROVE q \in Reporters(R)
    <3> DEFINE h == At(v, b, q, FinalStateId(b, q))
    <3>1. q \in Proc /\ h \in R[q]
      BY <2>1, <2>2, ReplicasFinite DEF Full
    <3>2. h.v = v
      BY <3>1, LastState, AtFields
    <3> HIDE DEF h
    <3> QED BY <3>1, <3>2, <2>2, NoneIsNobody DEF Reporters
  <2>3. Cardinality(VQuorum(b) \cap AliveReplicas) >= Majority
    BY PlanFacts
  <2> QED BY <1>2, <2>2, <2>3
<1>4. CASE SlowDecided(R, v)
  <2> DEFINE M(l) == {q \in AliveReplicas : VoteOf(l, v) \in R[q]}
  <2>1. PICK l \in Proc : Cardinality(M(l)) >= Majority
    BY <1>4 DEF SlowDecided, Chosen
  <2>2. M(l) \subseteq Reporters(R)
    BY VoteOfFields, NoneIsNobody DEF Reporters
  <2> HIDE DEF M
  <2> QED BY <1>2, <2>1, <2>2
<1> QED BY <1>3, <1>4 DEF Decided

\* Who reported a command in a slot has one there still, or has left it.
LEMMA ReporterHolds ==
  ASSUME NEW H, GoodHistory(H), NEW q \in Proc, NEW s \in Shards, ShardOK(H, q, s),
         NEW n \in Nat, NEW h \in H[n][q], h.v # NoV
  PROVE  Slot(s) > n \/ (Slot(s) = n /\ MyV(s, q) # NoV)
<1>1. Slot(s) \in Nat /\ s.round_state \in RoundStates /\ Good(H[n])
  BY SlotType DEF Shards, GoodHistory
<1>2. ~(n > Slot(s))
  BY EmptyNodeFields DEF ShardOK
<1>3. ASSUME Slot(s) = n PROVE MyV(s, q) # NoV
  <2> DEFINE mine == Mine(s.round_state, q)
  <2>1. mine \in H[n][q] /\ Precedes(h, mine)
    BY <1>3 DEF ShardOK, RoundOK, Mine
  <2> HIDE DEF mine
  <2>2. h \in NodeStates /\ mine \in NodeStates /\ Sound(q, mine)
    BY <1>1, <2>1, ReportFacts
  <2>3. mine.v # NoV
    BY <2>1, <2>2, CommandStays
  <2> QED BY <2>3 DEF MyV, mine
<1> QED BY <1>1, <1>2, <1>3

\* slot and voted, as SlotVotes takes them from the shards.
SlotOf == [p \in Proc |-> Slot(shard[p])]
HasV   == [p \in Proc |-> MyV(shard[p], p) # NoV]

\* At first nobody has voted.
LEMMA InitVotes == Init => SlotVoting!Init
<1> SUFFICES ASSUME Init PROVE SlotVoting!Init
  OBVIOUS
<1>1. \A p \in Proc : shard[p] = NewShard
  BY DEF Init
<1>2. \A p \in Proc : Slot(NewShard) = 0 /\ MyV(NewShard, p) = NoV
  BY DEF NewShard, Slot, MyV, Mine, ClearRound, EmptyNode
<1> QED BY <1>1, <1>2 DEF SlotVoting!Init

\* Nobody commits a slot before a majority has a command in it, or has left it.
LEMMA CommitsWhenAllowed ==
  ASSUME ShardsTypeOK, NEW K, GoodHistory(K), NEW p \in Proc, NEW t \in Shards,
         ShardOK(K, p, t), \A q \in Proc \ {p} : ShardOK(K, q, shard[q]),
         Slot(t) = Slot(shard[p]) + 1
  PROVE  SlotVoting!CanCommit(p)
<1> DEFINE n == Slot(shard[p])
           Q == {q \in AliveReplicas : q = p \/ SlotVoting!VotedIn(q, SlotOf[p])}
<1>1. shard \in [Proc -> Shards] /\ n \in Nat
  BY SlotType DEF ShardsTypeOK
<1>2. /\ Good(K[n]) /\ t.log[n + 1].v \in Uid
      /\ Decided(K[n], t.log[n + 1].v)
  <2>1. t.log \in Seq([v : Uid, fast : BOOLEAN]) /\ Len(t.log) = n + 1
    BY DEF Shards, Slot
  <2> HIDE DEF n
  <2>2. n + 1 \in DOMAIN t.log /\ (n + 1) - 1 = n
    BY <1>1, <2>1
  <2> QED BY <2>2, LogIsDecided
<1>3. Cardinality(Reporters(K[n])) >= Majority
  BY <1>2, DecidedByMajority
<1>4. Reporters(K[n]) \subseteq Q
  <2> SUFFICES ASSUME NEW q \in AliveReplicas, q # p, NEW h \in K[n][q], h.v # NoV
               PROVE  SlotVoting!VotedIn(q, n)
    BY DEF Reporters, SlotOf
  <2>1. q \in Proc /\ shard[q] \in Shards /\ ShardOK(K, q, shard[q])
    BY <1>1, ReplicasFinite
  <2> HIDE DEF n
  <2>2. Slot(shard[q]) > n \/ (Slot(shard[q]) = n /\ MyV(shard[q], q) # NoV)
    BY <1>1, <2>1, ReporterHolds
  <2> QED BY <2>1, <2>2 DEF SlotVoting!VotedIn
<1>5. Cardinality(Q) >= Majority
  <2>1. IsFiniteSet(Q)
    BY ReplicasFinite, FS_Subset
  <2> HIDE DEF Q
  <2>2. Cardinality(Q) >= Cardinality(Reporters(K[n]))
    BY <1>4, <2>1, FS_Subset
  <2>3. Cardinality(Q) \in Nat /\ Cardinality(Reporters(K[n])) \in Nat
    BY <1>4, <2>1, FS_Subset, FS_CardinalityType
  <2> QED BY <1>3, <2>2, <2>3, MajorityIsNat
<1>6. SlotVoting!Cardinality(Q) = Cardinality(Q) /\ SlotVoting!Majority = Majority
  BY DEF SlotVoting!Cardinality, Cardinality, SlotVoting!Majority, Majority
<1> QED BY <1>5, <1>6 DEF SlotVoting!CanCommit, SlotOf

\* Within a slot a process that has a command keeps one.
LEMMA VoteStays ==
  ASSUME NEW R, Good(R), NEW p \in Proc, NEW r \in RoundStates, NEW o \in RoundStates,
         RoundOK(R, p, o), Keeps(p, r, o), Mine(r, p).v # NoV
  PROVE  Mine(o, p).v # NoV
<1> DEFINE n == Mine(r, p)
           m == Mine(o, p)
<1>1. n \in NodeStates /\ m \in NodeStates /\ Sound(p, m)
  <2>1. m \in R[p]
    BY DEF RoundOK, Mine
  <2> QED BY <2>1, MineType, ReportFacts
<1>2. KeepsPromise(n, m) /\ n.v # NoV
  BY DEF Keeps
<1> SUFFICES m.v # NoV
  OBVIOUS
<1> HIDE DEF n, m
<1>3. CASE m.accept_round = n.accept_round
  BY <1>2, <1>3 DEF KeepsPromise
<1>4. CASE m.accept_round # n.accept_round
  <2>1. m.accept_round >= n.accept_round /\ n.accept_round >= None /\ n.accept_round \in Int
        /\ m.accept_round \in Int
    BY <1>1, <1>2, Ranks DEF KeepsPromise
  <2>2. None \in Int
    BY DEF None
  <2>3. m.accept_round # None
    BY <1>4, <2>1, <2>2
  <2> QED BY <1>1, <2>3 DEF Sound
<1> QED BY <1>3, <1>4

\* A step casts a vote, commits a slot, or changes neither.
LEMMA StepVotes ==
  ASSUME HandlersTypeOK, ShardsTypeOK', NEW p \in Proc, Step(p),
         NEW K, GoodHistory(K), \A q \in Proc : ShardOK(K, q, shard'[q])
  PROVE  SlotVoting!Vote(p) \/ SlotVoting!CommitSlot(p) \/ UNCHANGED SlotVoting!votesVars
<1>1. PICK t : shard' = [shard EXCEPT ![p] = t] /\ Moves(p, shard[p], t)
  BY StepMoves
<1>2. /\ shard \in [Proc -> Shards] /\ shard[p] \in Shards
      /\ shard'[p] = t /\ t \in Shards /\ \A q \in Proc \ {p} : shard'[q] = shard[q]
  <2>1. shard \in [Proc -> Shards]
    BY DEF HandlersTypeOK, ShardsTypeOK
  <2>2. shard'[p] = t /\ \A q \in Proc \ {p} : shard'[q] = shard[q]
    BY <1>1, <2>1
  <2>3. shard'[p] \in Shards
    BY DEF ShardsTypeOK
  <2> QED BY <2>1, <2>2, <2>3
<1>3. /\ SlotOf' = [SlotOf EXCEPT ![p] = Slot(t)]
      /\ HasV' = [HasV EXCEPT ![p] = MyV(t, p) # NoV]
  BY <1>2 DEF SlotOf, HasV
<1>4. SlotOf[p] = Slot(shard[p]) /\ Slot(shard[p]) \in Nat
      /\ shard[p].round_state \in RoundStates /\ t.round_state \in RoundStates
  BY <1>2, SlotType DEF SlotOf, Shards
<1>5. CASE t.round_state = ClearRound /\ Slot(t) = Slot(shard[p]) + 1
  <2>1. SlotVoting!CanCommit(p)
    <3>1. ShardsTypeOK
      BY DEF HandlersTypeOK
    <3>2. ShardOK(K, p, t) /\ \A q \in Proc \ {p} : ShardOK(K, q, shard[q])
      BY <1>2
    <3> QED BY <1>2, <1>5, <3>1, <3>2, CommitsWhenAllowed
  <2>2. MyV(t, p) = NoV
    BY <1>5 DEF MyV, Mine, ClearRound, EmptyNode
  <2>3. SlotOf' = [SlotOf EXCEPT ![p] = @ + 1] /\ HasV' = [HasV EXCEPT ![p] = FALSE]
    BY <1>3, <1>4, <1>5, <2>2
  <2> QED BY <2>1, <2>3 DEF SlotVoting!CommitSlot, SlotOf, HasV
<1>6. CASE Slot(t) = Slot(shard[p]) /\ (MyV(shard[p], p) # NoV => MyV(t, p) # NoV)
  <2>1. SlotOf' = SlotOf
    BY <1>3, <1>6 DEF SlotOf
  <2>2. CASE (MyV(shard[p], p) # NoV) <=> (MyV(t, p) # NoV)
    <3>1. HasV' = HasV
      BY <1>3, <2>2 DEF HasV
    <3> QED BY <2>1, <3>1 DEF SlotVoting!votesVars, SlotOf, HasV
  <2>3. CASE ~((MyV(shard[p], p) # NoV) <=> (MyV(t, p) # NoV))
    <3>1. ~HasV[p] /\ HasV' = [HasV EXCEPT ![p] = TRUE]
      BY <1>3, <1>6, <2>3 DEF HasV
    <3> QED BY <2>1, <3>1 DEF SlotVoting!Vote, SlotOf, HasV
  <2> QED BY <2>2, <2>3
<1>7. CASE Slot(t) = Slot(shard[p]) /\ t.round_state = shard[p].round_state
  BY <1>6, <1>7 DEF MyV
<1>8. CASE Slot(t) = Slot(shard[p]) /\ Keeps(p, shard[p].round_state, t.round_state)
  <2>1. GoodHistory(K) /\ RoundOK(K[Slot(t)], p, t.round_state)
    BY <1>2 DEF ShardOK
  <2>2. Good(K[Slot(t)])
    BY <1>4, <1>8, <2>1 DEF GoodHistory
  <2>3. MyV(shard[p], p) # NoV => MyV(t, p) # NoV
    BY <1>4, <1>8, <2>1, <2>2, VoteStays DEF MyV
  <2> QED BY <1>6, <1>8, <2>3
<1> QED BY <1>1, <1>5, <1>7, <1>8 DEF Moves

\* So does any step of the system.
LEMMA NextVotes == Explained /\ [Next]_vars => [SlotVoting!Next]_(SlotVoting!votesVars)
<1> SUFFICES ASSUME Explained, [Next]_vars PROVE [SlotVoting!Next]_(SlotVoting!votesVars)
  OBVIOUS
<1>1. Explained' /\ HandlersTypeOK
  BY NextExplained DEF Explained, Typed
<1>2. CASE \E p \in Proc : Step(p)
  <2>1. PICK K : Explains(K, net)'
    BY <1>1 DEF Explained
  <2>2. ShardsTypeOK' /\ GoodHistory(K) /\ \A q \in Proc : ShardOK(K, q, shard'[q])
    BY <1>1, <2>1 DEF Explained, Explains, Typed, HandlersTypeOK
  <2> QED BY <1>1, <1>2, <2>2, StepVotes DEF SlotVoting!Next
<1>3. CASE UNCHANGED vars
  BY <1>3 DEF vars, SlotVoting!votesVars
<1> QED BY <1>2, <1>3 DEF Next, Terminated

\* KCensus gives the reads of the slot layer what they rely on: a process with a command
\* in its slot keeps one until it commits the slot, and nobody commits a slot before a
\* majority has a command in it or has left it, however it was decided.
THEOREM KCensusImplementsVotes == Spec => ImplementsVotes
BY AlwaysExplained, InitVotes, NextVotes, PTL DEF Spec, ImplementsVotes, SlotVoting!Spec
=============================================================================
