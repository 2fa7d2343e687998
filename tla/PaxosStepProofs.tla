---------------------------- MODULE PaxosStepProofs ----------------------------
(***************************************************************************)
(* The type invariant of PaxosFamily, for every mode, number of processes,    *)
(* order of leaders and workload; then why the leader-based modes agree on a  *)
(* slot.  That argument is about five things only: S[p], the slot of p; R[p], *)
(* its round state; A, the messages ever sent; acc, what leaders asked        *)
(* replicas to accept; dec, what was decided.  Handlers are taken apart into  *)
(* small steps on these.                                                      *)
(*                                                                         *)
(* Votes come first, then EPaxos' fast path: a replica answers with one       *)
(* proposal in a slot, the first it heard of; whoever collects answers that   *)
(* differ can tell which proposal alone may have been decided fast.  Nothing  *)
(* there depends on the mode but who decides fast: in the others nobody says  *)
(* anything.                                                                  *)
(***************************************************************************)
EXTENDS PaxosProperties, FiniteSetTheorems, WellFoundedInduction, TLAPS

-----------------------------------------------------------------------------
(* Rounds *)

\* A value that was not accepted yet is a pre-accepted one in EPaxos, and only
\* there: a proposer there could not count an answer that names no proposer.
Rvs ==
  {rv \in FastVs \cup PaxosVs :
     rv.accept_round = None => (Mode = "EPaxos" <=> rv.proposer # None)}

\* The round states there are.
Rounds == {r \in PaxosRoundStates : r.max_rv \in Rvs \cup {NoRV}}

\* Processes are naturals, and None comes before them.
LEMMA ProcIsNat ==
  /\ Proc \subseteq Nat /\ Proc \subseteq Int
  /\ None \notin Proc
  /\ OptProc \subseteq Int
  /\ \A p \in Proc : None < p
  /\ \A o \in OptProc : None <= o
<1>1. Proc \subseteq Nat
  BY TopologyAssumption
<1> QED BY <1>1 DEF None, OptProc

\* Live replicas are processes.
LEMMA ReplicasAreProcs == AliveReplicas \subseteq Proc
BY TopologyAssumption

\* A slot starts in a round or in none.
LEMMA StartingRoundType == StartingRound \in OptProc
<1>1. LeaderPriority[1] \in AliveReplicas
  BY PaxosFamilyAssumption
<1> QED BY <1>1, ReplicasAreProcs DEF StartingRound, OptProc

\* So does its round state.
LEMMA ClearRoundType == ClearRound \in Rounds
BY StartingRoundType DEF ClearRound, ClearPaxosRound, Rounds, PaxosRoundStates

\* A value of a round is never the absence of one.
LEMMA RvsAreValues ==
  \A rv \in Rvs :
    /\ rv # NoRV /\ rv.v \in Uid /\ rv.accept_round \in OptProc /\ rv.proposer \in OptProc
    /\ rv \in FastVs \cup PaxosVs
<1> SUFFICES ASSUME NEW rv \in Rvs
             PROVE  /\ rv # NoRV /\ rv.v \in Uid /\ rv.accept_round \in OptProc
                    /\ rv.proposer \in OptProc /\ rv \in FastVs \cup PaxosVs
  OBVIOUS
<1>1. rv \in FastVs \cup PaxosVs
  BY DEF Rvs
<1>2. rv.v \in Uid /\ rv.accept_round \in OptProc /\ rv.proposer \in OptProc
  BY <1>1 DEF FastVs, PaxosVs, OptProc
<1>3. NoV \notin Uid
  BY ProcIsNat DEF NoV, Uid, Command, Batch, None
<1> QED BY <1>1, <1>2, <1>3 DEF NoRV

\* Values accepted in a round, and a proposer's own.
LEMMA PaxosVType ==
  ASSUME NEW round \in Proc, NEW v \in Uid
  PROVE  PaxosV(round, v) \in Rvs
BY ProcIsNat DEF PaxosV, Rvs, PaxosVs, OptProc

\* What p proposes for the value v.
OwnV(p, v) == IF Mode = "EPaxos" THEN FastV(p, v) ELSE PaxosV(None, v)

\* A proposal is a value of a round state.
LEMMA OwnVType ==
  ASSUME NEW p \in Proc, NEW v \in Uid
  PROVE  OwnV(p, v) \in Rvs /\ OwnV(p, v).accept_round = None /\ OwnV(p, v).v = v
BY ProcIsNat DEF OwnV, FastV, PaxosV, Rvs, PaxosVs, FastVs, OptProc

\* Whoever is counted is a process.
LEMMA CountingType ==
  ASSUME NEW P \in SUBSET Proc, NEW p \in Proc, NEW src \in Proc
  PROVE  Counting(P, p, src) \in SUBSET Proc
BY DEF Counting

\* A new round has the value of the old one, and nobody's promise or vote.
LEMMA GotoRoundType ==
  ASSUME NEW r \in Rounds, NEW round \in OptProc
  PROVE  /\ GotoRound(r, round) \in Rounds
         /\ GotoRound(r, round).round = round
         /\ GotoRound(r, round).max_rv = r.max_rv
         /\ GotoRound(r, round).prepared_set = {}
         /\ GotoRound(r, round).accepted_set = {}
         /\ GotoRound(r, round).fast_answers = r.fast_answers
BY DEF GotoRound, Rounds, PaxosRoundStates

\* Counting a promise may change the value, for that of a later vote.
LEMMA ReceivePromiseType ==
  ASSUME NEW r \in Rounds, NEW p \in Proc, NEW src \in Proc, NEW rv \in Rvs
  PROVE  LET n == ReceivePromise(r, p, src, rv)
         IN  /\ n \in Rounds
             /\ n.round = r.round
             /\ n.max_rv = IF r.max_rv = NoRV \/ r.max_rv.accept_round < rv.accept_round
                           THEN rv ELSE r.max_rv
             /\ n.max_rv # NoRV
             /\ n.prepared_set = Counting(r.prepared_set, p, src)
             /\ n.accepted_set = r.accepted_set
             /\ n.fast_answers = r.fast_answers
<1>1. Counting(r.prepared_set, p, src) \in SUBSET Proc
  BY CountingType DEF Rounds, PaxosRoundStates
<1> DEFINE rw == IF r.max_rv = NoRV \/ r.max_rv.accept_round < rv.accept_round THEN rv ELSE r.max_rv
<1>2. rw \in Rvs /\ rw # NoRV
  BY RvsAreValues DEF Rounds
<1>3. ReceivePromise(r, p, src, rv) =
        [r EXCEPT !.max_rv = rw, !.prepared_set = Counting(r.prepared_set, p, src)]
  BY DEF ReceivePromise
<1> HIDE DEF rw
<1>4. rw \in FastVs \cup PaxosVs
  BY <1>2 DEF Rvs
<1>5. ReceivePromise(r, p, src, rv) \in Rounds
  BY <1>1, <1>2, <1>3, <1>4 DEF Rounds, PaxosRoundStates
<1> QED BY <1>1, <1>2, <1>3, <1>5 DEF rw, Rounds, PaxosRoundStates

\* Voting, or counting a vote, may change the value, for that of the round.
LEMMA ReceiveAcceptType ==
  ASSUME NEW r \in Rounds, NEW p \in Proc, NEW src \in Proc, NEW round \in Proc, NEW v \in Uid
  PROVE  LET n == ReceiveAccept(r, p, src, round, v)
         IN  /\ n \in Rounds
             /\ n.round = r.round
             /\ n.max_rv = IF r.max_rv.accept_round < round THEN PaxosV(round, v) ELSE r.max_rv
             /\ n.prepared_set = r.prepared_set
             /\ n.accepted_set = Counting(r.accepted_set, p, src)
             /\ n.fast_answers = r.fast_answers
<1>1. Counting(r.accepted_set, p, src) \in SUBSET Proc
  BY CountingType DEF Rounds, PaxosRoundStates
<1> DEFINE rw == IF r.max_rv.accept_round < round THEN PaxosV(round, v) ELSE r.max_rv
<1>2. rw \in Rvs \cup {NoRV} /\ rw \in FastVs \cup PaxosVs \cup {NoRV}
  BY PaxosVType, RvsAreValues DEF Rounds
<1>3. ReceiveAccept(r, p, src, round, v) =
        [r EXCEPT !.max_rv = rw, !.accepted_set = Counting(r.accepted_set, p, src)]
  BY DEF ReceiveAccept
<1> HIDE DEF rw
<1>4. ReceiveAccept(r, p, src, round, v) \in Rounds
  BY <1>1, <1>2, <1>3 DEF Rounds, PaxosRoundStates
<1> QED BY <1>1, <1>3, <1>4 DEF rw, Rounds, PaxosRoundStates

\* Counting an answer changes nothing else.
LEMMA AnsweredType ==
  ASSUME NEW r \in Rounds, NEW src \in Proc, NEW proposer \in Proc, NEW v \in Uid
  PROVE  LET n == EPaxosAnswered(r, src, proposer, v)
         IN  /\ n \in Rounds
             /\ n.round = r.round /\ n.max_rv = r.max_rv
             /\ n.prepared_set = r.prepared_set /\ n.accepted_set = r.accepted_set
             /\ n.fast_answers =
                  r.fast_answers \cup {[src |-> src, proposer |-> proposer, v |-> v]}
BY DEF EPaxosAnswered, Rounds, PaxosRoundStates

\* Adopting an answered value is accepting it.
LEMMA AdoptType ==
  ASSUME NEW r \in Rounds, NEW p \in Proc, NEW round \in Proc, NEW v \in Uid
  PROVE  LET n == AdoptFromEPaxos(r, p, round, v)
         IN  /\ n \in Rounds
             /\ n.round = r.round /\ n.max_rv = PaxosV(round, v)
             /\ n.prepared_set = r.prepared_set
             /\ n.accepted_set = Counting(r.accepted_set, p, p)
             /\ n.fast_answers = r.fast_answers
<1> DEFINE n == AdoptFromEPaxos(r, p, round, v)
<1>1. Counting(r.accepted_set, p, p) \in SUBSET Proc
  BY CountingType DEF Rounds, PaxosRoundStates
<1>2. n = [r EXCEPT !.max_rv = PaxosV(round, v), !.accepted_set = Counting(r.accepted_set, p, p)]
  BY ProcIsNat DEF AdoptFromEPaxos, SelfAccept, ReceiveAccept, PaxosV, Rounds, PaxosRoundStates
<1>3. PaxosV(round, v) \in Rvs /\ PaxosV(round, v) \in FastVs \cup PaxosVs
  BY PaxosVType, RvsAreValues
<1> HIDE DEF n
<1>4. n \in Rounds
  BY <1>1, <1>2, <1>3 DEF Rounds, PaxosRoundStates
<1> QED BY <1>1, <1>2, <1>4 DEF n, Rounds, PaxosRoundStates

-----------------------------------------------------------------------------
(* What is sent *)

\* A Prepare names a value that its mode can propose.
Known == {m \in Message : m.type = "Prepare" => m.rv \in Rvs}
Outgoing(out) == out \in [Proc -> Seq(Known)]

\* The type of a message says which handler's it is.
LEMMA MessageKinds ==
  ASSUME NEW m \in Known
  PROVE  /\ m \in Message
         /\ m.type \in {"Prepare", "Accept", "ForwardRequest", "Commit"}
         /\ m.type = "Prepare" => m \in PrepareMsg /\ m.rv \in Rvs
         /\ m.type = "Accept" => m \in AcceptMsg
         /\ m.type = "ForwardRequest" => m \in ForwardRequestMsg
         /\ m.type = "Commit" => m \in CommitMsg
         /\ MsgV(m) \in Uid
<1>1. m \in Message
  BY DEF Known
<1>2. /\ m.type \in {"Prepare", "Accept", "ForwardRequest", "Commit"}
      /\ m.type = "Prepare" => m \in PrepareMsg
      /\ m.type = "Accept" => m \in AcceptMsg
      /\ m.type = "ForwardRequest" => m \in ForwardRequestMsg
      /\ m.type = "Commit" => m \in CommitMsg
  BY <1>1 DEF Message, PrepareMsg, AcceptMsg, ForwardRequestMsg, CommitMsg
<1>3. m.type = "Prepare" => m.rv \in Rvs
  BY DEF Known
<1>4. MsgV(m) \in Uid
  BY <1>2, <1>3, RvsAreValues DEF MsgV, AcceptMsg, ForwardRequestMsg, CommitMsg
<1> QED BY <1>1, <1>2, <1>3, <1>4

\* The messages there are.
LEMMA PrepareKnown ==
  ASSUME NEW n \in Nat, NEW p \in Proc, NEW round \in Proc, NEW rv \in Rvs, NEW b \in BOOLEAN
  PROVE  [type |-> "Prepare", slot |-> n, src |-> p, round |-> round, rv |-> rv, new_value |-> b]
           \in Known
BY RvsAreValues DEF Known, Message, PrepareMsg

\* An Accept is one.
LEMMA AcceptKnown ==
  ASSUME NEW n \in Nat, NEW p \in Proc, NEW round \in Proc, NEW v \in Uid, NEW b \in BOOLEAN
  PROVE  [type |-> "Accept", slot |-> n, src |-> p, round |-> round, v |-> v, new_value |-> b]
           \in Known
BY DEF Known, Message, AcceptMsg

\* A Commit is one.
LEMMA CommitKnown ==
  ASSUME NEW n \in Nat, NEW v \in Uid
  PROVE  [type |-> "Commit", slot |-> n, v |-> v] \in Known
BY DEF Known, Message, CommitMsg

\* A forwarded request is one.
LEMMA ForwardKnown ==
  ASSUME NEW v \in Uid
  PROVE  [type |-> "ForwardRequest", v |-> v] \in Known
BY DEF Known, Message, ForwardRequestMsg

\* What handlers send is made of them.
LEMMA NothingOutgoing == Outgoing(Nothing)
BY DEF Outgoing, Nothing

\* One output after another is output.
LEMMA ThenOutgoing ==
  ASSUME NEW o1, NEW o2, Outgoing(o1), Outgoing(o2)
  PROVE  Outgoing(Then(o1, o2))
BY DEF Outgoing, Then

\* What is sent to everybody else is output.
LEMMA ToOthersOutgoing ==
  ASSUME NEW p, NEW D, NEW m \in Known
  PROVE  Outgoing(ToOthers(p, D, m))
BY DEF Outgoing, ToOthers

\* What is sent to replicas is output.
LEMMA ToReplicasOutgoing ==
  ASSUME NEW p, NEW D, NEW m \in Known
  PROVE  Outgoing(ToReplicas(p, D, m))
BY ToOthersOutgoing DEF ToReplicas

-----------------------------------------------------------------------------
(* One process *)

\* One shard is of the declared type, with the round and the messages narrowed.
ShardTypeOK(s) ==
  s \in Shards /\ s.round_state \in Rounds /\ s.queued_messages \in Seq(Known)

\* A shard in the slot of another one, with the same log and held messages.
SameSlot(s, t) ==
  /\ ShardTypeOK(t)
  /\ Slot(t) = Slot(s) /\ t.log = s.log /\ t.queued_messages = s.queued_messages

\* The fields of a shard change without disturbing each other.
LEMMA ShardUpdate ==
  ASSUME NEW s, ShardTypeOK(s)
  PROVE  /\ \A r \in Rounds : LET t == [s EXCEPT !.round_state = r]
                               IN  SameSlot(s, t) /\ t.round_state = r
         /\ \A b \in BOOLEAN : LET t == [s EXCEPT !.slot_left_fast_path = b]
                                IN  SameSlot(s, t) /\ t.round_state = s.round_state
         /\ \A b \in BOOLEAN : LET t == [s EXCEPT !.panicked = b]
                                IN  SameSlot(s, t) /\ t.round_state = s.round_state
         /\ \A k \in Nat : LET t == [s EXCEPT !.scan = k]
                            IN  SameSlot(s, t) /\ t.round_state = s.round_state
         /\ \A Q \in SUBSET Uid : LET t == [s EXCEPT !.queued_commands = Q]
                                   IN  SameSlot(s, t) /\ t.round_state = s.round_state
         /\ \A h \in Seq(Known) : LET t == [s EXCEPT !.queued_messages = h]
                                   IN  /\ ShardTypeOK(t) /\ t.queued_messages = h
                                       /\ Slot(t) = Slot(s) /\ t.log = s.log
                                       /\ t.round_state = s.round_state
<1>1. \A r \in Rounds : r \in PaxosRoundStates
  BY DEF Rounds
<1>2. \A h \in Seq(Known) : h \in Seq(Message)
  BY DEF Known
<1>3. /\ s \in Shards /\ s.round_state \in Rounds /\ s.queued_messages \in Seq(Known)
  BY DEF ShardTypeOK
<1>4. ASSUME NEW r \in Rounds
      PROVE  LET t == [s EXCEPT !.round_state = r] IN SameSlot(s, t) /\ t.round_state = r
  BY <1>1, <1>3 DEF SameSlot, ShardTypeOK, Shards, Slot
<1>5. ASSUME NEW b \in BOOLEAN
      PROVE  /\ LET t == [s EXCEPT !.slot_left_fast_path = b]
                IN  SameSlot(s, t) /\ t.round_state = s.round_state
             /\ LET t == [s EXCEPT !.panicked = b]
                IN  SameSlot(s, t) /\ t.round_state = s.round_state
  BY <1>3 DEF SameSlot, ShardTypeOK, Shards, Slot
<1>6. ASSUME NEW k \in Nat
      PROVE  LET t == [s EXCEPT !.scan = k] IN SameSlot(s, t) /\ t.round_state = s.round_state
  BY <1>3 DEF SameSlot, ShardTypeOK, Shards, Slot
<1>7. ASSUME NEW Q \in SUBSET Uid
      PROVE  LET t == [s EXCEPT !.queued_commands = Q]
             IN  SameSlot(s, t) /\ t.round_state = s.round_state
  BY <1>3 DEF SameSlot, ShardTypeOK, Shards, Slot
<1>8. ASSUME NEW h \in Seq(Known)
      PROVE  LET t == [s EXCEPT !.queued_messages = h]
             IN  /\ ShardTypeOK(t) /\ t.queued_messages = h
                 /\ Slot(t) = Slot(s) /\ t.log = s.log
                 /\ t.round_state = s.round_state
  BY <1>2, <1>3 DEF ShardTypeOK, Shards, Slot
<1> QED BY <1>4, <1>5, <1>6, <1>7, <1>8

\* What follows from a shard follows from what follows it.
LEMMA SameSlotTransitive ==
  ASSUME NEW s, NEW t, NEW u, SameSlot(s, t), SameSlot(t, u)
  PROVE  SameSlot(s, u)
BY DEF SameSlot

\* And from itself.
LEMMA SameSlotReflexive == ASSUME NEW s, ShardTypeOK(s) PROVE SameSlot(s, s)
BY DEF SameSlot

\* A slot is a natural.
LEMMA SlotType == ASSUME NEW s, ShardTypeOK(s) PROVE Slot(s) \in Nat
BY DEF ShardTypeOK, Shards, Slot

\* A failed assertion leaves a shard.
LEMMA PanicType ==
  ASSUME NEW s, ShardTypeOK(s), NEW ok \in BOOLEAN
  PROVE  SameSlot(s, Panic(s, ok)) /\ Panic(s, ok).round_state = s.round_state
<1>1. (s.panicked \/ ~ok) \in BOOLEAN
  BY DEF ShardTypeOK, Shards
<1> QED BY <1>1, ShardUpdate DEF Panic

\* A commit starts the next slot.
LEMMA CommitSlotType ==
  ASSUME NEW s, ShardTypeOK(s), NEW v \in Uid
  PROVE  LET t == CommitSlot(s, v)
         IN  /\ ShardTypeOK(t)
             /\ t.round_state = ClearRound
             /\ Slot(t) = Slot(s) + 1
             /\ t.log = Append(s.log, [v |-> v, fast |-> TookFastPath(s)])
             /\ t.queued_messages = s.queued_messages
<1> DEFINE gone == {v} \cup v.members
           Q == {w \in s.queued_commands \ gone : IsBatch(w) => w.slot > Slot(s)}
           log == Append(s.log, [v |-> v, fast |-> TookFastPath(s)])
<1>1. TookFastPath(s) \in BOOLEAN
  BY DEF TookFastPath, ShardTypeOK, Shards
<1>2. log \in Seq([v : Uid, fast : BOOLEAN]) /\ Len(log) = Len(s.log) + 1
  BY <1>1 DEF ShardTypeOK, Shards
<1>3. Q \in SUBSET Uid
  BY DEF ShardTypeOK, Shards
<1>4. CommitSlot(s, v) = [s EXCEPT !.queued_commands = Q, !.log = log,
                            !.slot_left_fast_path = FALSE, !.round_state = ClearRound, !.scan = 1]
  BY DEF CommitSlot, Committed
<1> DEFINE clear == ClearRound
<1> HIDE DEF gone, Q, log, clear
<1>5. clear \in PaxosRoundStates /\ clear \in Rounds
  BY ClearRoundType DEF Rounds, clear
<1> DEFINE t1 == [s EXCEPT !.queued_commands = Q]
           t2 == [t1 EXCEPT !.log = log]
           t3 == [t2 EXCEPT !.slot_left_fast_path = FALSE]
           t4 == [t3 EXCEPT !.round_state = clear]
           t5 == [t4 EXCEPT !.scan = 1]
<1>6. /\ CommitSlot(s, v) \in Shards
      /\ CommitSlot(s, v).log = log
      /\ CommitSlot(s, v).round_state = clear
      /\ CommitSlot(s, v).queued_messages = s.queued_messages
  <2>1. t1 \in Shards /\ t1.queued_messages = s.queued_messages
    BY <1>3 DEF ShardTypeOK, Shards
  <2> HIDE DEF t1
  <2>2. t2 \in Shards /\ t2.queued_messages = t1.queued_messages /\ t2.log = log
    BY <1>2, <2>1 DEF Shards
  <2> HIDE DEF t2
  <2>3. t3 \in Shards /\ t3.queued_messages = t2.queued_messages /\ t3.log = t2.log
    BY <2>2 DEF Shards
  <2> HIDE DEF t3
  <2>4. /\ t4 \in Shards /\ t4.queued_messages = t3.queued_messages /\ t4.log = t3.log
        /\ t4.round_state = clear
    BY <1>5, <2>3 DEF Shards
  <2> HIDE DEF t4
  <2>5. /\ t5 \in Shards /\ t5.queued_messages = t4.queued_messages /\ t5.log = t4.log
        /\ t5.round_state = t4.round_state
    BY <2>4 DEF Shards
  <2>6. CommitSlot(s, v) = t5
    BY <1>4 DEF clear, t1, t2, t3, t4
  <2> HIDE DEF t5
  <2> QED BY <2>1, <2>2, <2>3, <2>4, <2>5, <2>6
<1>7. ShardTypeOK(CommitSlot(s, v))
  BY <1>5, <1>6 DEF ShardTypeOK
<1> QED BY <1>2, <1>6, <1>7 DEF log, Slot, clear

\* Queueing a new command leaves a shard.
LEMMA StoreNewCommandType ==
  ASSUME NEW s, ShardTypeOK(s), NEW v \in Uid
  PROVE  LET t == StoreNewCommand(s, v)
         IN  SameSlot(s, t) /\ t.round_state = s.round_state
<1>1. s.queued_commands \cup {v} \in SUBSET Uid /\ s.next_uid + 1 \in Nat
  BY DEF ShardTypeOK, Shards
<1> QED BY <1>1 DEF StoreNewCommand, ShardTypeOK, Shards, SameSlot, Slot

\* Everything a message brings along is kept as it is typed.
LEMMA StoreRemoteCommandType ==
  ASSUME NEW s, ShardTypeOK(s), NEW m \in Known
  PROVE  LET t == StoreRemoteCommand(s, m)
         IN  SameSlot(s, t) /\ t.round_state = s.round_state
<1>1. s.queued_commands \cup {MsgV(m)} \in SUBSET Uid
  BY MessageKinds DEF ShardTypeOK, Shards
<1> QED BY <1>1, ShardUpdate, SameSlotReflexive DEF StoreRemoteCommand

\* What is queued and is not a batch is a command.
LEMMA QueuedSinglesType ==
  ASSUME NEW s, ShardTypeOK(s)
  PROVE  QueuedSingles(s) \subseteq Command /\ QueuedSingles(s) \subseteq Uid
BY DEF QueuedSingles, ShardTypeOK, Shards, Uid, Batch, Command, IsBatch

\* A batch of the queued commands is a uid.
LEMMA BatchOfType ==
  ASSUME NEW p \in Proc, NEW s, ShardTypeOK(s)
  PROVE  BatchOf(s, p) \in Uid
<1>1. s.next_uid \in Nat /\ Slot(s) \in Nat
  BY SlotType DEF ShardTypeOK, Shards
<1> QED BY <1>1, QueuedSinglesType DEF BatchOf, NewBatch, Uid, Batch

\* A client's command is a uid.
LEMMA NewCommandType ==
  ASSUME NEW p \in Proc, NEW k \in Nat
  PROVE  NewCommand(p, k) \in Uid
BY DEF NewCommand, Uid, Command

-----------------------------------------------------------------------------
(* Processing a message *)

\* A message that concerns a process is about its slot, and takes it to the
\* message's round.
LEMMA InRoundType ==
  ASSUME NEW p \in Proc, NEW m \in Known, NEW s, ShardTypeOK(s), Concerns(p, m, s)
  PROVE  LET r == s.round_state
             t == InRound(s, m.round)
             g == IF m.round > r.round THEN GotoRound(r, m.round) ELSE r
         IN  /\ SameSlot(s, t) /\ t.round_state = g
             /\ g \in Rounds /\ g.round = m.round
             /\ g.max_rv = r.max_rv /\ g.fast_answers = r.fast_answers
             /\ m.round \in Proc /\ m.src \in Proc /\ m.slot = Slot(s) /\ p \in AliveReplicas
<1>1. m.round \in Proc /\ m.src \in Proc
  BY MessageKinds DEF Concerns, OfRound, PrepareMsg, AcceptMsg
<1>2. s.round_state \in Rounds /\ s.round_state.round \in OptProc
  BY DEF ShardTypeOK, Rounds, PaxosRoundStates
<1>3. /\ m.round \in Int /\ s.round_state.round \in Int
      /\ m.round >= s.round_state.round
  <2>1. m.round \in Int /\ s.round_state.round \in Int
    BY <1>1, <1>2, ProcIsNat
  <2>2. m.round >= s.round_state.round
    BY DEF Concerns
  <2> QED BY <2>1, <2>2
<1>4. CASE m.round > s.round_state.round
  <2>1. m.round \in OptProc
    BY <1>1 DEF OptProc
  <2> DEFINE g == GotoRound(s.round_state, m.round)
  <2>2. /\ g \in Rounds /\ g.round = m.round /\ g.max_rv = s.round_state.max_rv
        /\ g.fast_answers = s.round_state.fast_answers
    BY <1>2, <2>1, GotoRoundType
  <2>3. InRound(s, m.round) = [s EXCEPT !.round_state = g]
    BY <1>4 DEF InRound
  <2> HIDE DEF g
  <2>4. SameSlot(s, InRound(s, m.round)) /\ InRound(s, m.round).round_state = g
    BY <2>2, <2>3, ShardUpdate
  <2> QED BY <1>1, <1>4, <2>2, <2>4 DEF Concerns, g
<1>5. CASE ~(m.round > s.round_state.round)
  <2>1. InRound(s, m.round) = s /\ s.round_state.round = m.round
    BY <1>3, <1>5 DEF InRound
  <2> QED BY <1>1, <1>2, <1>5, <2>1, SameSlotReflexive DEF Concerns
<1> QED BY <1>4, <1>5

\* A Prepare leaves its receiver with a value.
LEMMA PromptedType ==
  ASSUME NEW p \in Proc, NEW m \in Known, NEW s, ShardTypeOK(s), Concerns(p, m, s),
         m.type = "Prepare"
  PROVE  LET g == InRound(s, m.round).round_state
             u == IF g.max_rv = NoRV THEN PaxosProposeV(g, p, m.rv) ELSE g
             t == Prompted(p, m, s)
         IN  /\ SameSlot(s, t) /\ t.round_state = u
             /\ u \in Rounds /\ u.round = m.round /\ u.max_rv # NoRV
<1> DEFINE t == InRound(s, m.round)
           g == t.round_state
           u == IF g.max_rv = NoRV THEN PaxosProposeV(g, p, m.rv) ELSE g
           ok == g.max_rv = NoRV => ProposeVAsserts(g)
           n == [t EXCEPT !.round_state = u]
<1>1. SameSlot(s, t) /\ ShardTypeOK(t) /\ g \in Rounds /\ g.round = m.round
  BY InRoundType DEF SameSlot, ShardTypeOK
<1>2. m.rv \in Rvs
  BY MessageKinds
<1>3. Prompted(p, m, s) = Panic(n, ok)
  BY DEF Prompted
<1> HIDE DEF t
<1>4. u \in Rounds /\ u.round = m.round /\ u.max_rv # NoRV
  BY <1>1, <1>2, ReceivePromiseType DEF PaxosProposeV
<1>5. ok \in BOOLEAN
  BY DEF ProposeVAsserts
<1> HIDE DEF u, ok
<1>6. SameSlot(t, n) /\ n.round_state = u
  BY <1>1, <1>4, ShardUpdate
<1> HIDE DEF n
<1>7. SameSlot(s, Panic(n, ok)) /\ Panic(n, ok).round_state = u
  BY <1>1, <1>5, <1>6, PanicType, SameSlotTransitive DEF SameSlot
<1> QED BY <1>3, <1>4, <1>7 DEF t, u

\* Every shard is.
ShardsTypeOK == shard \in [Proc -> Shards] /\ \A p \in Proc : ShardTypeOK(shard[p])
ChannelsTypeOK(chan) == chan \in [Proc -> [Proc -> Seq(Known)]]
HistoryTypeOK ==
  /\ decided \subseteq [slot : Nat, v : Uid, round : Proc, fast : BOOLEAN]
  /\ accepts \subseteq [slot : Nat, round : Proc, v : Uid]

\* What the handlers preserve, pending aside.
HandlersTypeOK == ShardsTypeOK /\ ChannelsTypeOK(net) /\ HistoryTypeOK

\* A process that ends a step with a well typed shard and output keeps Typed.
LEMMA BecomeType ==
  ASSUME ShardsTypeOK, NEW p \in Proc, NEW chan, ChannelsTypeOK(chan),
         NEW s, ShardTypeOK(s), NEW out, Outgoing(out), Become(p, s, chan, out)
  PROVE  ShardsTypeOK' /\ ChannelsTypeOK(net)'
<1>1. ShardsTypeOK'
  <2>1. s \in Shards /\ shard' = [shard EXCEPT ![p] = s]
    BY DEF ShardTypeOK, Become
  <2> QED BY <2>1 DEF ShardsTypeOK
<1>2. Outgoing(Then(chan[p], out))
  BY ThenOutgoing DEF ChannelsTypeOK, Outgoing
<1>3. ChannelsTypeOK(net')
  <2> DEFINE sent == Then(chan[p], out)
  <2>1. net' = [chan EXCEPT ![p] = sent]
    BY DEF Become, Send
  <2>2. sent \in [Proc -> Seq(Known)]
    BY <1>2 DEF Outgoing
  <2> HIDE DEF sent
  <2> QED BY <2>1, <2>2 DEF ChannelsTypeOK
<1> QED BY <1>1, <1>3 DEF ChannelsTypeOK

\* Histories that do not change stay typed.
LEMMA HistoryUnchanged ==
  ASSUME HistoryTypeOK, UNCHANGED history
  PROVE  HistoryTypeOK'
BY DEF HistoryTypeOK, history

\* Deciding keeps Typed.
LEMMA DecideType ==
  ASSUME HandlersTypeOK, NEW p \in Proc, NEW s, ShardTypeOK(s), s.round_state.round \in Proc,
         s.round_state.max_rv # NoRV, NEW v \in Uid, NEW fast \in BOOLEAN, NEW tells \in BOOLEAN,
         NEW chan, ChannelsTypeOK(chan), NEW out, Outgoing(out),
         Decide(p, s, v, fast, tells, chan, out)
  PROVE  HandlersTypeOK'
<1> DEFINE commit == [type |-> "Commit", slot |-> Slot(s), v |-> s.round_state.max_rv.v]
           sent == IF tells THEN Then(out, ToOthers(p, Proc, commit)) ELSE out
           t == Panic(CommitSlot(s, v), CommitAsserts(s, v))
<1>1. Slot(s) \in Nat /\ s.round_state.max_rv.v \in Uid
  BY SlotType, RvsAreValues DEF ShardTypeOK, Rounds
<1>2. Outgoing(sent)
  BY <1>1, CommitKnown, ToOthersOutgoing, ThenOutgoing
<1>3. ShardTypeOK(t)
  BY CommitSlotType, PanicType DEF CommitAsserts, SameSlot
<1> HIDE DEF commit, sent, t
<1>4. Become(p, t, chan, sent)
  BY DEF Decide, commit, sent, t
<1>5. ShardsTypeOK' /\ ChannelsTypeOK(net)'
  BY <1>2, <1>3, <1>4, BecomeType DEF HandlersTypeOK
<1>6. HistoryTypeOK'
  BY <1>1 DEF Decide, HandlersTypeOK, HistoryTypeOK
<1> QED BY <1>5, <1>6 DEF HandlersTypeOK

\* Asking for votes keeps Typed.
LEMMA BroadcastAcceptType ==
  ASSUME HandlersTypeOK, NEW p \in Proc, NEW s, ShardTypeOK(s), s.round_state.round \in Proc,
         s.round_state.max_rv # NoRV, NEW chan, ChannelsTypeOK(chan), BroadcastAccept(p, s, chan)
  PROVE  HandlersTypeOK'
<1> DEFINE r == s.round_state
           accept == [type |-> "Accept", slot |-> Slot(s), src |-> p, round |-> r.round,
                      v |-> r.max_rv.v, new_value |-> FALSE]
           t == [s EXCEPT !.slot_left_fast_path = TRUE]
           sent == ToReplicas(p, Proc, accept)
<1>1. Slot(s) \in Nat /\ r.max_rv.v \in Uid
  BY SlotType, RvsAreValues DEF ShardTypeOK, Rounds
<1>2. Outgoing(sent)
  BY <1>1, AcceptKnown, ToReplicasOutgoing
<1>3. ShardTypeOK(t)
  BY ShardUpdate DEF SameSlot
<1> HIDE DEF accept, sent, t
<1>4. Become(p, t, chan, sent)
  BY DEF BroadcastAccept, r, accept, sent, t
<1>5. ShardsTypeOK' /\ ChannelsTypeOK(net)'
  BY <1>2, <1>3, <1>4, BecomeType DEF HandlersTypeOK
<1>6. HistoryTypeOK'
  BY <1>1 DEF BroadcastAccept, HandlersTypeOK, HistoryTypeOK
<1> QED BY <1>5, <1>6 DEF HandlersTypeOK

\* What does nothing keeps Typed.
LEMMA IgnoredType ==
  ASSUME HandlersTypeOK, NEW p \in Proc, NEW m \in Known, NEW s, ShardTypeOK(s),
         NEW chan, ChannelsTypeOK(chan), Ignored(p, m, s, chan)
  PROVE  HandlersTypeOK'
BY NothingOutgoing, BecomeType, HistoryUnchanged DEF Ignored, HandlersTypeOK

\* A Commit message keeps Typed.
LEMMA CommitMessageType ==
  ASSUME HandlersTypeOK, NEW p \in Proc, NEW m \in Known, NEW s, ShardTypeOK(s),
         NEW chan, ChannelsTypeOK(chan), CommitMessage(p, m, s, chan)
  PROVE  HandlersTypeOK'
<1> DEFINE t == Panic(CommitSlot(s, m.v), CommitAsserts(s, m.v))
<1>1. m.v \in Uid
  BY MessageKinds DEF CommitMessage, CommitMsg
<1>2. ShardTypeOK(t)
  BY <1>1, CommitSlotType, PanicType DEF CommitAsserts, SameSlot
<1> HIDE DEF t
<1>3. Become(p, t, chan, Nothing) /\ UNCHANGED history
  BY DEF CommitMessage, t
<1> QED BY <1>2, <1>3, NothingOutgoing, BecomeType, HistoryUnchanged DEF HandlersTypeOK

\* An answer to a Prepare keeps Typed.
LEMMA AnswerPrepareType ==
  ASSUME HandlersTypeOK, NEW p \in Proc, NEW m \in Known, m.type = "Prepare",
         NEW s, ShardTypeOK(s), s.round_state.max_rv # NoRV,
         NEW chan, ChannelsTypeOK(chan), AnswerPrepare(p, m, s, chan)
  PROVE  HandlersTypeOK'
<1> DEFINE to     == Coordinator(m.round)
           silent == s.round_state.max_rv.accept_round = m.round
           ok     == silent \/ to = m.src \/ to # m.round
           answer == [m EXCEPT !.src = p, !.rv = s.round_state.max_rv, !.new_value = FALSE]
           out    == IF silent THEN Nothing ELSE ToReplicas(p, {to}, answer)
           t      == Panic(s, ok)
<1>1. /\ m \in PrepareMsg /\ s.round_state.max_rv \in Rvs
      /\ s.round_state.max_rv \in FastVs \cup PaxosVs
  BY MessageKinds, RvsAreValues DEF ShardTypeOK, Rounds
<1>2. answer \in PrepareMsg /\ answer.rv = s.round_state.max_rv
  BY <1>1 DEF PrepareMsg
<1>3. answer \in Known
  BY <1>1, <1>2 DEF Known, Message
<1> HIDE DEF answer
<1>4. Outgoing(out)
  BY <1>3, ToReplicasOutgoing, NothingOutgoing
<1>5. ok \in BOOLEAN
  OBVIOUS
<1> HIDE DEF ok, out
<1>6. ShardTypeOK(t)
  BY <1>5, PanicType DEF SameSlot
<1> HIDE DEF t
<1>7. Become(p, t, chan, out) /\ UNCHANGED history
  BY DEF AnswerPrepare, to, silent, ok, answer, out, t
<1> QED BY <1>4, <1>6, <1>7, BecomeType, HistoryUnchanged DEF HandlersTypeOK

\* The coordinator's turn to accept keeps Typed.
LEMMA StartAcceptingType ==
  ASSUME HandlersTypeOK, NEW p \in Proc, NEW m \in Known, NEW s, ShardTypeOK(s),
         m.round \in Proc, s.round_state.round = m.round, s.round_state.max_rv # NoRV,
         NEW was_prepared,
         NEW chan, ChannelsTypeOK(chan), StartAccepting(p, m, s, was_prepared, chan)
  PROVE  HandlersTypeOK'
<1> DEFINE r == s.round_state
           a == SelfAccept(r, p, m.round)
           ok == SelfAcceptAsserts(r, m.round)
           t == [s EXCEPT !.round_state = a]
<1>1. r \in Rounds /\ r.max_rv.v \in Uid /\ r.max_rv.accept_round \in OptProc
  BY RvsAreValues DEF ShardTypeOK, Rounds
<1>2. a \in Rounds /\ a.round = m.round /\ a.max_rv # NoRV
  <2>1. /\ a \in Rounds /\ a.round = r.round
        /\ a.max_rv = IF r.max_rv.accept_round < m.round THEN PaxosV(m.round, r.max_rv.v)
                      ELSE r.max_rv
    BY <1>1, ReceiveAcceptType DEF SelfAccept
  <2>2. PaxosV(m.round, r.max_rv.v) # NoRV
    BY <1>1, PaxosVType, RvsAreValues
  <2> QED BY <2>1, <2>2
<1>3. ok \in BOOLEAN
  BY DEF SelfAcceptAsserts
<1> HIDE DEF a, ok
<1>4. ShardTypeOK(t) /\ t.round_state = a
  BY <1>2, ShardUpdate DEF SameSlot
<1> HIDE DEF t
<1>5. ShardTypeOK(Panic(t, ok)) /\ Panic(t, ok).round_state = a
  BY <1>3, <1>4, PanicType DEF SameSlot
<1>6. \/ BroadcastAccept(p, Panic(t, ok), chan)
      \/ Become(p, s, chan, Nothing) /\ UNCHANGED history
  BY DEF StartAccepting, r, a, ok, t
<1>7. CASE BroadcastAccept(p, Panic(t, ok), chan)
  BY <1>2, <1>5, <1>7, BroadcastAcceptType
<1>8. CASE Become(p, s, chan, Nothing) /\ UNCHANGED history
  BY <1>8, NothingOutgoing, BecomeType, HistoryUnchanged DEF HandlersTypeOK
<1> QED BY <1>6, <1>7, <1>8

\* Counting an answer keeps Typed, whatever is adopted.
LEMMA CountAnswerType ==
  ASSUME HandlersTypeOK, NEW p \in Proc, NEW m \in Known, m.type = "Prepare",
         Mode = "EPaxos", m.src \in Proc,
         m.rv.accept_round = None, NEW s, ShardTypeOK(s), m.round \in Proc,
         s.round_state.round = m.round, s.round_state.max_rv # NoRV,
         NEW chan, ChannelsTypeOK(chan), CountAnswer(p, m, s, chan)
  PROVE  HandlersTypeOK'
<1> DEFINE r == EPaxosAnswered(s.round_state, m.src, m.rv.proposer, m.rv.v)
           ok == /\ AnsweredAsserts(s.round_state, m.src) /\ m.rv.proposer # None
                 /\ p \in Proposers(r)
           n == [s EXCEPT !.round_state = r]
           t == Panic(n, ok)
<1>1. m.rv \in Rvs /\ m.rv.v \in Uid /\ m.rv.proposer \in Proc
  <2>1. m.rv \in Rvs /\ m.rv.v \in Uid /\ m.rv.proposer \in OptProc
    BY MessageKinds, RvsAreValues
  <2> QED BY <2>1 DEF Rvs, OptProc
<1>2. s.round_state \in Rounds
  BY DEF ShardTypeOK
<1>3. r \in Rounds /\ r.round = m.round /\ r.max_rv # NoRV
  <2> DEFINE q == m.rv.proposer
             w == m.rv.v
             a == m.src
             o == s.round_state
  <2>1. q \in Proc /\ w \in Uid /\ a \in Proc /\ o \in Rounds
    BY <1>1, <1>2
  <2> HIDE DEF q, w, a, o
  <2>2. LET x == EPaxosAnswered(o, a, q, w)
        IN  x \in Rounds /\ x.round = o.round /\ x.max_rv = o.max_rv
    BY <2>1, AnsweredType
  <2> QED BY <2>2 DEF q, w, a, o
<1>4. ok \in BOOLEAN
  BY DEF AnsweredAsserts
<1> HIDE DEF r, ok
<1>5. ShardTypeOK(n) /\ n.round_state = r
  BY <1>3, ShardUpdate DEF SameSlot
<1> HIDE DEF n
<1>6. ShardTypeOK(t) /\ t.round_state = r
  BY <1>4, <1>5, PanicType DEF SameSlot
<1> HIDE DEF t
<1> DEFINE adopted(v) == Panic([t EXCEPT !.round_state = AdoptFromEPaxos(r, p, m.round, v)],
                               IsPrepared(r) /\ r.accepted_set = {})
<1>7. \/ Decide(p, t, m.rv.v, TRUE, TRUE, chan, Nothing)
      \/ \E v \in EPaxosAdoptable(r) : BroadcastAccept(p, adopted(v), chan)
      \/ Become(p, t, chan, Nothing) /\ UNCHANGED history
  BY DEF CountAnswer, r, ok, n, t
<1>8. CASE Decide(p, t, m.rv.v, TRUE, TRUE, chan, Nothing)
  BY <1>1, <1>3, <1>6, <1>8, NothingOutgoing, DecideType
<1>9. CASE \E v \in EPaxosAdoptable(r) : BroadcastAccept(p, adopted(v), chan)
  <2>1. PICK v \in EPaxosAdoptable(r) : BroadcastAccept(p, adopted(v), chan)
    BY <1>9
  <2>2. v \in Uid
    <3>1. r.fast_answers \subseteq [src : Proc, proposer : Proc, v : Uid]
      BY <1>3 DEF Rounds, PaxosRoundStates
    <3> QED BY <3>1 DEF EPaxosAdoptable
  <2> DEFINE o == AdoptFromEPaxos(r, p, m.round, v)
             fine == IsPrepared(r) /\ r.accepted_set = {}
             w == [t EXCEPT !.round_state = o]
  <2>3. o \in Rounds /\ o.round = m.round /\ o.max_rv # NoRV
    BY <1>3, <2>2, AdoptType, PaxosVType, RvsAreValues
  <2>4. fine \in BOOLEAN
    BY DEF IsPrepared
  <2>5. adopted(v) = Panic(w, fine)
    OBVIOUS
  <2> HIDE DEF o, fine, adopted
  <2>6. ShardTypeOK(w) /\ w.round_state = o
    BY <1>6, <2>3, ShardUpdate DEF SameSlot
  <2> HIDE DEF w
  <2>7. ShardTypeOK(adopted(v)) /\ adopted(v).round_state = o
    BY <2>4, <2>5, <2>6, PanicType DEF SameSlot
  <2> QED BY <2>1, <2>3, <2>7, BroadcastAcceptType
<1>10. CASE Become(p, t, chan, Nothing) /\ UNCHANGED history
  BY <1>6, <1>10, NothingOutgoing, BecomeType, HistoryUnchanged DEF HandlersTypeOK
<1> QED BY <1>7, <1>8, <1>9, <1>10

\* p's shard with a Prepare taken in, and with the promise in it counted.
Taken(p, m, s)   == Panic(Prompted(p, m, s), m.src \in AliveReplicas)
Counted(p, m, s) == [Taken(p, m, s) EXCEPT !.round_state = ReceivePromise(@, p, m.src, m.rv)]

\* Both are in the round of the message, with a value.
LEMMA CountedType ==
  ASSUME NEW p \in Proc, NEW m \in Known, NEW s, ShardTypeOK(s), Concerns(p, m, s),
         m.type = "Prepare"
  PROVE  LET t == Taken(p, m, s)
             c == Counted(p, m, s)
         IN  /\ SameSlot(s, t) /\ t.round_state = Prompted(p, m, s).round_state
             /\ t.round_state \in Rounds
             /\ t.round_state.round = m.round /\ t.round_state.max_rv # NoRV
             /\ SameSlot(s, c)
             /\ c.round_state = ReceivePromise(t.round_state, p, m.src, m.rv)
             /\ c.round_state \in Rounds
             /\ c.round_state.round = m.round /\ c.round_state.max_rv # NoRV
<1> DEFINE ok == m.src \in AliveReplicas
           t == Taken(p, m, s)
           c == Counted(p, m, s)
           r == ReceivePromise(t.round_state, p, m.src, m.rv)
<1>1. ok \in BOOLEAN /\ m.src \in Proc /\ m.rv \in Rvs
  BY MessageKinds DEF PrepareMsg
<1> HIDE DEF ok
<1>2. /\ SameSlot(s, Prompted(p, m, s)) /\ Prompted(p, m, s).round_state \in Rounds
      /\ Prompted(p, m, s).round_state.round = m.round
      /\ Prompted(p, m, s).round_state.max_rv # NoRV
  BY PromptedType
<1>3. t = Panic(Prompted(p, m, s), ok)
  BY DEF Taken, ok
<1>4. SameSlot(Prompted(p, m, s), t) /\ t.round_state = Prompted(p, m, s).round_state
  BY <1>1, <1>2, <1>3, PanicType DEF SameSlot
<1>5. SameSlot(s, t)
  BY <1>2, <1>4, SameSlotTransitive
<1> HIDE DEF t
<1>6. t.round_state \in Rounds /\ t.round_state.round = m.round
  BY <1>2, <1>4
<1>7. r \in Rounds /\ r.round = m.round /\ r.max_rv # NoRV
  <2> DEFINE o == t.round_state
             a == m.src
             w == m.rv
  <2>1. o \in Rounds /\ a \in Proc /\ w \in Rvs
    BY <1>1, <1>6
  <2> HIDE DEF o, a, w
  <2>2. LET n == ReceivePromise(o, p, a, w)
        IN  n \in Rounds /\ n.round = o.round /\ n.max_rv # NoRV
    BY <2>1, ReceivePromiseType
  <2> QED BY <1>6, <2>2 DEF o, a, w
<1>8. c = [t EXCEPT !.round_state = r]
  BY DEF Counted, t
<1> HIDE DEF c, r
<1>9. SameSlot(t, c) /\ c.round_state = r
  BY <1>5, <1>7, <1>8, ShardUpdate DEF SameSlot
<1>10. SameSlot(s, c)
  BY <1>5, <1>9, SameSlotTransitive
<1> QED BY <1>2, <1>4, <1>5, <1>7, <1>9, <1>10 DEF t, c, r

\* The Prepare handler keeps Typed.
LEMMA PrepareMessageType ==
  ASSUME HandlersTypeOK, NEW p \in Proc, NEW m \in Known, NEW s, ShardTypeOK(s),
         NEW chan, ChannelsTypeOK(chan), PrepareMessage(p, m, s, chan)
  PROVE  HandlersTypeOK'
<1> DEFINE t == Taken(p, m, s)
           c == Counted(p, m, s)
           answers == Mode = "EPaxos" /\ c.round_state.max_rv.accept_round = None
<1>1. m.type = "Prepare" /\ Concerns(p, m, s)
  BY DEF PrepareMessage
<1>2. m.round \in Proc /\ m.src \in Proc /\ m.rv \in Rvs
  BY <1>1, MessageKinds DEF PrepareMsg
<1>3. /\ ShardTypeOK(t) /\ t.round_state \in Rounds
      /\ t.round_state.round = m.round /\ t.round_state.max_rv # NoRV
      /\ ShardTypeOK(c) /\ c.round_state \in Rounds
      /\ c.round_state = ReceivePromise(t.round_state, p, m.src, m.rv)
      /\ c.round_state.round = m.round /\ c.round_state.max_rv # NoRV
  BY <1>1, CountedType DEF SameSlot
<1>4. answers => m.rv.accept_round = None
  <2> DEFINE o == t.round_state
             a == m.src
             w == m.rv
  <2>1. o \in Rounds /\ a \in Proc /\ w \in Rvs /\ o.max_rv # NoRV
    BY <1>2, <1>3
  <2> HIDE DEF o, a, w
  <2>2. /\ o.max_rv.accept_round \in OptProc /\ w.accept_round \in OptProc
        /\ ReceivePromise(o, p, a, w).max_rv =
              IF o.max_rv.accept_round < w.accept_round THEN w ELSE o.max_rv
    BY <2>1, ReceivePromiseType, RvsAreValues DEF Rounds
  <2>3. ReceivePromise(o, p, a, w).max_rv.accept_round = None => w.accept_round = None
    BY <2>2, ProcIsNat DEF OptProc, None
  <2> QED BY <1>3, <2>3 DEF o, a, w
<1>5. \/ AnswerPrepare(p, m, t, chan)
      \/ answers /\ CountAnswer(p, m, c, chan)
      \/ StartAccepting(p, m, c, IsPrepared(t.round_state), chan)
  BY DEF PrepareMessage, Taken, Counted
<1> HIDE DEF t, c
<1>6. CASE AnswerPrepare(p, m, t, chan)
  BY <1>1, <1>3, <1>6, AnswerPrepareType
<1>7. CASE answers /\ CountAnswer(p, m, c, chan)
  BY <1>1, <1>2, <1>3, <1>4, <1>7, CountAnswerType
<1>8. CASE StartAccepting(p, m, c, IsPrepared(t.round_state), chan)
  BY <1>2, <1>3, <1>8, StartAcceptingType
<1> QED BY <1>5, <1>6, <1>7, <1>8

\* p's shard with an Accept taken in and counted.
Accepted(p, m, s) ==
  LET t == InRound(s, m.round)
  IN  Panic([t EXCEPT !.slot_left_fast_path = TRUE,
                      !.round_state = ReceiveAccept(@, p, m.src, m.round, m.v)],
            /\ m.src \in AliveReplicas
            /\ AcceptAsserts(t.round_state, m.round, m.v))

\* It is in the round of the message, with a value.
LEMMA AcceptedType ==
  ASSUME NEW p \in Proc, NEW m \in Known, NEW s, ShardTypeOK(s), Concerns(p, m, s),
         m.type = "Accept"
  PROVE  LET r == InRound(s, m.round).round_state
             u == Accepted(p, m, s)
         IN  /\ SameSlot(s, u) /\ u.round_state = ReceiveAccept(r, p, m.src, m.round, m.v)
             /\ u.round_state \in Rounds
             /\ u.round_state.round = m.round /\ u.round_state.max_rv # NoRV
<1> DEFINE t == InRound(s, m.round)
           r == t.round_state
           a == m.src
           k == m.round
           v == m.v
           o == ReceiveAccept(r, p, a, k, v)
           ok == m.src \in AliveReplicas /\ AcceptAsserts(r, m.round, m.v)
           t1 == [t EXCEPT !.slot_left_fast_path = TRUE]
           t2 == [t1 EXCEPT !.round_state = o]
<1>1. k \in Proc /\ a \in Proc /\ v \in Uid
  BY MessageKinds DEF AcceptMsg
<1>2. SameSlot(s, t) /\ ShardTypeOK(t) /\ r \in Rounds /\ r.round = k
  BY InRoundType DEF SameSlot, ShardTypeOK
<1>3. ok \in BOOLEAN
  BY DEF AcceptAsserts
<1>4. Accepted(p, m, s) = Panic(t2, ok)
  <2>1. t1.round_state = t.round_state
    BY <1>2, ShardUpdate
  <2> QED BY <2>1 DEF Accepted
<1> HIDE DEF t, r, a, k, v, ok
<1>5. /\ o \in Rounds /\ o.round = k
      /\ o.max_rv = IF r.max_rv.accept_round < k THEN PaxosV(k, v) ELSE r.max_rv
  BY <1>1, <1>2, ReceiveAcceptType
<1>6. o.max_rv # NoRV
  <2>1. PaxosV(k, v) # NoRV
    BY <1>1, PaxosVType, RvsAreValues
  <2>2. r.max_rv = NoRV => r.max_rv.accept_round < k
    BY <1>1, ProcIsNat DEF NoRV
  <2> QED BY <1>5, <2>1, <2>2
<1> HIDE DEF o
<1>7. SameSlot(t, t1)
  BY <1>2, ShardUpdate
<1> HIDE DEF t1
<1>8. SameSlot(t1, t2) /\ t2.round_state = o
  BY <1>5, <1>7, ShardUpdate DEF SameSlot
<1> HIDE DEF t2
<1>9. SameSlot(t2, Panic(t2, ok)) /\ Panic(t2, ok).round_state = o
  BY <1>3, <1>8, PanicType DEF SameSlot
<1>10. SameSlot(s, Panic(t2, ok))
  BY <1>2, <1>7, <1>8, <1>9, SameSlotTransitive
<1> QED BY <1>4, <1>5, <1>6, <1>9, <1>10 DEF t, r, a, k, v, o

\* A vote is an Accept message.
LEMMA VotesType ==
  ASSUME NEW p \in Proc, NEW m \in Known, m.type = "Accept"
  PROVE  Outgoing(Votes(p, m))
<1> DEFINE vote == [m EXCEPT !.src = p, !.new_value = FALSE]
           committer == IF Mode = "MultiPaxos3P" THEN GetCommitter(m.v) ELSE None
           o1 == IF committer \notin {None, m.round, p} THEN ToReplicas(p, {committer}, vote)
                 ELSE Nothing
           o2 == ToReplicas(p, {m.round}, vote)
<1>1. vote \in AcceptMsg /\ vote.type = "Accept"
  BY MessageKinds DEF AcceptMsg
<1>2. vote \in Known
  BY <1>1 DEF Known, Message
<1> HIDE DEF vote, committer
<1>3. Outgoing(o1) /\ Outgoing(o2)
  BY <1>2, ToReplicasOutgoing, NothingOutgoing
<1>4. Votes(p, m) = Then(o1, o2)
  BY DEF Votes, vote, committer
<1> QED BY <1>3, <1>4, ThenOutgoing

\* The Accept handler keeps Typed.
LEMMA AcceptMessageType ==
  ASSUME HandlersTypeOK, NEW p \in Proc, NEW m \in Known, NEW s, ShardTypeOK(s),
         NEW chan, ChannelsTypeOK(chan), AcceptMessage(p, m, s, chan)
  PROVE  HandlersTypeOK'
<1> DEFINE u      == Accepted(p, m, s)
           third  == Mode = "MultiPaxos3P" /\ GetCommitter(m.v) = p
           asked  == p # m.round /\ m.src = Coordinator(m.round)
           out    == IF asked THEN Votes(p, m) ELSE Nothing
           counts == p = m.round \/ third
           tells  == p = m.round \/ m.v.pid # p
           ok     == counts \/ asked
<1>1. m.type = "Accept" /\ Concerns(p, m, s)
  BY DEF AcceptMessage
<1>2. m.round \in Proc /\ m.v \in Uid
  BY <1>1, MessageKinds DEF AcceptMsg
<1>3. /\ ShardTypeOK(u) /\ u.round_state.round = m.round /\ u.round_state.max_rv # NoRV
  BY <1>1, AcceptedType DEF SameSlot
<1>4. Outgoing(out)
  BY <1>1, VotesType, NothingOutgoing
<1>5. ok \in BOOLEAN /\ tells \in BOOLEAN
  OBVIOUS
<1>6. \/ Decide(p, u, m.v, FALSE, tells, chan, out)
      \/ Become(p, Panic(u, ok), chan, out) /\ UNCHANGED history
  BY DEF AcceptMessage, Accepted
<1> HIDE DEF u, out, ok, tells
<1>7. CASE Decide(p, u, m.v, FALSE, tells, chan, out)
  BY <1>2, <1>3, <1>4, <1>5, <1>7, DecideType
<1>8. CASE Become(p, Panic(u, ok), chan, out) /\ UNCHANGED history
  <2>1. ShardTypeOK(Panic(u, ok))
    BY <1>3, <1>5, PanicType DEF SameSlot
  <2> QED BY <1>4, <1>8, <2>1, BecomeType, HistoryUnchanged DEF HandlersTypeOK
<1> QED BY <1>6, <1>7, <1>8

\* Handling any message keeps Typed.
LEMMA ProcessType ==
  ASSUME HandlersTypeOK, NEW p \in Proc, NEW m \in Known, NEW s, ShardTypeOK(s),
         NEW chan, ChannelsTypeOK(chan), Process(p, m, s, chan)
  PROVE  HandlersTypeOK'
BY IgnoredType, CommitMessageType, PrepareMessageType, AcceptMessageType DEF Process

-----------------------------------------------------------------------------
(* The main loop *)

\* Every nonempty set of naturals has a lowest element.
LEMMA LowestNat ==
  ASSUME NEW P, P \subseteq Nat, P # {}
  PROVE  Min(P) \in P /\ \A k \in P : Min(P) <= k
<1>1. PICK m \in P : \A k \in P : <<k, m>> \notin OpToRel(<, Nat)
  BY WFMin, NatLessThanWellFounded
<1>2. \A k \in P : ~(k < m)
  BY <1>1 DEF OpToRel
<1>3. \A k \in P : m <= k
  BY <1>2
<1> QED BY <1>3 DEF Min

\* Whoever is to lead is a live replica; in Multi-Paxos it is the same always.
LEMMA GetLeaderType ==
  ASSUME NEW s
  PROVE  /\ GetLeader(s) \in AliveReplicas
         /\ LeaderPriority[1] \in AliveReplicas
         /\ IsMultiPaxos => GetLeader(s) = StartingRound
<1>1. LeaderPriority \in Seq(AliveReplicas) /\ LeaderPriority # <<>>
  BY PaxosFamilyAssumption
<1>2. \A i \in DOMAIN LeaderPriority : LeaderPriority[i] \in AliveReplicas
  BY <1>1
<1>3. 1 \in DOMAIN LeaderPriority /\ DOMAIN LeaderPriority \subseteq Nat
  BY <1>1
<1>4. LeadersOf(s) \subseteq DOMAIN LeaderPriority
  BY DEF LeadersOf
<1>5. LeadersOf(s) # {} => Min(LeadersOf(s)) \in DOMAIN LeaderPriority
  BY <1>3, <1>4, LowestNat
<1> QED BY <1>2, <1>3, <1>5 DEF GetLeader, StartingRound

\* The round state of a proposer that has just prompted its round.
Went(r, p, v) ==
  LET g == GotoRound(r, p)
  IN  PaxosProposeV(IF Mode = "EPaxos" THEN EPaxosAnswered(g, p, p, v) ELSE g, p, OwnV(p, v))

\* Its own answer counts, as its promise does.
LEMMA WentType ==
  ASSUME NEW r \in Rounds, NEW p \in Proc, NEW v \in Uid
  PROVE  LET n == Went(r, p, v)
         IN  /\ n \in Rounds
             /\ n.round = p /\ n.max_rv # NoRV
             /\ r.max_rv = NoRV => n.max_rv = OwnV(p, v)
             /\ n.prepared_set = Counting({}, p, p)
             /\ n.accepted_set = {}
             /\ Mode = "EPaxos" =>
                  n.fast_answers = r.fast_answers \cup {[src |-> p, proposer |-> p, v |-> v]}
             /\ Mode # "EPaxos" => n.fast_answers = r.fast_answers
<1> DEFINE g  == GotoRound(r, p)
           rv == OwnV(p, v)
           e  == IF Mode = "EPaxos" THEN EPaxosAnswered(g, p, p, v) ELSE g
<1>1. p \in OptProc /\ rv \in Rvs
  BY OwnVType DEF OptProc
<1>2. /\ g \in Rounds /\ g.round = p /\ g.max_rv = r.max_rv /\ g.prepared_set = {}
      /\ g.accepted_set = {} /\ g.fast_answers = r.fast_answers
  BY <1>1, GotoRoundType
<1> HIDE DEF g, rv
<1>3. /\ e \in Rounds /\ e.round = p /\ e.max_rv = r.max_rv /\ e.prepared_set = {}
      /\ e.accepted_set = {}
      /\ Mode = "EPaxos" =>
           e.fast_answers = r.fast_answers \cup {[src |-> p, proposer |-> p, v |-> v]}
      /\ Mode # "EPaxos" => e.fast_answers = r.fast_answers
  <2>1. CASE Mode = "EPaxos"
    BY <1>2, <2>1, AnsweredType
  <2>2. CASE Mode # "EPaxos"
    BY <1>2, <2>2
  <2> QED BY <2>1, <2>2
<1>4. Went(r, p, v) = ReceivePromise(e, p, p, rv)
  BY DEF Went, PaxosProposeV, g, rv
<1> HIDE DEF e
<1>5. LET n == ReceivePromise(e, p, p, rv)
      IN  /\ n \in Rounds /\ n.round = e.round /\ n.max_rv # NoRV
          /\ e.max_rv = NoRV => n.max_rv = rv
          /\ n.prepared_set = Counting(e.prepared_set, p, p)
          /\ n.accepted_set = e.accepted_set /\ n.fast_answers = e.fast_answers
  <2> DEFINE n == ReceivePromise(e, p, p, rv)
  <2>1. e \in Rounds /\ p \in Proc /\ rv \in Rvs
    BY <1>1, <1>3
  <2>2. n \in Rounds /\ n.round = e.round /\ n.max_rv # NoRV
    BY <2>1, ReceivePromiseType
  <2>3. e.max_rv = NoRV => n.max_rv = rv
    BY <2>1, ReceivePromiseType
  <2>4. /\ n.prepared_set = Counting(e.prepared_set, p, p)
        /\ n.accepted_set = e.accepted_set /\ n.fast_answers = e.fast_answers
    BY <2>1, ReceivePromiseType
  <2> QED BY <2>2, <2>3, <2>4
<1> QED BY <1>3, <1>4, <1>5 DEF rv

\* What Propose does, with its assertions named.
Fine(r, p) == ProposeAsserts(p, r) /\ ProposeVAsserts(GotoRound(r, p))

\* It asks for votes at once in Multi-Paxos, and for promises elsewhere.
LEMMA ProposeCases ==
  ASSUME NEW p, NEW s, NEW v, NEW newValue, Propose(p, s, v, newValue)
  PROVE  LET n  == Went(s.round_state, p, v)
             rv == OwnV(p, v)
             ok == Fine(s.round_state, p)
         IN  \/ /\ IsMultiPaxos
                /\ Become(p, Panic([s EXCEPT !.round_state = SelfAccept(n, p, p)], ok), net,
                          ToReplicas(p, Proc, [type |-> "Accept", slot |-> Slot(s), src |-> p,
                                               round |-> p, v |-> v, new_value |-> newValue]))
                /\ accepts' = accepts \cup {[slot |-> Slot(s), round |-> p, v |-> v]}
                /\ UNCHANGED decided
             \/ /\ ~IsMultiPaxos
                /\ Become(p, Panic([s EXCEPT !.round_state = n], ok), net,
                          ToReplicas(p, Proc, [type |-> "Prepare", slot |-> Slot(s), src |-> p,
                                               round |-> p, rv |-> rv, new_value |-> newValue]))
                /\ UNCHANGED history
BY DEF Propose, Went, Fine, OwnV

\* Proposing keeps Typed.
LEMMA ProposeType ==
  ASSUME HandlersTypeOK, NEW p \in Proc, NEW s, ShardTypeOK(s), NEW v \in Uid,
         NEW newValue \in BOOLEAN, Propose(p, s, v, newValue)
  PROVE  HandlersTypeOK'
<1> DEFINE n  == Went(s.round_state, p, v)
           k  == SelfAccept(n, p, p)
           rv == OwnV(p, v)
           ok == Fine(s.round_state, p)
           accept  == [type |-> "Accept", slot |-> Slot(s), src |-> p,
                       round |-> p, v |-> v, new_value |-> newValue]
           prepare == [type |-> "Prepare", slot |-> Slot(s), src |-> p,
                       round |-> p, rv |-> rv, new_value |-> newValue]
           leads   == Panic([s EXCEPT !.round_state = k], ok)
           starts  == Panic([s EXCEPT !.round_state = n], ok)
           a       == [slot |-> Slot(s), round |-> p, v |-> v]
<1>1. s.round_state \in Rounds /\ Slot(s) \in Nat
  BY SlotType DEF ShardTypeOK
<1>2. n \in Rounds /\ n.max_rv # NoRV
  <2> DEFINE o == s.round_state
  <2>1. o \in Rounds /\ p \in Proc /\ v \in Uid
    BY <1>1
  <2> HIDE DEF o
  <2>2. Went(o, p, v) \in Rounds /\ Went(o, p, v).max_rv # NoRV
    BY <2>1, WentType
  <2> QED BY <2>2 DEF o
<1>3. k \in Rounds
  <2>1. n.max_rv.v \in Uid
    BY <1>2, RvsAreValues DEF Rounds
  <2> HIDE DEF n
  <2> DEFINE w == n.max_rv.v
  <2> HIDE DEF w
  <2>2. ReceiveAccept(n, p, p, p, w) \in Rounds
    BY <1>2, <2>1, ReceiveAcceptType DEF w
  <2> QED BY <2>2 DEF SelfAccept, w
<1>4. ok \in BOOLEAN
  BY DEF Fine, ProposeAsserts, ProposeVAsserts
<1>5. accept \in Known /\ prepare \in Known
  BY <1>1, AcceptKnown, PrepareKnown, OwnVType
<1>6. \/ /\ Become(p, leads, net, ToReplicas(p, Proc, accept))
         /\ accepts' = accepts \cup {a}
         /\ UNCHANGED decided
      \/ Become(p, starts, net, ToReplicas(p, Proc, prepare)) /\ UNCHANGED history
  BY ProposeCases
<1> HIDE DEF n, k, rv, ok, accept, prepare
<1>7. ShardTypeOK(leads) /\ ShardTypeOK(starts)
  <2>1. ShardTypeOK([s EXCEPT !.round_state = k]) /\ ShardTypeOK([s EXCEPT !.round_state = n])
    BY <1>2, <1>3, ShardUpdate DEF SameSlot
  <2> QED BY <1>4, <2>1, PanicType DEF SameSlot
<1> HIDE DEF leads, starts
<1>8. ShardsTypeOK' /\ ChannelsTypeOK(net)'
  BY <1>5, <1>6, <1>7, ToReplicasOutgoing, BecomeType DEF HandlersTypeOK
<1>9. HistoryTypeOK'
  <2>1. a \in [slot : Nat, round : Proc, v : Uid]
    BY <1>1
  <2> HIDE DEF a
  <2> QED BY <1>6, <2>1 DEF HandlersTypeOK, HistoryTypeOK, history
<1> QED BY <1>8, <1>9 DEF HandlersTypeOK

\* So does a command that starts, whether it is proposed or forwarded.
LEMMA ProposeStartType ==
  ASSUME HandlersTypeOK, NEW p \in Proc, NEW s, ShardTypeOK(s), NEW v \in Uid,
         NEW contention, ProposeStart(p, s, v, contention)
  PROVE  HandlersTypeOK'
<1> DEFINE t == StoreNewCommand(s, v)
           out == ToOthers(p, Proc, [type |-> "ForwardRequest", v |-> v])
<1>1. ShardTypeOK(t)
  BY StoreNewCommandType DEF SameSlot
<1>2. Outgoing(out)
  BY ForwardKnown, ToOthersOutgoing
<1>3. (Become(p, t, net, out) /\ UNCHANGED history) \/ Propose(p, t, v, TRUE)
  BY DEF ProposeStart
<1> HIDE DEF t, out
<1> QED BY <1>1, <1>2, <1>3, ProposeType, BecomeType, HistoryUnchanged DEF HandlersTypeOK

\* Receiving a message keeps Typed.
LEMMA ReceiveType ==
  ASSUME HandlersTypeOK, NEW p \in Proc, NEW q \in Proc, Receive(p, q)
  PROVE  HandlersTypeOK'
<1> DEFINE m      == Head(net[q][p])
           chan   == [net EXCEPT ![q][p] = Tail(@)]
           stored == StoreRemoteCommand(shard[p], m)
           ok     == StoreAsserts(shard[p], m) /\ ReadyAsserts(stored, m)
           s      == Panic(stored, ok)
           more   == IF CarriesValue(m) THEN 1 ELSE 0
           held   == Append(s.queued_messages, m)
<1>1. net[q][p] \in Seq(Known) /\ net[q][p] # <<>>
  BY DEF Receive, HandlersTypeOK, ChannelsTypeOK
<1>2. m \in Known /\ Tail(net[q][p]) \in Seq(Known)
  BY <1>1
<1>3. ChannelsTypeOK(chan)
  BY <1>2 DEF HandlersTypeOK, ChannelsTypeOK
<1> HIDE DEF m, chan
<1>4. ShardTypeOK(stored)
  BY <1>2, StoreRemoteCommandType DEF HandlersTypeOK, ShardsTypeOK, SameSlot
<1> HIDE DEF stored
<1>5. ok \in BOOLEAN
  OBVIOUS
<1> HIDE DEF ok
<1>6. ShardTypeOK(s)
  BY <1>4, <1>5, PanicType DEF SameSlot
<1> HIDE DEF s
<1>7. ShardTypeOK([s EXCEPT !.scan = more])
  BY <1>6, ShardUpdate DEF SameSlot
<1> HIDE DEF more
<1>8. held \in Seq(Known)
  BY <1>2, <1>6 DEF ShardTypeOK
<1> HIDE DEF held
<1>9. ShardTypeOK([s EXCEPT !.queued_messages = held])
  BY <1>6, <1>8, ShardUpdate
<1>10. \/ Process(p, m, [s EXCEPT !.scan = more], chan)
       \/ Become(p, [s EXCEPT !.queued_messages = held], chan, Nothing) /\ UNCHANGED history
  BY DEF Receive, m, chan, stored, ok, s, more, held
<1>11. CASE Process(p, m, [s EXCEPT !.scan = more], chan)
  BY <1>2, <1>3, <1>7, <1>11, ProcessType
<1>12. CASE Become(p, [s EXCEPT !.queued_messages = held], chan, Nothing) /\ UNCHANGED history
  BY <1>3, <1>9, <1>12, NothingOutgoing, BecomeType, HistoryUnchanged DEF HandlersTypeOK
<1> QED BY <1>10, <1>11, <1>12

\* A client's command keeps Typed.
LEMMA ClientCommandType ==
  ASSUME HandlersTypeOK, NEW p \in Proc, ClientCommand(p)
  PROVE  HandlersTypeOK'
<1> DEFINE old == shard[p]
           v   == NewCommand(p, old.next_uid)
           k   == Len(old.queued_messages) + 1
           s   == [old EXCEPT !.scan = k]
           contention == Ongoing(old) \/ old.queued_messages # <<>> \/ old.queued_commands # {}
<1>1. ShardTypeOK(old)
  BY DEF HandlersTypeOK, ShardsTypeOK
<1>2. v \in Uid /\ k \in Nat
  BY <1>1, NewCommandType DEF ShardTypeOK, Shards
<1>3. ProposeStart(p, s, v, contention)
  BY DEF ClientCommand
<1> HIDE DEF old, v, k, contention
<1>4. ShardTypeOK(s)
  BY <1>1, <1>2, ShardUpdate DEF SameSlot
<1> HIDE DEF s
<1> QED BY <1>2, <1>3, <1>4, ProposeStartType

\* Handling a held message keeps Typed.
LEMMA ProcessHeldType ==
  ASSUME HandlersTypeOK, NEW p \in Proc, ProcessHeld(p)
  PROVE  HandlersTypeOK'
<1>1. PICK i \in ReadyHeld(p) :
        Process(p, shard[p].queued_messages[i],
                [shard[p] EXCEPT !.queued_messages = RemoveAt(@, i), !.scan = i], net)
  BY DEF ProcessHeld
<1> DEFINE h == shard[p].queued_messages
           rest == RemoveAt(h, i)
           s == [shard[p] EXCEPT !.queued_messages = rest]
<1>2. ShardTypeOK(shard[p]) /\ h \in Seq(Known)
  BY DEF HandlersTypeOK, ShardsTypeOK, ShardTypeOK
<1>3. i \in 1 .. Len(h) /\ h[i] \in Known
  BY <1>2 DEF ReadyHeld
<1>4. rest \in Seq(Known)
  <2>1. SubSeq(h, 1, i - 1) \in Seq(Known) /\ SubSeq(h, i + 1, Len(h)) \in Seq(Known)
    BY <1>2, <1>3
  <2> QED BY <2>1 DEF RemoveAt
<1> HIDE DEF rest
<1>5. ShardTypeOK(s)
  BY <1>2, <1>4, ShardUpdate
<1>6. ShardTypeOK([s EXCEPT !.scan = i])
  <2>1. i \in Nat
    BY <1>2, <1>3
  <2> HIDE DEF s, h
  <2> QED BY <1>5, <2>1, ShardUpdate DEF SameSlot
<1>7. [s EXCEPT !.scan = i] = [shard[p] EXCEPT !.queued_messages = RemoveAt(@, i), !.scan = i]
  BY <1>2 DEF rest, ShardTypeOK, Shards
<1> QED BY <1>1, <1>3, <1>6, <1>7, ProcessType DEF HandlersTypeOK

\* The end of the loop's body keeps Typed.
LEMMA ReproposeType ==
  ASSUME HandlersTypeOK, NEW p \in Proc, Repropose(p)
  PROVE  HandlersTypeOK'
<1> DEFINE s == [shard[p] EXCEPT !.scan = 0]
           batch == BatchOf(s, p)
<1>1. ShardTypeOK(s)
  BY ShardUpdate DEF HandlersTypeOK, ShardsTypeOK, SameSlot
<1>2. \/ ProposeStart(p, s, batch, FALSE)
      \/ \E v \in QueuedSingles(s) : Propose(p, s, v, FALSE)
      \/ Become(p, s, net, Nothing) /\ UNCHANGED history
  BY DEF Repropose
<1> HIDE DEF s
<1>3. batch \in Uid /\ QueuedSingles(s) \subseteq Uid
  BY <1>1, BatchOfType, QueuedSinglesType
<1> HIDE DEF batch
<1> QED BY <1>1, <1>2, <1>3, ProposeStartType, ProposeType, NothingOutgoing, BecomeType,
           HistoryUnchanged DEF HandlersTypeOK

-----------------------------------------------------------------------------
(* The invariant *)

\* The type invariant, with what the handlers need.
Typed == HandlersTypeOK /\ pending \in [Proc -> Nat]

\* Typed holds at first.
LEMMA InitTyped == Init => Typed
<1> SUFFICES ASSUME Init PROVE Typed
  OBVIOUS
<1>1. NewShard \in Shards /\ ShardTypeOK(NewShard)
  BY ClearRoundType DEF ShardTypeOK, Shards, NewShard, Rounds
<1>2. ShardsTypeOK
  BY <1>1 DEF Init, ShardsTypeOK
<1>3. ChannelsTypeOK(net)
  BY NothingOutgoing DEF Init, ChannelsTypeOK, Outgoing
<1> QED BY <1>2, <1>3, WorkloadAssumption DEF Init, Typed, HandlersTypeOK, HistoryTypeOK

\* A step of any process keeps Typed.
LEMMA StepTyped ==
  ASSUME Typed, NEW p \in Proc, Step(p)
  PROVE  Typed'
<1>1. HandlersTypeOK'
  BY ClientCommandType, ReceiveType, ProcessHeldType, ReproposeType DEF Step, Typed
<1>2. pending' \in [Proc -> Nat]
  <2>1. pending' = pending \/ (pending[p] > 0 /\ pending' = [pending EXCEPT ![p] = @ - 1])
    BY DEF Step, ClientCommand, Receive, ProcessHeld, Repropose
  <2> QED BY <2>1 DEF Typed
<1> QED BY <1>1, <1>2 DEF Typed

\* Stuttering keeps Typed.
LEMMA UnchangedTyped == Typed /\ UNCHANGED vars => Typed'
BY DEF Typed, HandlersTypeOK, ShardsTypeOK, ChannelsTypeOK, HistoryTypeOK, vars

\* Typed is at least TypeOK.
LEMMA TypedImpliesTypeOK == Typed => TypeOK
<1>1. \A h \in Seq(Known) : h \in Seq(Message)
  BY DEF Known
<1> QED BY <1>1 DEF Typed, HandlersTypeOK, ShardsTypeOK, ChannelsTypeOK, HistoryTypeOK, TypeOK

\* Typed is inductive.
LEMMA NextTyped == Typed /\ [Next]_vars => Typed'
<1> SUFFICES ASSUME Typed, [Next]_vars PROVE Typed'
  OBVIOUS
<1>1. CASE \E p \in Proc : Step(p)
  BY <1>1, StepTyped
<1>2. CASE UNCHANGED vars
  BY <1>2, UnchangedTyped
<1> QED BY <1>1, <1>2 DEF Next, Terminated

\* Every reachable state is Typed.
LEMMA AlwaysTyped == Spec => []Typed
BY InitTyped, NextTyped, PTL DEF Spec

\* Every state is of the types declared with the variables: promises, votes and
\* answers are of the rounds and values they name, and what is held or in flight
\* is a message, for every mode, order of leaders and workload.
THEOREM TypeCorrect == Spec => []TypeOK
BY AlwaysTyped, TypedImpliesTypeOK, PTL


-----------------------------------------------------------------------------
(* Votes and vows *)

\* The round of the last vote of a in its slot.
Ar(R, a) == R[a].max_rv.accept_round

\* a has voted in round b of slot n, as a message or somebody's count says.
Vote(S, R, A, a, n, b) ==
  \/ \E m \in A : m.type = "Accept" /\ m.src = a /\ m.slot = n /\ m.round = b
  \/ \E c \in Proc : S[c] = n /\ R[c].round = b /\ a \in R[c].accepted_set

\* a has promised round b of slot n, and reported k as the round of its last
\* vote; who counts the promise has heard of a vote in round k, or later.
Vow(S, R, A, a, n, b, k) ==
  \/ \E m \in A : /\ m.type = "Prepare" /\ m.src = a /\ m.slot = n /\ m.round = b
                  /\ m.rv.accept_round = k
  \/ \E c \in Proc : /\ S[c] = n /\ R[c].round = b /\ Ar(R, c) = k
                     /\ a \in R[c].prepared_set

Voted(S, R, a, n, b)    == S[a] > n \/ (S[a] = n /\ Ar(R, a) >= b)
Left(S, R, a, n, b)     == S[a] > n \/ (S[a] = n /\ R[a].round > b)
Promised(S, R, a, n, b) ==
  S[a] > n \/ (S[a] = n /\ R[a].round >= b /\ R[a].max_rv # NoRV)

\* a has not voted in round b, and never will.
NoVote(S, R, A, a, n, b) ==
  ~Vote(S, R, A, a, n, b) /\ Left(S, R, a, n, b)

\* Every vow of a for a round above b tells of a vote in b, or later.
Lock(S, R, A, a, n, b) ==
  /\ Voted(S, R, a, n, b)
  /\ \A e, k \in OptProc : Vow(S, R, A, a, n, e, k) /\ e > b => k >= b

\* A vote is remembered by its voter, until it commits the slot.
VotesKept(S, R, A) ==
  \A a \in Proc, n \in Nat, b \in Proc :
    Vote(S, R, A, a, n, b) =>
      a \in AliveReplicas /\ Voted(S, R, a, n, b)

\* A promise is kept, and tells of the last vote before it.
VowsKept(S, R, A) ==
  \A a \in Proc, n \in Nat, b, k \in OptProc :
    Vow(S, R, A, a, n, b, k) =>
      /\ a \in AliveReplicas /\ Promised(S, R, a, n, b)
      /\ \A e \in Proc : k < e /\ e < b => NoVote(S, R, A, a, n, e)

-----------------------------------------------------------------------------
(* The invariant *)

\* Types of the five things.
TypesOK(S, R, A) == S \in [Proc -> Nat] /\ R \in [Proc -> Rounds] /\ A \subseteq Known
HistoryOK(acc, dec) ==
  /\ acc \subseteq [slot : Nat, round : Proc, v : Uid]
  /\ dec \subseteq [slot : Nat, v : Uid, round : Proc, fast : BOOLEAN]

\* v was asked for in round b of slot n.
Asked(acc, n, b, v) == [slot |-> n, round |-> b, v |-> v] \in acc

\* Nobody votes above its round, or for what nobody asked for.
RoundsOK(S, R, acc) ==
  \A p \in Proc :
    /\ Ar(R, p) <= R[p].round /\ StartingRound <= R[p].round
    /\ Ar(R, p) # None => Asked(acc, S[p], Ar(R, p), R[p].max_rv.v)

\* Accept messages repeat what was asked for; Prepare messages the last vote, below
\* the promised round; Commit messages a decision.
AcceptsOK(A, acc) ==
  \A m \in A : m.type = "Accept" => Asked(acc, m.slot, m.round, m.v)
PreparesOK(A, acc) ==
  \A m \in A : m.type = "Prepare" =>
    /\ ~IsMultiPaxos
    /\ m.rv.accept_round < m.round
    /\ m.rv.accept_round # None => Asked(acc, m.slot, m.rv.accept_round, m.rv.v)
CommitsOK(A, dec) ==
  \A m \in A : m.type = "Commit" => \E d \in dec : d.slot = m.slot /\ d.v = m.v

\* All messages do.
MessagesOK(A, acc, dec) == AcceptsOK(A, acc) /\ PreparesOK(A, acc) /\ CommitsOK(A, dec)

\* The coordinator of a round asks for votes once.
LedBy(S, R, c, n, b) ==
  \/ S[c] > n
  \/ /\ S[c] = n
     /\ \/ R[c].round > b
        \/ /\ R[c].round = b /\ Ar(R, c) = b
           /\ IsMultiPaxos \/ IsPrepared(R[c])
Led(S, R, acc) ==
  \A x \in acc :
    StartingRound <= x.round /\ LedBy(S, R, Coordinator(x.round), x.slot, x.round)
OneValue(acc) == \A x, y \in acc : x.slot = y.slot /\ x.round = y.round => x.v = y.v

\* Below a round whose leader asked for v, v alone was asked for, or a majority
\* did not vote and will not.
SafeAt(S, R, A, acc, n, b, v) ==
  \/ Asked(acc, n, b, v)
  \/ Cardinality({a \in AliveReplicas : NoVote(S, R, A, a, n, b)}) >= Majority
Safe(S, R, A, acc) ==
  \A x \in acc : \A b \in Proc :
    StartingRound <= b /\ b < x.round => SafeAt(S, R, A, acc, x.slot, b, x.v)

\* What was decided by votes is locked at a majority.
Locked(S, R, A, acc, dec) ==
  \A d \in dec : ~d.fast =>
    /\ Asked(acc, d.slot, d.round, d.v)
    /\ Cardinality({a \in AliveReplicas : Lock(S, R, A, a, d.slot, d.round)}) >= Majority

SlowKept(acc, dec) ==
  \A d \in dec, x \in acc :
    ~d.fast /\ x.slot = d.slot /\ x.round >= d.round => x.v = d.v

\* All of it.
Base(S, R, A, acc, dec) ==
  /\ TypesOK(S, R, A) /\ HistoryOK(acc, dec)
  /\ RoundsOK(S, R, acc) /\ MessagesOK(A, acc, dec)
  /\ VotesKept(S, R, A) /\ VowsKept(S, R, A)
  /\ Led(S, R, acc) /\ OneValue(acc)
  /\ Safe(S, R, A, acc)
  /\ Locked(S, R, A, acc, dec) /\ SlowKept(acc, dec)

-----------------------------------------------------------------------------
(* What small steps have in common *)

\* Processes go on, never back.
Advances(S, R, S2, R2) ==
  \A a \in Proc :
    \/ S2[a] > S[a]
    \/ /\ S2[a] = S[a]
       /\ R2[a].round >= R[a].round /\ Ar(R2, a) >= Ar(R, a)
       /\ R[a].max_rv # NoRV => R2[a].max_rv # NoRV
       /\ R2[a].round = R[a].round => R[a].prepared_set \subseteq R2[a].prepared_set

\* Only a itself, in round b, adds a vote of a in that round.
NewVotes(S, R, A, S2, R2, A2) ==
  \A a \in Proc, n \in Nat, b \in Proc :
    Vote(S2, R2, A2, a, n, b) =>
      \/ Vote(S, R, A, a, n, b)
      \/ /\ a \in AliveReplicas /\ S[a] = n /\ R[a].round = b
         /\ Voted(S2, R2, a, n, b)

\* Only a itself, in round b, adds a promise of it, and hides no vote.
NewVows(S, R, A, S2, R2, A2) ==
  \A a \in Proc, n \in Nat, b, k \in OptProc :
    Vow(S2, R2, A2, a, n, b, k) =>
      \/ \E j \in OptProc : j <= k /\ Vow(S, R, A, a, n, b, j)
      \/ /\ a \in AliveReplicas /\ S[a] = n /\ R[a].round = b /\ Ar(R, a) <= k
         /\ Promised(S2, R2, a, n, b)

\* All of it.
Frame(S, R, A, S2, R2, A2) ==
  /\ Advances(S, R, S2, R2)
  /\ NewVotes(S, R, A, S2, R2, A2)
  /\ NewVows(S, R, A, S2, R2, A2)

\* Rounds are integers.
LEMMA RoundIntegers ==
  ASSUME NEW S, NEW R, NEW A, TypesOK(S, R, A)
  PROVE  \A a \in Proc :
           /\ S[a] \in Nat /\ S[a] \in Int
           /\ R[a] \in Rounds
           /\ R[a].round \in OptProc /\ R[a].round \in Int
           /\ Ar(R, a) \in OptProc /\ Ar(R, a) \in Int
           /\ R[a].max_rv \in Rvs \cup {NoRV}
           /\ R[a].prepared_set \subseteq Proc /\ R[a].accepted_set \subseteq Proc
<1> TAKE a \in Proc
<1>1. S[a] \in Nat /\ R[a] \in Rounds
  BY DEF TypesOK
<1>2. /\ R[a].round \in OptProc /\ R[a].max_rv \in Rvs \cup {NoRV}
      /\ R[a].prepared_set \subseteq Proc /\ R[a].accepted_set \subseteq Proc
  BY <1>1 DEF Rounds, PaxosRoundStates
<1>3. Ar(R, a) \in OptProc
  BY <1>2, RvsAreValues DEF Ar, NoRV, OptProc
<1>4. R[a].round \in Int /\ Ar(R, a) \in Int
  BY <1>2, <1>3, ProcIsNat
<1> QED BY <1>1, <1>2, <1>3, <1>4

\* What was voted, left or promised stays so.
LEMMA Stable ==
  ASSUME NEW S, NEW R, NEW A, TypesOK(S, R, A),
         NEW S2, NEW R2, NEW A2, TypesOK(S2, R2, A2),
         Advances(S, R, S2, R2)
  PROVE  \A a \in Proc, n \in Nat, b \in OptProc :
           /\ Voted(S, R, a, n, b) => Voted(S2, R2, a, n, b)
           /\ Left(S, R, a, n, b) => Left(S2, R2, a, n, b)
           /\ Promised(S, R, a, n, b) => Promised(S2, R2, a, n, b)
<1> TAKE a \in Proc, n \in Nat, b \in OptProc
<1>1. /\ S[a] \in Int /\ R[a].round \in Int /\ Ar(R, a) \in Int
      /\ S2[a] \in Int /\ R2[a].round \in Int /\ Ar(R2, a) \in Int
      /\ b \in Int
  BY RoundIntegers, ProcIsNat
<1>2. \/ S2[a] > S[a]
      \/ /\ S2[a] = S[a]
         /\ R2[a].round >= R[a].round /\ Ar(R2, a) >= Ar(R, a)
         /\ R[a].max_rv # NoRV => R2[a].max_rv # NoRV
  BY DEF Advances
<1>3. CASE S2[a] > S[a]
  BY <1>1, <1>3 DEF Voted, Left, Promised
<1>4. CASE /\ S2[a] = S[a]
           /\ R2[a].round >= R[a].round /\ Ar(R2, a) >= Ar(R, a)
           /\ R[a].max_rv # NoRV => R2[a].max_rv # NoRV
  BY <1>1, <1>4 DEF Voted, Left, Promised
<1> QED BY <1>2, <1>3, <1>4

\* So does what was not voted.
LEMMA NoVoteStable ==
  ASSUME NEW S, NEW R, NEW A, TypesOK(S, R, A),
         NEW S2, NEW R2, NEW A2, TypesOK(S2, R2, A2),
         Frame(S, R, A, S2, R2, A2)
  PROVE  \A a \in Proc, n \in Nat, b \in Proc :
           NoVote(S, R, A, a, n, b) => NoVote(S2, R2, A2, a, n, b)
<1> SUFFICES ASSUME NEW a \in Proc, NEW n \in Nat, NEW b \in Proc, NoVote(S, R, A, a, n, b)
             PROVE  NoVote(S2, R2, A2, a, n, b)
  OBVIOUS
<1>1. b \in OptProc /\ b \in Int /\ R[a].round \in Int /\ S[a] \in Int
  BY RoundIntegers, ProcIsNat DEF OptProc
<1>2. ~Vote(S2, R2, A2, a, n, b)
  <2> SUFFICES ASSUME Vote(S2, R2, A2, a, n, b) PROVE FALSE
    OBVIOUS
  <2>1. S[a] = n /\ R[a].round = b
    BY DEF Frame, NewVotes, NoVote
  <2> QED BY <1>1, <2>1 DEF NoVote, Left
<1>3. Left(S2, R2, a, n, b)
  BY <1>1, Stable DEF Frame, NoVote
<1> QED BY <1>2, <1>3 DEF NoVote

\* And what is locked.
LEMMA LockStable ==
  ASSUME NEW S, NEW R, NEW A, TypesOK(S, R, A),
         NEW S2, NEW R2, NEW A2, TypesOK(S2, R2, A2),
         Frame(S, R, A, S2, R2, A2)
  PROVE  \A a \in Proc, n \in Nat, b \in Proc :
           Lock(S, R, A, a, n, b) => Lock(S2, R2, A2, a, n, b)
<1> SUFFICES ASSUME NEW a \in Proc, NEW n \in Nat, NEW b \in Proc, Lock(S, R, A, a, n, b)
             PROVE  Lock(S2, R2, A2, a, n, b)
  OBVIOUS
<1>1. b \in OptProc /\ b \in Int /\ Ar(R, a) \in Int /\ S[a] \in Int
  BY RoundIntegers, ProcIsNat DEF OptProc
<1>2. Voted(S2, R2, a, n, b)
  BY <1>1, Stable DEF Frame, Lock
<1>3. ASSUME NEW e \in OptProc, NEW k \in OptProc, Vow(S2, R2, A2, a, n, e, k), e > b
      PROVE  k >= b
  <2>1. k \in Int
    BY ProcIsNat
  <2>2. CASE \E j \in OptProc : j <= k /\ Vow(S, R, A, a, n, e, j)
    <3>1. PICK j \in OptProc : j <= k /\ Vow(S, R, A, a, n, e, j)
      BY <2>2
    <3>2. j >= b /\ j \in Int
      BY <1>3, <3>1, ProcIsNat DEF Lock
    <3> QED BY <1>1, <2>1, <3>1, <3>2
  <2>3. CASE S[a] = n /\ Ar(R, a) <= k
    <3>1. Ar(R, a) >= b
      BY <1>1, <2>3 DEF Lock, Voted
    <3> QED BY <1>1, <2>1, <2>3, <3>1
  <2> QED BY <1>3, <2>2, <2>3 DEF Frame, NewVows
<1> QED BY <1>2, <1>3 DEF Lock

\* Votes and vows are kept.
LEMMA VotesKeptFrame ==
  ASSUME NEW S, NEW R, NEW A, TypesOK(S, R, A),
         NEW S2, NEW R2, NEW A2, TypesOK(S2, R2, A2),
         Frame(S, R, A, S2, R2, A2), VotesKept(S, R, A)
  PROVE  VotesKept(S2, R2, A2)
<1> SUFFICES ASSUME NEW a \in Proc, NEW n \in Nat, NEW b \in Proc, Vote(S2, R2, A2, a, n, b)
             PROVE  a \in AliveReplicas /\ Voted(S2, R2, a, n, b)
  BY DEF VotesKept
<1>1. b \in OptProc
  BY DEF OptProc
<1>2. CASE Vote(S, R, A, a, n, b)
  BY <1>1, <1>2, Stable DEF VotesKept, Frame
<1>3. CASE a \in AliveReplicas /\ Voted(S2, R2, a, n, b)
  BY <1>3
<1> QED BY <1>2, <1>3 DEF Frame, NewVotes

\* So are vows.
LEMMA VowsKeptFrame ==
  ASSUME NEW S, NEW R, NEW A, TypesOK(S, R, A),
         NEW S2, NEW R2, NEW A2, TypesOK(S2, R2, A2),
         Frame(S, R, A, S2, R2, A2), VotesKept(S, R, A), VowsKept(S, R, A)
  PROVE  VowsKept(S2, R2, A2)
<1> SUFFICES ASSUME NEW a \in Proc, NEW n \in Nat, NEW b \in OptProc, NEW k \in OptProc,
                    Vow(S2, R2, A2, a, n, b, k)
             PROVE  /\ a \in AliveReplicas /\ Promised(S2, R2, a, n, b)
                    /\ \A e \in Proc : k < e /\ e < b => NoVote(S2, R2, A2, a, n, e)
  BY DEF VowsKept
<1>1. k \in Int /\ b \in Int /\ Ar(R, a) \in Int /\ S[a] \in Int /\ R[a].round \in Int
  BY RoundIntegers, ProcIsNat
<1>2. \A e \in Proc : e \in Int
  BY ProcIsNat
<1>3. CASE \E j \in OptProc : j <= k /\ Vow(S, R, A, a, n, b, j)
  <2>1. PICK j \in OptProc : j <= k /\ Vow(S, R, A, a, n, b, j)
    BY <1>3
  <2>2. /\ a \in AliveReplicas /\ Promised(S, R, a, n, b)
        /\ \A e \in Proc : j < e /\ e < b => NoVote(S, R, A, a, n, e)
    BY <2>1 DEF VowsKept
  <2>3. Promised(S2, R2, a, n, b)
    BY <2>2, Stable DEF Frame
  <2>4. ASSUME NEW e \in Proc, k < e, e < b
        PROVE  NoVote(S2, R2, A2, a, n, e)
    <3>1. j < e
      <4>1. j \in Int
        BY <2>1, ProcIsNat
      <4> QED BY <1>1, <1>2, <2>1, <2>4, <4>1
    <3> QED BY <2>2, <2>4, <3>1, NoVoteStable
  <2> QED BY <2>2, <2>3, <2>4
<1>4. CASE /\ a \in AliveReplicas /\ S[a] = n /\ R[a].round = b /\ Ar(R, a) <= k
           /\ Promised(S2, R2, a, n, b)
  <2>1. ASSUME NEW e \in Proc, k < e, e < b
        PROVE  NoVote(S2, R2, A2, a, n, e)
    <3>1. ~Voted(S, R, a, n, e)
      BY <1>1, <1>2, <1>4, <2>1 DEF Voted
    <3>2. Left(S, R, a, n, e)
      BY <1>1, <1>2, <1>4, <2>1 DEF Left
    <3>3. NoVote(S, R, A, a, n, e)
      BY <3>1, <3>2 DEF NoVote, VotesKept
    <3> QED BY <3>3, NoVoteStable
  <2> QED BY <1>4, <2>1
<1> QED BY <1>3, <1>4 DEF Frame, NewVows

-----------------------------------------------------------------------------
(* Majorities *)

\* There are finitely many processes, hence replicas.
LEMMA Finite ==
  /\ IsFiniteSet(Proc) /\ IsFiniteSet(AliveReplicas)
  /\ Cardinality(AliveReplicas) \in Nat /\ NbReplicas \in Nat
  /\ Cardinality(AliveReplicas) <= NbReplicas
  /\ Majority \in Nat /\ Majority + Majority > NbReplicas
<1>1. IsFiniteSet(Proc)
  BY TopologyAssumption, FS_Interval
<1>2. IsFiniteSet(AliveReplicas) /\ Cardinality(AliveReplicas) \in Nat
  BY <1>1, ReplicasAreProcs, FS_Subset, FS_CardinalityType
<1>3. Majority \in Nat /\ Majority + Majority > NbReplicas
  BY TopologyAssumption DEF Majority
<1> QED BY <1>1, <1>2, <1>3, TopologyAssumption

\* More processes, more of them.
LEMMA CountGrows ==
  ASSUME NEW P, NEW Q, Q \subseteq Proc, P \subseteq Q
  PROVE  /\ IsFiniteSet(P) /\ IsFiniteSet(Q)
         /\ Cardinality(P) \in Nat /\ Cardinality(Q) \in Nat
         /\ Cardinality(P) <= Cardinality(Q)
<1>1. IsFiniteSet(Q)
  BY Finite, FS_Subset
<1> QED BY <1>1, FS_Subset, FS_CardinalityType

\* Two sets of replicas too large to be apart have a replica in common.
LEMMA TooManyToPart ==
  ASSUME NEW P, NEW Q, P \subseteq AliveReplicas, Q \subseteq AliveReplicas,
         Cardinality(P) + Cardinality(Q) > NbReplicas
  PROVE  \E a \in AliveReplicas : a \in P /\ a \in Q
<1>1. IsFiniteSet(P) /\ IsFiniteSet(Q)
  BY Finite, FS_Subset
<1>2. P \cup Q \subseteq AliveReplicas /\ P \cup Q \subseteq Proc
  BY ReplicasAreProcs
<1>3. Cardinality(P \cup Q) <= NbReplicas /\ Cardinality(P \cup Q) \in Nat
  <2>1. Cardinality(P \cup Q) <= Cardinality(AliveReplicas) /\ Cardinality(P \cup Q) \in Nat
    BY <1>2, ReplicasAreProcs, CountGrows
  <2> QED BY <2>1, Finite
<1>4. Cardinality(P \cup Q) = Cardinality(P) + Cardinality(Q) - Cardinality(P \cap Q)
  BY ONLY <1>1, FS_Union
<1>5. Cardinality(P) \in Nat /\ Cardinality(Q) \in Nat
  BY <1>1, FS_CardinalityType
<1>6. P \cap Q # {}
  <2> SUFFICES ASSUME P \cap Q = {} PROVE FALSE
    OBVIOUS
  <2>1. Cardinality(P \cap Q) = 0
    BY FS_EmptySet
  <2> QED BY <1>3, <1>4, <1>5, <2>1, Finite
<1> QED BY <1>6

\* Two majorities have a replica in common.
LEMMA MajoritiesMeet ==
  ASSUME NEW P, NEW Q, P \subseteq AliveReplicas, Q \subseteq AliveReplicas,
         Cardinality(P) >= Majority, Cardinality(Q) >= Majority
  PROVE  \E a \in AliveReplicas : a \in P /\ a \in Q
<1>1. Cardinality(P) \in Nat /\ Cardinality(Q) \in Nat
  BY ReplicasAreProcs, CountGrows
<1> QED BY <1>1, Finite, TooManyToPart

\* Rounds have a coordinator; alone that of Pando's rounds may be another than
\* the leader.
LEMMA CoordinatorType ==
  \A b \in Proc : Coordinator(b) \in Proc /\ (Mode # "Pando" => Coordinator(b) = b)
BY PaxosFamilyAssumption, ReplicasAreProcs DEF Coordinator

-----------------------------------------------------------------------------
(* The rest of the invariant *)

\* Coordinators do not go back.
LEMMA LedByStable ==
  ASSUME NEW S, NEW R, NEW A, TypesOK(S, R, A),
         NEW S2, NEW R2, NEW A2, TypesOK(S2, R2, A2), Frame(S, R, A, S2, R2, A2),
         NEW acc2, RoundsOK(S2, R2, acc2),
         NEW c \in Proc, NEW n \in Nat, NEW b \in Proc, LedBy(S, R, c, n, b)
  PROVE  LedBy(S2, R2, c, n, b)
<1>1. b \in Int /\ n \in Int
  BY ProcIsNat
<1>2. /\ S[c] \in Int /\ R[c].round \in Int /\ Ar(R, c) \in Int
      /\ R[c].prepared_set \subseteq Proc
  BY RoundIntegers
<1>3. /\ S2[c] \in Int /\ R2[c].round \in Int /\ Ar(R2, c) \in Int
      /\ R2[c].prepared_set \subseteq Proc
  BY RoundIntegers
<1>4. /\ \/ S2[c] > S[c]
         \/ /\ S2[c] = S[c]
            /\ R2[c].round >= R[c].round /\ Ar(R2, c) >= Ar(R, c)
            /\ R2[c].round = R[c].round => R[c].prepared_set \subseteq R2[c].prepared_set
      /\ Ar(R2, c) <= R2[c].round
  BY DEF Frame, Advances, RoundsOK
<1>5. R[c].prepared_set \subseteq R2[c].prepared_set /\ IsPrepared(R[c]) => IsPrepared(R2[c])
  <2>1. R[c].prepared_set \subseteq R2[c].prepared_set =>
          /\ Cardinality(R[c].prepared_set) \in Nat /\ Cardinality(R2[c].prepared_set) \in Nat
          /\ Cardinality(R[c].prepared_set) <= Cardinality(R2[c].prepared_set)
    BY <1>3, CountGrows
  <2> QED BY <2>1, Finite DEF IsPrepared
<1> QED BY <1>1, <1>2, <1>3, <1>4, <1>5 DEF LedBy

\* Neither does what they asked for.
LEMMA LedFrame ==
  ASSUME NEW S, NEW R, NEW A, TypesOK(S, R, A),
         NEW S2, NEW R2, NEW A2, TypesOK(S2, R2, A2), Frame(S, R, A, S2, R2, A2),
         NEW acc, acc \subseteq [slot : Nat, round : Proc, v : Uid],
         NEW acc2, RoundsOK(S2, R2, acc2), Led(S, R, acc)
  PROVE  Led(S2, R2, acc)
<1>1. ASSUME NEW x \in acc
      PROVE  x.round \in Proc /\ x.slot \in Nat /\ Coordinator(x.round) \in Proc
  BY CoordinatorType
<1> QED BY <1>1, LedByStable DEF Led

\* A majority that did not vote is still one.
LEMMA SafeAtStable ==
  ASSUME NEW S, NEW R, NEW A, TypesOK(S, R, A),
         NEW S2, NEW R2, NEW A2, TypesOK(S2, R2, A2), Frame(S, R, A, S2, R2, A2),
         NEW acc, NEW acc2, acc \subseteq acc2,
         NEW n \in Nat, NEW b \in Proc, NEW v, SafeAt(S, R, A, acc, n, b, v)
  PROVE  SafeAt(S2, R2, A2, acc2, n, b, v)
<1> DEFINE P == {a \in AliveReplicas : NoVote(S, R, A, a, n, b)}
           Q == {a \in AliveReplicas : NoVote(S2, R2, A2, a, n, b)}
<1>1. Asked(acc, n, b, v) \/ Cardinality(P) >= Majority
  BY DEF SafeAt
<1>2. P \subseteq Q /\ Q \subseteq Proc
  BY NoVoteStable, ReplicasAreProcs
<1> HIDE DEF P, Q
<1>3. Cardinality(P) >= Majority => Cardinality(Q) >= Majority
  BY <1>2, CountGrows, Finite
<1>4. Asked(acc, n, b, v) => Asked(acc2, n, b, v)
  BY DEF Asked
<1> QED BY <1>1, <1>3, <1>4 DEF SafeAt, Q

\* And so is every round below one whose leader asked for votes.
LEMMA SafeFrame ==
  ASSUME NEW S, NEW R, NEW A, TypesOK(S, R, A),
         NEW S2, NEW R2, NEW A2, TypesOK(S2, R2, A2), Frame(S, R, A, S2, R2, A2),
         NEW acc, acc \subseteq [slot : Nat, round : Proc, v : Uid],
         Safe(S, R, A, acc)
  PROVE  Safe(S2, R2, A2, acc)
BY SafeAtStable DEF Safe

\* A decision keeps its majority.
LEMMA LockedFrame ==
  ASSUME NEW S, NEW R, NEW A, TypesOK(S, R, A),
         NEW S2, NEW R2, NEW A2, TypesOK(S2, R2, A2), Frame(S, R, A, S2, R2, A2),
         NEW acc, NEW dec, HistoryOK(acc, dec), NEW acc2, acc \subseteq acc2,
         Locked(S, R, A, acc, dec)
  PROVE  Locked(S2, R2, A2, acc2, dec)
<1> SUFFICES ASSUME NEW d \in dec, ~d.fast
             PROVE  /\ Asked(acc2, d.slot, d.round, d.v)
                    /\ Cardinality({a \in AliveReplicas :
                                      Lock(S2, R2, A2, a, d.slot, d.round)}) >= Majority
  BY DEF Locked
<1> DEFINE P == {a \in AliveReplicas : Lock(S, R, A, a, d.slot, d.round)}
           Q == {a \in AliveReplicas : Lock(S2, R2, A2, a, d.slot, d.round)}
<1>1. Cardinality(P) >= Majority /\ Asked(acc2, d.slot, d.round, d.v)
  BY DEF Locked, Asked
<1>2. d.slot \in Nat /\ d.round \in Proc
  BY DEF HistoryOK
<1>3. P \subseteq Q /\ Q \subseteq Proc
  BY <1>2, LockStable, ReplicasAreProcs
<1> HIDE DEF P, Q
<1>4. Cardinality(Q) >= Majority
  BY <1>1, <1>3, CountGrows, Finite
<1> QED BY <1>1, <1>4 DEF Q

\* A step that asks for nothing and decides nothing keeps the invariant if it
\* keeps the rounds and the messages as they should be.
LEMMA BaseFrame ==
  ASSUME NEW S, NEW R, NEW A, NEW acc, NEW dec, Base(S, R, A, acc, dec),
         NEW S2, NEW R2, NEW A2, TypesOK(S2, R2, A2), Frame(S, R, A, S2, R2, A2),
         RoundsOK(S2, R2, acc), MessagesOK(A2, acc, dec)
  PROVE  Base(S2, R2, A2, acc, dec)
<1>1. /\ TypesOK(S, R, A) /\ HistoryOK(acc, dec)
      /\ VotesKept(S, R, A) /\ VowsKept(S, R, A)
      /\ Led(S, R, acc) /\ OneValue(acc)
      /\ Safe(S, R, A, acc)
      /\ Locked(S, R, A, acc, dec) /\ SlowKept(acc, dec)
  BY DEF Base
<1>2. acc \subseteq [slot : Nat, round : Proc, v : Uid] /\ acc \subseteq acc
  BY <1>1 DEF HistoryOK
<1>3. VotesKept(S2, R2, A2) /\ VowsKept(S2, R2, A2)
  BY <1>1, VotesKeptFrame, VowsKeptFrame
<1>4. Led(S2, R2, acc) /\ Safe(S2, R2, A2, acc) /\ Locked(S2, R2, A2, acc, dec)
  BY <1>1, <1>2, LedFrame, SafeFrame, LockedFrame
<1> QED BY <1>1, <1>3, <1>4 DEF Base

-----------------------------------------------------------------------------
(* Small steps: the round state of one process *)

\* p's round state goes on within its slot.  Whom it counts has voted, or
\* promised; it may count itself, in the round it is in.
LEMMA RoundFrame ==
  ASSUME NEW S, NEW R, NEW A, TypesOK(S, R, A), NEW p \in Proc, NEW r \in Rounds,
         LET o == R[p]
         IN  /\ r.round >= o.round
             /\ r.max_rv.accept_round >= o.max_rv.accept_round
             /\ o.max_rv # NoRV => r.max_rv # NoRV
             /\ r.round = o.round => o.prepared_set \subseteq r.prepared_set
             /\ \A a \in r.accepted_set :
                  \/ a \in o.accepted_set /\ r.round = o.round
                  \/ Vote(S, R, A, a, S[p], r.round)
                  \/ /\ a = p /\ p \in AliveReplicas /\ r.round = o.round
                     /\ r.max_rv.accept_round >= r.round
             /\ \A a \in r.prepared_set :
                  \/ a \in o.prepared_set /\ r.round = o.round
                  \/ \E j \in OptProc :
                       j <= r.max_rv.accept_round /\ Vow(S, R, A, a, S[p], r.round, j)
                  \/ /\ a = p /\ p \in AliveReplicas /\ r.round = o.round
                     /\ r.max_rv # NoRV
  PROVE  LET R2 == [R EXCEPT ![p] = r]
         IN  TypesOK(S, R2, A) /\ Frame(S, R, A, S, R2, A)
<1> DEFINE R2 == [R EXCEPT ![p] = r]
<1>1. R2 \in [Proc -> Rounds] /\ R2[p] = r /\ \A c \in Proc : c # p => R2[c] = R[c]
  BY DEF TypesOK
<1>2. TypesOK(S, R2, A)
  BY <1>1 DEF TypesOK
<1> HIDE DEF R2
<1>3. \A a \in Proc : S[a] \in Int /\ R[a].round \in Int /\ Ar(R, a) \in Int
  BY RoundIntegers
<1>4. Ar(R, p) = R[p].max_rv.accept_round /\ Ar(R2, p) = r.max_rv.accept_round
  BY <1>1 DEF Ar
<1>5. \A c \in Proc : c # p => Ar(R2, c) = Ar(R, c)
  BY <1>1 DEF Ar
<1>6. Advances(S, R, S, R2)
  <2> SUFFICES ASSUME NEW a \in Proc
               PROVE  /\ R2[a].round >= R[a].round /\ Ar(R2, a) >= Ar(R, a)
                      /\ R[a].max_rv # NoRV => R2[a].max_rv # NoRV
                      /\ R2[a].round = R[a].round => R[a].prepared_set \subseteq R2[a].prepared_set
    BY DEF Advances
  <2>1. CASE a = p
    BY <1>1, <1>4, <2>1
  <2>2. CASE a # p
    BY <1>1, <1>3, <1>5, <2>2
  <2> QED BY <2>1, <2>2
<1>7. NewVotes(S, R, A, S, R2, A)
  <2> SUFFICES ASSUME NEW a \in Proc, NEW n \in Nat, NEW b \in Proc, Vote(S, R2, A, a, n, b)
               PROVE  \/ Vote(S, R, A, a, n, b)
                      \/ /\ a \in AliveReplicas /\ S[a] = n /\ R[a].round = b
                         /\ Voted(S, R2, a, n, b)
    BY DEF NewVotes
  <2>1. CASE \E m \in A : m.type = "Accept" /\ m.src = a /\ m.slot = n /\ m.round = b
    BY <2>1 DEF Vote
  <2>2. CASE \E c \in Proc : S[c] = n /\ R2[c].round = b /\ a \in R2[c].accepted_set
    <3>1. PICK c \in Proc : S[c] = n /\ R2[c].round = b /\ a \in R2[c].accepted_set
      BY <2>2
    <3>2. CASE c # p
      BY <1>1, <3>1, <3>2 DEF Vote
    <3>3. CASE c = p
      <4>1. S[p] = n /\ r.round = b /\ a \in r.accepted_set
        BY <1>1, <3>1, <3>3
      <4>2. \/ a \in R[p].accepted_set /\ r.round = R[p].round
            \/ Vote(S, R, A, a, n, b)
            \/ /\ a = p /\ p \in AliveReplicas /\ r.round = R[p].round
               /\ r.max_rv.accept_round >= r.round
        BY <4>1
      <4>3. CASE a \in R[p].accepted_set /\ r.round = R[p].round
        BY <4>1, <4>3 DEF Vote
      <4>4. CASE /\ a = p /\ p \in AliveReplicas /\ r.round = R[p].round
                 /\ r.max_rv.accept_round >= r.round
        BY <1>4, <4>1, <4>4 DEF Voted
      <4> QED BY <4>2, <4>3, <4>4
    <3> QED BY <3>2, <3>3
  <2> QED BY <2>1, <2>2 DEF Vote
<1>8. NewVows(S, R, A, S, R2, A)
  <2> SUFFICES ASSUME NEW a \in Proc, NEW n \in Nat, NEW b \in OptProc, NEW k \in OptProc,
                      Vow(S, R2, A, a, n, b, k)
               PROVE  \/ \E j \in OptProc : j <= k /\ Vow(S, R, A, a, n, b, j)
                      \/ /\ a \in AliveReplicas /\ S[a] = n /\ R[a].round = b /\ Ar(R, a) <= k
                         /\ Promised(S, R2, a, n, b)
    BY DEF NewVows
  <2>1. k \in Int /\ b \in Int /\ k <= k
    BY ProcIsNat
  <2>2. CASE \E m \in A : /\ m.type = "Prepare" /\ m.src = a /\ m.slot = n /\ m.round = b
                          /\ m.rv.accept_round = k
    BY <2>1, <2>2 DEF Vow
  <2>3. CASE \E c \in Proc : /\ S[c] = n /\ R2[c].round = b /\ Ar(R2, c) = k
                             /\ a \in R2[c].prepared_set
    <3>1. PICK c \in Proc : /\ S[c] = n /\ R2[c].round = b /\ Ar(R2, c) = k
                            /\ a \in R2[c].prepared_set
      BY <2>3
    <3>2. CASE c # p
      BY <1>1, <1>5, <2>1, <3>1, <3>2 DEF Vow
    <3>3. CASE c = p
      <4>1. S[p] = n /\ r.round = b /\ r.max_rv.accept_round = k /\ a \in r.prepared_set
        BY <1>1, <1>4, <3>1, <3>3
      <4>2. \/ a \in R[p].prepared_set /\ r.round = R[p].round
            \/ \E j \in OptProc : j <= k /\ Vow(S, R, A, a, n, b, j)
            \/ /\ a = p /\ p \in AliveReplicas /\ r.round = R[p].round
               /\ r.max_rv # NoRV
        BY <4>1
      <4>3. CASE a \in R[p].prepared_set /\ r.round = R[p].round
        <5>1. Vow(S, R, A, a, n, b, Ar(R, p))
          BY <4>1, <4>3 DEF Vow
        <5>2. Ar(R, p) \in OptProc /\ Ar(R, p) <= k
          BY <1>4, <4>1, RoundIntegers
        <5> QED BY <5>1, <5>2
      <4>4. CASE /\ a = p /\ p \in AliveReplicas /\ r.round = R[p].round
                 /\ r.max_rv # NoRV
        <5>1. Ar(R, p) <= k
          BY <1>4, <4>1, RoundIntegers
        <5>2. Promised(S, R2, a, n, b)
          BY <1>1, <2>1, <4>1, <4>4 DEF Promised
        <5> QED BY <4>1, <4>4, <5>1, <5>2
      <4> QED BY <4>2, <4>3, <4>4
    <3> QED BY <3>2, <3>3
  <2> QED BY <2>2, <2>3 DEF Vow
<1> QED BY <1>2, <1>6, <1>7, <1>8 DEF Frame, R2

\* The rounds are as they should be if p's is.
LEMMA RoundsFrame ==
  ASSUME NEW S, NEW R, NEW A, TypesOK(S, R, A), NEW acc, NEW acc2, acc \subseteq acc2,
         RoundsOK(S, R, acc), NEW p \in Proc, NEW r \in Rounds,
         r.max_rv.accept_round <= r.round, StartingRound <= r.round,
         r.max_rv.accept_round # None =>
           Asked(acc2, S[p], r.max_rv.accept_round, r.max_rv.v)
  PROVE  RoundsOK(S, [R EXCEPT ![p] = r], acc2)
<1> DEFINE R2 == [R EXCEPT ![p] = r]
<1>1. R2[p] = r /\ \A c \in Proc : c # p => R2[c] = R[c]
  BY DEF TypesOK
<1> HIDE DEF R2
<1>2. RoundsOK(S, R2, acc2)
  <2> SUFFICES ASSUME NEW c \in Proc
               PROVE  /\ Ar(R2, c) <= R2[c].round /\ StartingRound <= R2[c].round
                      /\ Ar(R2, c) # None => Asked(acc2, S[c], Ar(R2, c), R2[c].max_rv.v)
    BY DEF RoundsOK
  <2>1. CASE c = p
    BY <1>1, <2>1 DEF Ar
  <2>2. CASE c # p
    BY <1>1, <2>2 DEF Ar, RoundsOK, Asked
  <2> QED BY <2>1, <2>2
<1> QED BY <1>2 DEF R2

\* p goes to a higher round.
LEMMA GotoKeeps ==
  ASSUME NEW S, NEW R, NEW A, NEW acc, NEW dec, Base(S, R, A, acc, dec),
         NEW p \in Proc, NEW b \in Proc, b > R[p].round
  PROVE  LET R2 == [R EXCEPT ![p] = GotoRound(R[p], b)]
         IN  Base(S, R2, A, acc, dec) /\ Frame(S, R, A, S, R2, A)
<1> DEFINE r == GotoRound(R[p], b)
           R2 == [R EXCEPT ![p] = r]
<1>1. /\ TypesOK(S, R, A) /\ RoundsOK(S, R, acc) /\ MessagesOK(A, acc, dec) /\ acc \subseteq acc
  BY DEF Base
<1>2. R[p] \in Rounds /\ R[p].round \in Int /\ Ar(R, p) \in Int /\ b \in Int /\ b \in OptProc
      /\ StartingRound \in Int
  BY <1>1, RoundIntegers, ProcIsNat, StartingRoundType DEF OptProc
<1>3. /\ r \in Rounds /\ r.round = b /\ r.max_rv = R[p].max_rv /\ r.prepared_set = {}
      /\ r.accepted_set = {}
  BY <1>2, GotoRoundType
<1> HIDE DEF r
<1>4. Ar(R, p) <= R[p].round /\ StartingRound <= R[p].round
      /\ (Ar(R, p) # None => Asked(acc, S[p], Ar(R, p), R[p].max_rv.v))
  BY <1>1 DEF RoundsOK
<1>5. TypesOK(S, R2, A) /\ Frame(S, R, A, S, R2, A)
  BY <1>1, <1>2, <1>3, RoundFrame DEF Ar
<1>6. RoundsOK(S, R2, acc)
  BY <1>1, <1>2, <1>3, <1>4, RoundsFrame DEF Ar
<1> HIDE DEF R2
<1>7. Base(S, R2, A, acc, dec) /\ Frame(S, R, A, S, R2, A)
  BY <1>1, <1>5, <1>6, BaseFrame
<1> QED BY <1>7 DEF R2, r

\* p takes its first value in a slot, and promises its round.
LEMMA PromptKeeps ==
  ASSUME NEW S, NEW R, NEW A, NEW acc, NEW dec, Base(S, R, A, acc, dec),
         NEW p \in AliveReplicas, R[p].max_rv = NoRV, NEW rv \in Rvs,
         rv.accept_round <= R[p].round,
         rv.accept_round # None => Asked(acc, S[p], rv.accept_round, rv.v)
  PROVE  LET R2 == [R EXCEPT ![p] = PaxosProposeV(R[p], p, rv)]
         IN  Base(S, R2, A, acc, dec) /\ Frame(S, R, A, S, R2, A)
<1> DEFINE o == R[p]
           r == ReceivePromise(o, p, p, rv)
           R2 == [R EXCEPT ![p] = r]
<1>1. /\ TypesOK(S, R, A) /\ RoundsOK(S, R, acc) /\ MessagesOK(A, acc, dec) /\ acc \subseteq acc
  BY DEF Base
<1>2. p \in Proc /\ o \in Rounds /\ o.round \in Int /\ Ar(R, p) \in Int /\ rv.accept_round \in Int
      /\ rv.accept_round \in OptProc /\ StartingRound \in Int
  <2>1. p \in Proc /\ rv.accept_round \in OptProc
    BY ReplicasAreProcs, RvsAreValues
  <2> QED BY <1>1, <2>1, RoundIntegers, ProcIsNat, StartingRoundType
<1>3. StartingRound <= o.round
  BY <1>1, <1>2 DEF RoundsOK
<1>4. o.max_rv = NoRV /\ o.max_rv.accept_round <= rv.accept_round /\ o.round >= o.round
  BY <1>2, ProcIsNat DEF NoRV
<1> HIDE DEF o
<1>5. /\ r \in Rounds /\ r.round = o.round /\ r.max_rv = rv /\ r.max_rv # NoRV
      /\ r.prepared_set = Counting(o.prepared_set, p, p)
      /\ r.accepted_set = o.accepted_set
  BY <1>2, <1>4, ReceivePromiseType
<1> HIDE DEF r
<1>6. /\ o.prepared_set \subseteq r.prepared_set
      /\ \A a \in r.prepared_set : a \in o.prepared_set \/ a = p
  BY <1>5 DEF Counting
<1>7. TypesOK(S, R2, A) /\ Frame(S, R, A, S, R2, A)
  BY <1>1, <1>2, <1>4, <1>5, <1>6, RoundFrame DEF o
<1>8. RoundsOK(S, R2, acc)
  BY <1>1, <1>2, <1>3, <1>5, RoundsFrame DEF o
<1> HIDE DEF R2
<1>9. Base(S, R2, A, acc, dec) /\ Frame(S, R, A, S, R2, A)
  BY <1>1, <1>7, <1>8, BaseFrame
<1> QED BY <1>9 DEF R2, r, o, PaxosProposeV

\* p counts a promise of its round.
LEMMA PromiseKeeps ==
  ASSUME NEW S, NEW R, NEW A, NEW acc, NEW dec, Base(S, R, A, acc, dec),
         NEW p \in AliveReplicas, R[p].max_rv # NoRV, NEW m \in A, m.type = "Prepare",
         m.slot = S[p], m.round = R[p].round
  PROVE  LET R2 == [R EXCEPT ![p] = ReceivePromise(R[p], p, m.src, m.rv)]
         IN  Base(S, R2, A, acc, dec) /\ Frame(S, R, A, S, R2, A)
<1> DEFINE o == R[p]
           rv == m.rv
           src == m.src
           r == ReceivePromise(o, p, src, rv)
           R2 == [R EXCEPT ![p] = r]
<1>1. /\ TypesOK(S, R, A) /\ RoundsOK(S, R, acc) /\ MessagesOK(A, acc, dec) /\ acc \subseteq acc
  BY DEF Base
<1>2. src \in Proc /\ rv \in Rvs
  BY <1>1, MessageKinds DEF TypesOK, PrepareMsg
<1>3. /\ rv.accept_round < o.round
      /\ rv.accept_round # None => Asked(acc, S[p], rv.accept_round, rv.v)
      /\ Vow(S, R, A, src, S[p], o.round, rv.accept_round)
  BY <1>1 DEF MessagesOK, PreparesOK, Vow
<1> HIDE DEF rv, src
<1>4. p \in Proc /\ o \in Rounds /\ o.round \in Int /\ Ar(R, p) \in Int /\ rv.accept_round \in Int
      /\ rv.accept_round \in OptProc /\ StartingRound \in Int
  <2>1. p \in Proc /\ rv.accept_round \in OptProc
    BY <1>2, ReplicasAreProcs, RvsAreValues
  <2> QED BY <1>1, <2>1, RoundIntegers, ProcIsNat, StartingRoundType
<1>5. /\ Ar(R, p) <= o.round /\ StartingRound <= o.round
      /\ Ar(R, p) # None => Asked(acc, S[p], Ar(R, p), o.max_rv.v)
  BY <1>1, <1>4 DEF RoundsOK
<1>6. o.max_rv # NoRV /\ Ar(R, p) = o.max_rv.accept_round /\ o.round >= o.round
  BY <1>4 DEF Ar
<1>7. o = R[p]
  OBVIOUS
<1> HIDE DEF o
<1>8. /\ r \in Rounds /\ r.round = o.round /\ r.max_rv # NoRV
      /\ r.max_rv = IF o.max_rv.accept_round < rv.accept_round THEN rv ELSE o.max_rv
      /\ r.prepared_set = Counting(o.prepared_set, p, src)
      /\ r.accepted_set = o.accepted_set
  BY <1>2, <1>4, <1>6, ReceivePromiseType
<1> HIDE DEF r
<1>9. r.max_rv.accept_round >= Ar(R, p) /\ rv.accept_round <= r.max_rv.accept_round
  BY <1>4, <1>6, <1>8
<1>10. /\ o.prepared_set \subseteq r.prepared_set
       /\ \A a \in r.prepared_set : a \in o.prepared_set \/ a = src \/ a = p
  BY <1>8 DEF Counting
<1>11. TypesOK(S, R2, A) /\ Frame(S, R, A, S, R2, A)
  BY <1>1, <1>3, <1>4, <1>6, <1>7, <1>8, <1>9, <1>10, RoundFrame
<1>12. RoundsOK(S, R2, acc)
  <2>1. /\ r.max_rv.accept_round <= r.round /\ StartingRound <= r.round
        /\ r.max_rv.accept_round # None =>
             Asked(acc, S[p], r.max_rv.accept_round, r.max_rv.v)
    BY <1>3, <1>4, <1>5, <1>6, <1>8
  <2> QED BY <1>1, <1>4, <1>8, <2>1, RoundsFrame
<1> HIDE DEF R2
<1>13. Base(S, R2, A, acc, dec) /\ Frame(S, R, A, S, R2, A)
  BY <1>1, <1>11, <1>12, BaseFrame
<1> QED BY <1>13 DEF R2, r, o, rv, src

\* p votes as it is asked to, and counts the vote of who asks.
LEMMA VoteKeeps ==
  ASSUME NEW S, NEW R, NEW A, NEW acc, NEW dec, Base(S, R, A, acc, dec),
         NEW p \in AliveReplicas, NEW m \in A, m.type = "Accept",
         m.slot = S[p], m.round = R[p].round
  PROVE  LET R2 == [R EXCEPT ![p] = ReceiveAccept(R[p], p, m.src, m.round, m.v)]
         IN  Base(S, R2, A, acc, dec) /\ Frame(S, R, A, S, R2, A)
<1> DEFINE o == R[p]
           v == m.v
           b == m.round
           src == m.src
           r == ReceiveAccept(o, p, src, b, v)
           R2 == [R EXCEPT ![p] = r]
<1>1. /\ TypesOK(S, R, A) /\ RoundsOK(S, R, acc) /\ MessagesOK(A, acc, dec) /\ acc \subseteq acc
  BY DEF Base
<1>2. src \in Proc /\ v \in Uid /\ b \in Proc
  BY <1>1, MessageKinds DEF TypesOK, AcceptMsg
<1>3. Asked(acc, S[p], b, v) /\ Vote(S, R, A, src, S[p], b) /\ b = o.round
  BY <1>1 DEF MessagesOK, AcceptsOK, Vote
<1> HIDE DEF v, b, src
<1>4. p \in Proc /\ o \in Rounds /\ Ar(R, p) \in Int /\ b \in Int /\ StartingRound \in Int
  <2>1. p \in Proc
    BY ReplicasAreProcs
  <2> QED BY <1>1, <1>2, <2>1, RoundIntegers, ProcIsNat, StartingRoundType
<1>5. /\ Ar(R, p) <= b /\ StartingRound <= b
      /\ Ar(R, p) # None => Asked(acc, S[p], Ar(R, p), o.max_rv.v)
  BY <1>1, <1>3, <1>4 DEF RoundsOK
<1>6. Ar(R, p) = o.max_rv.accept_round
  BY DEF Ar
<1>7. o = R[p]
  OBVIOUS
<1> HIDE DEF o
<1>8. /\ r \in Rounds /\ r.round = o.round
      /\ r.max_rv = IF o.max_rv.accept_round < b THEN PaxosV(b, v) ELSE o.max_rv
      /\ r.prepared_set = o.prepared_set
      /\ r.accepted_set = Counting(o.accepted_set, p, src)
  <2>1. o \in Rounds /\ p \in Proc /\ src \in Proc /\ b \in Proc /\ v \in Uid
    BY <1>2, <1>4
  <2> QED BY <2>1, ReceiveAcceptType
<1>9. PaxosV(b, v) # NoRV /\ PaxosV(b, v).accept_round = b /\ PaxosV(b, v).v = v
  BY <1>2, PaxosVType, RvsAreValues DEF PaxosV
<1> HIDE DEF r
<1>10. /\ r.max_rv.accept_round = b
       /\ o.max_rv # NoRV => r.max_rv # NoRV
       /\ Asked(acc, S[p], b, r.max_rv.v)
  <2>1. CASE o.max_rv.accept_round < b
    BY <1>3, <1>8, <1>9, <2>1
  <2>2. CASE ~(o.max_rv.accept_round < b)
    <3>1. o.max_rv.accept_round = b
      BY <1>4, <1>5, <1>6, <2>2
    <3>2. b # None
      BY <1>2, ProcIsNat
    <3> QED BY <1>5, <1>6, <1>8, <2>2, <3>1, <3>2
  <2> QED BY <2>1, <2>2
<1>11. \A a \in r.accepted_set :
         \/ a \in o.accepted_set
         \/ Vote(S, R, A, a, S[p], r.round)
         \/ a = p
  BY <1>3, <1>7, <1>8 DEF Counting
<1>12. b >= o.max_rv.accept_round /\ b >= b
  BY <1>4, <1>5, <1>6
<1>13. TypesOK(S, R2, A) /\ Frame(S, R, A, S, R2, A)
  BY <1>1, <1>3, <1>4, <1>7, <1>8, <1>10, <1>11, <1>12, RoundFrame
<1>14. RoundsOK(S, R2, acc)
  BY <1>1, <1>3, <1>4, <1>5, <1>7, <1>8, <1>10, <1>12, RoundsFrame
<1> HIDE DEF R2
<1>15. Base(S, R2, A, acc, dec) /\ Frame(S, R, A, S, R2, A)
  BY <1>1, <1>13, <1>14, BaseFrame
<1> QED BY <1>15 DEF R2, r, o, v, b, src

\* p counts an answer.
LEMMA AnswerKeeps ==
  ASSUME NEW S, NEW R, NEW A, NEW acc, NEW dec, Base(S, R, A, acc, dec),
         NEW p \in Proc, NEW src \in Proc, NEW q \in Proc, NEW v \in Uid
  PROVE  LET R2 == [R EXCEPT ![p] = EPaxosAnswered(R[p], src, q, v)]
         IN  Base(S, R2, A, acc, dec) /\ Frame(S, R, A, S, R2, A)
<1> DEFINE o == R[p]
           r == EPaxosAnswered(o, src, q, v)
           R2 == [R EXCEPT ![p] = r]
<1>1. /\ TypesOK(S, R, A) /\ RoundsOK(S, R, acc) /\ MessagesOK(A, acc, dec) /\ acc \subseteq acc
  BY DEF Base
<1>2. o \in Rounds /\ o.round \in Int /\ Ar(R, p) \in Int
  BY <1>1, RoundIntegers
<1>3. /\ Ar(R, p) <= o.round /\ StartingRound <= o.round
      /\ Ar(R, p) # None => Asked(acc, S[p], Ar(R, p), o.max_rv.v)
      /\ Ar(R, p) = o.max_rv.accept_round
  BY <1>1 DEF RoundsOK, Ar
<1>4. o = R[p]
  OBVIOUS
<1> HIDE DEF o
<1>5. /\ r \in Rounds /\ r.round = o.round /\ r.max_rv = o.max_rv
      /\ r.prepared_set = o.prepared_set /\ r.accepted_set = o.accepted_set
  BY <1>2, AnsweredType
<1> HIDE DEF r
<1>6. o.round >= o.round /\ o.max_rv.accept_round >= o.max_rv.accept_round
  BY <1>2, <1>3
<1>7. TypesOK(S, R2, A) /\ Frame(S, R, A, S, R2, A)
  BY <1>1, <1>4, <1>5, <1>6, RoundFrame
<1>8. RoundsOK(S, R2, acc)
  BY <1>1, <1>3, <1>4, <1>5, RoundsFrame
<1> HIDE DEF R2
<1>9. Base(S, R2, A, acc, dec) /\ Frame(S, R, A, S, R2, A)
  BY <1>1, <1>7, <1>8, BaseFrame
<1> QED BY <1>9 DEF R2, r, o

-----------------------------------------------------------------------------
(* Small steps: messages *)

\* A message less does not matter.
LEMMA DropKeeps ==
  ASSUME NEW S, NEW R, NEW A, NEW acc, NEW dec, Base(S, R, A, acc, dec),
         NEW A2, A2 \subseteq A
  PROVE  Base(S, R, A2, acc, dec) /\ Frame(S, R, A, S, R, A2)
<1>1. /\ TypesOK(S, R, A) /\ RoundsOK(S, R, acc) /\ MessagesOK(A, acc, dec)
  BY DEF Base
<1>2. TypesOK(S, R, A2)
  BY <1>1 DEF TypesOK
<1>3. MessagesOK(A2, acc, dec)
  BY <1>1 DEF MessagesOK, AcceptsOK, PreparesOK, CommitsOK
<1>4. Advances(S, R, S, R)
  BY <1>1, RoundIntegers DEF Advances
<1>5. NewVotes(S, R, A, S, R, A2)
  BY DEF NewVotes, Vote
<1>6. NewVows(S, R, A, S, R, A2)
  <2>1. \A a \in Proc, n \in Nat, b, k \in OptProc :
          Vow(S, R, A2, a, n, b, k) => Vow(S, R, A, a, n, b, k)
    BY DEF Vow
  <2>2. \A k \in OptProc : k <= k
    BY ProcIsNat
  <2> QED BY <2>1, <2>2 DEF NewVows
<1> QED BY <1>1, <1>2, <1>3, <1>4, <1>5, <1>6, BaseFrame DEF Frame

\* What a process says of its own round, it may say to others.
LEMMA SendFrame ==
  ASSUME NEW S, NEW R, NEW A, NEW acc, NEW dec, Base(S, R, A, acc, dec), NEW m \in Known,
         NEW p \in AliveReplicas,
         m.type = "Accept" =>
           /\ m.src = p /\ m.slot = S[p] /\ m.round = R[p].round /\ Ar(R, p) >= R[p].round
           /\ Asked(acc, m.slot, m.round, m.v),
         m.type = "Prepare" =>
           /\ m.src = p /\ m.slot = S[p] /\ m.round = R[p].round /\ m.rv = R[p].max_rv
           /\ R[p].max_rv # NoRV /\ Ar(R, p) < R[p].round /\ ~IsMultiPaxos,
         m.type = "Commit" => \E d \in dec : d.slot = m.slot /\ d.v = m.v
  PROVE  Base(S, R, A \cup {m}, acc, dec) /\ Frame(S, R, A, S, R, A \cup {m})
<1> DEFINE A2 == A \cup {m}
<1>1. /\ TypesOK(S, R, A) /\ RoundsOK(S, R, acc) /\ MessagesOK(A, acc, dec) /\ p \in Proc
  BY ReplicasAreProcs DEF Base
<1>2. TypesOK(S, R, A2)
  BY <1>1 DEF TypesOK
<1>3. /\ Ar(R, p) \in Int /\ Ar(R, p) \in OptProc /\ R[p].round \in Int /\ R[p].round \in OptProc
      /\ Ar(R, p) # None => Asked(acc, S[p], Ar(R, p), R[p].max_rv.v)
  BY <1>1, RoundIntegers DEF RoundsOK
<1>4. MessagesOK(A2, acc, dec)
  <2>1. m.type = "Prepare" =>
          /\ ~IsMultiPaxos /\ m.rv.accept_round < m.round
          /\ m.rv.accept_round # None => Asked(acc, m.slot, m.rv.accept_round, m.rv.v)
    BY <1>3 DEF Ar
  <2> QED BY <1>1, <2>1 DEF MessagesOK, AcceptsOK, PreparesOK, CommitsOK
<1>5. Advances(S, R, S, R)
  BY <1>1, RoundIntegers DEF Advances
<1>6. NewVotes(S, R, A, S, R, A2)
  <2> SUFFICES ASSUME NEW a \in Proc, NEW n \in Nat, NEW b \in Proc, Vote(S, R, A2, a, n, b),
                      ~Vote(S, R, A, a, n, b)
               PROVE  /\ a \in AliveReplicas /\ S[a] = n /\ R[a].round = b
                      /\ Voted(S, R, a, n, b)
    BY DEF NewVotes
  <2>1. m.type = "Accept" /\ m.src = a /\ m.slot = n /\ m.round = b
    BY DEF Vote
  <2> QED BY <2>1 DEF Voted
<1>7. NewVows(S, R, A, S, R, A2)
  <2> SUFFICES ASSUME NEW a \in Proc, NEW n \in Nat, NEW b \in OptProc, NEW k \in OptProc,
                      Vow(S, R, A2, a, n, b, k)
               PROVE  \/ \E j \in OptProc : j <= k /\ Vow(S, R, A, a, n, b, j)
                      \/ /\ a \in AliveReplicas /\ S[a] = n /\ R[a].round = b /\ Ar(R, a) <= k
                         /\ Promised(S, R, a, n, b)
    BY DEF NewVows
  <2>1. k \in Int /\ k <= k
    BY ProcIsNat
  <2>2. CASE Vow(S, R, A, a, n, b, k)
    BY <2>1, <2>2
  <2>3. CASE ~Vow(S, R, A, a, n, b, k)
    <3>1. m.type = "Prepare" /\ m.src = a /\ m.slot = n /\ m.round = b /\ m.rv.accept_round = k
      BY <2>3 DEF Vow
    <3>2. a = p /\ S[a] = n /\ R[a].round = b /\ R[a].max_rv # NoRV /\ Ar(R, a) = k
      BY <3>1 DEF Ar
    <3>3. R[a].round >= b
      BY <1>3, <3>2
    <3> QED BY <2>1, <3>2, <3>3 DEF Promised
  <2> QED BY <2>2, <2>3
<1> HIDE DEF A2
<1>8. Base(S, R, A2, acc, dec) /\ Frame(S, R, A, S, R, A2)
  BY <1>1, <1>2, <1>4, <1>5, <1>6, <1>7, BaseFrame DEF Frame
<1> QED BY <1>8 DEF A2

\* So is a command that is forwarded, and a decision that is told, by anybody.
LEMMA TellKeeps ==
  ASSUME NEW S, NEW R, NEW A, NEW acc, NEW dec, Base(S, R, A, acc, dec), NEW m \in Known,
         m.type \in {"ForwardRequest", "Commit"},
         m.type = "Commit" => \E d \in dec : d.slot = m.slot /\ d.v = m.v
  PROVE  Base(S, R, A \cup {m}, acc, dec) /\ Frame(S, R, A, S, R, A \cup {m})
<1> DEFINE A2 == A \cup {m}
<1>1. TypesOK(S, R, A) /\ RoundsOK(S, R, acc) /\ MessagesOK(A, acc, dec)
  BY DEF Base
<1>2. TypesOK(S, R, A2)
  BY <1>1 DEF TypesOK
<1>3. MessagesOK(A2, acc, dec)
  BY <1>1 DEF MessagesOK, AcceptsOK, PreparesOK, CommitsOK
<1>4. Advances(S, R, S, R)
  BY <1>1, RoundIntegers DEF Advances
<1>5. NewVotes(S, R, A, S, R, A2)
  BY DEF NewVotes, Vote
<1>6. NewVows(S, R, A, S, R, A2)
  <2>1. \A a \in Proc, n \in Nat, b, k \in OptProc :
          Vow(S, R, A2, a, n, b, k) => Vow(S, R, A, a, n, b, k)
    BY DEF Vow
  <2>2. \A k \in OptProc : k <= k
    BY ProcIsNat
  <2> QED BY <2>1, <2>2 DEF NewVows
<1> HIDE DEF A2
<1>7. Base(S, R, A2, acc, dec) /\ Frame(S, R, A, S, R, A2)
  BY <1>1, <1>2, <1>3, <1>4, <1>5, <1>6, BaseFrame DEF Frame
<1> QED BY <1>7 DEF A2

-----------------------------------------------------------------------------
(* Small steps: decisions *)

\* p leaves the slot.
LEMMA CommitKeeps ==
  ASSUME NEW S, NEW R, NEW A, NEW acc, NEW dec, Base(S, R, A, acc, dec), NEW p \in Proc
  PROVE  LET S2 == [S EXCEPT ![p] = S[p] + 1]
             R2 == [R EXCEPT ![p] = ClearRound]
         IN  Base(S2, R2, A, acc, dec) /\ Frame(S, R, A, S2, R2, A)
<1> DEFINE S2 == [S EXCEPT ![p] = S[p] + 1]
           R2 == [R EXCEPT ![p] = ClearRound]
<1>1. /\ TypesOK(S, R, A) /\ RoundsOK(S, R, acc) /\ MessagesOK(A, acc, dec)
  BY DEF Base
<1>2. /\ R2[p] = ClearRound /\ \A c \in Proc : c # p => R2[c] = R[c]
      /\ S2[p] = S[p] + 1 /\ \A c \in Proc : c # p => S2[c] = S[c]
  BY <1>1 DEF TypesOK
<1>3. TypesOK(S2, R2, A)
  BY <1>1, ClearRoundType DEF TypesOK
<1>4. \A c \in Proc : S[c] \in Int /\ R[c].round \in Int /\ Ar(R, c) \in Int
  BY <1>1, RoundIntegers
<1> HIDE DEF S2, R2
<1>5. Ar(R2, p) = None /\ \A c \in Proc : c # p => Ar(R2, c) = Ar(R, c)
  BY <1>2 DEF Ar, ClearRound, ClearPaxosRound, NoRV
<1>6. R2[p].accepted_set = {} /\ R2[p].prepared_set = {} /\ R2[p].round = StartingRound
  BY <1>2 DEF ClearRound, ClearPaxosRound
<1>7. RoundsOK(S2, R2, acc)
  <2> SUFFICES ASSUME NEW c \in Proc
               PROVE  /\ Ar(R2, c) <= R2[c].round /\ StartingRound <= R2[c].round
                      /\ Ar(R2, c) # None => Asked(acc, S2[c], Ar(R2, c), R2[c].max_rv.v)
    BY DEF RoundsOK
  <2>1. CASE c = p
    <3>1. StartingRound \in Int /\ None <= StartingRound
      BY StartingRoundType, ProcIsNat
    <3> QED BY <1>5, <1>6, <2>1, <3>1
  <2>2. CASE c # p
    BY <1>1, <1>2, <1>5, <2>2 DEF RoundsOK
  <2> QED BY <2>1, <2>2
<1>8. Advances(S, R, S2, R2)
  <2> SUFFICES ASSUME NEW a \in Proc
               PROVE  \/ S2[a] > S[a]
                      \/ /\ S2[a] = S[a]
                         /\ R2[a].round >= R[a].round /\ Ar(R2, a) >= Ar(R, a)
                         /\ R[a].max_rv # NoRV => R2[a].max_rv # NoRV
                         /\ R2[a].round = R[a].round =>
                              R[a].prepared_set \subseteq R2[a].prepared_set
    BY DEF Advances
  <2>1. CASE a = p
    BY <1>2, <1>4, <2>1
  <2>2. CASE a # p
    BY <1>2, <1>4, <1>5, <2>2
  <2> QED BY <2>1, <2>2
<1>9. NewVotes(S, R, A, S2, R2, A)
  <2> SUFFICES ASSUME NEW a \in Proc, NEW n \in Nat, NEW b \in Proc, Vote(S2, R2, A, a, n, b)
               PROVE  Vote(S, R, A, a, n, b)
    BY DEF NewVotes
  <2>1. CASE \E c \in Proc : S2[c] = n /\ R2[c].round = b /\ a \in R2[c].accepted_set
    <3>1. PICK c \in Proc : S2[c] = n /\ R2[c].round = b /\ a \in R2[c].accepted_set
      BY <2>1
    <3>2. c # p
      BY <1>6, <3>1
    <3> QED BY <1>2, <3>1, <3>2 DEF Vote
  <2> QED BY <2>1 DEF Vote
<1>10. NewVows(S, R, A, S2, R2, A)
  <2> SUFFICES ASSUME NEW a \in Proc, NEW n \in Nat, NEW b \in OptProc, NEW k \in OptProc,
                      Vow(S2, R2, A, a, n, b, k)
               PROVE  Vow(S, R, A, a, n, b, k) /\ k <= k
    BY DEF NewVows
  <2>1. k <= k
    BY ProcIsNat
  <2>2. CASE \E c \in Proc : /\ S2[c] = n /\ R2[c].round = b /\ Ar(R2, c) = k
                             /\ a \in R2[c].prepared_set
    <3>1. PICK c \in Proc : /\ S2[c] = n /\ R2[c].round = b /\ Ar(R2, c) = k
                            /\ a \in R2[c].prepared_set
      BY <2>2
    <3>2. c # p
      BY <1>6, <3>1
    <3> QED BY <1>2, <1>5, <2>1, <3>1, <3>2 DEF Vow
  <2> QED BY <2>1, <2>2 DEF Vow
<1>11. Base(S2, R2, A, acc, dec) /\ Frame(S, R, A, S2, R2, A)
  BY <1>1, <1>3, <1>7, <1>8, <1>9, <1>10, BaseFrame DEF Frame
<1> QED BY <1>11 DEF S2, R2

\* Whoever is counted in an accepted round will never hide its vote.
LEMMA AcceptedLocks ==
  ASSUME NEW S, NEW R, NEW A, TypesOK(S, R, A), VotesKept(S, R, A), VowsKept(S, R, A),
         NEW a \in Proc, NEW n \in Nat, NEW b \in Proc, Vote(S, R, A, a, n, b)
  PROVE  a \in AliveReplicas /\ Lock(S, R, A, a, n, b)
<1>1. a \in AliveReplicas /\ Voted(S, R, a, n, b)
  BY DEF VotesKept
<1>2. ASSUME NEW e \in OptProc, NEW k \in OptProc, Vow(S, R, A, a, n, e, k), e > b
      PROVE  k >= b
  <2>1. k \in Int /\ b \in Int /\ e \in Int
    BY ProcIsNat
  <2>2. k < b /\ b < e => NoVote(S, R, A, a, n, b)
    BY <1>2 DEF VowsKept
  <2> QED BY <1>2, <2>1, <2>2 DEF NoVote
<1> QED BY <1>1, <1>2 DEF Lock

\* A majority of votes decides.
LEMMA DecideKeeps ==
  ASSUME NEW S, NEW R, NEW A, NEW acc, NEW dec, Base(S, R, A, acc, dec), NEW p \in Proc,
         NEW v \in Uid, R[p].round \in Proc, Asked(acc, S[p], R[p].round, v),
         PaxosCanCommit(R[p])
  PROVE  Base(S, R, A, acc,
              dec \cup {[slot |-> S[p], v |-> v, round |-> R[p].round, fast |-> FALSE]})
<1> DEFINE n == S[p]
           b == R[p].round
           e == [slot |-> n, v |-> v, round |-> b, fast |-> FALSE]
           V == R[p].accepted_set
           L == {a \in AliveReplicas : Lock(S, R, A, a, n, b)}
<1>1. /\ TypesOK(S, R, A) /\ HistoryOK(acc, dec)
      /\ RoundsOK(S, R, acc) /\ MessagesOK(A, acc, dec)
      /\ VotesKept(S, R, A) /\ VowsKept(S, R, A)
      /\ Led(S, R, acc) /\ OneValue(acc) /\ Safe(S, R, A, acc)
      /\ Locked(S, R, A, acc, dec) /\ SlowKept(acc, dec)
  BY DEF Base
<1>2. n \in Nat /\ b \in Proc /\ V \subseteq Proc /\ StartingRound <= b
  BY <1>1, RoundIntegers DEF RoundsOK
<1>3. \A a \in V : Vote(S, R, A, a, n, b)
  BY DEF Vote
<1>4. Asked(acc, n, b, v) /\ Cardinality(V) >= Majority
  BY DEF PaxosCanCommit
<1> HIDE DEF n, b, V
<1>5. V \subseteq L /\ V \subseteq AliveReplicas /\ L \subseteq Proc
  BY <1>1, <1>2, <1>3, AcceptedLocks, ReplicasAreProcs
<1>6. Cardinality(L) >= Majority
  <2> HIDE DEF L
  <2> QED BY <1>4, <1>5, CountGrows, Finite
<1>7. e.slot = n /\ e.v = v /\ e.round = b /\ e.fast = FALSE
  OBVIOUS
<1>8. e \in [slot : Nat, v : Uid, round : Proc, fast : BOOLEAN]
  BY <1>2
<1> HIDE DEF e
<1> DEFINE dec2 == dec \cup {e}
<1>9. HistoryOK(acc, dec2) /\ MessagesOK(A, acc, dec2)
  BY <1>1, <1>8 DEF HistoryOK, MessagesOK, CommitsOK
<1>10. Locked(S, R, A, acc, dec2)
  BY <1>1, <1>4, <1>6, <1>7 DEF Locked
<1>11. SlowKept(acc, dec2)
  <2> SUFFICES ASSUME NEW x \in acc, x.slot = n, x.round >= b PROVE x.v = v
    BY <1>1, <1>7 DEF SlowKept
  <2>1. x = [slot |-> n, round |-> x.round, v |-> x.v] /\ x.round \in Proc
    BY <1>1 DEF HistoryOK
  <2>2. CASE x.round = b
    BY <1>1, <1>4, <2>2 DEF OneValue, Asked
  <2>3. CASE x.round # b
    <3>1. b < x.round
      <4>1. b \in Int /\ x.round \in Int
        BY <1>2, <2>1, ProcIsNat
      <4> QED BY <2>3, <4>1
    <3>2. SafeAt(S, R, A, acc, n, b, x.v)
      BY <1>1, <1>2, <3>1 DEF Safe
    <3>3. CASE Asked(acc, n, b, x.v)
      BY <1>1, <1>4, <3>3 DEF OneValue, Asked
    <3>4. CASE Cardinality({a \in AliveReplicas : NoVote(S, R, A, a, n, b)}) >= Majority
      <4> DEFINE N == {a \in AliveReplicas : NoVote(S, R, A, a, n, b)}
      <4>1. PICK a \in AliveReplicas : a \in N /\ a \in V
        <5>1. N \subseteq AliveReplicas /\ Cardinality(N) >= Majority
          BY <3>4
        <5> HIDE DEF N
        <5> QED BY <1>4, <1>5, <5>1, MajoritiesMeet
      <4> QED BY <1>3, <4>1 DEF NoVote
    <3> QED BY <3>2, <3>3, <3>4 DEF SafeAt
  <2> QED BY <2>2, <2>3
<1> HIDE DEF dec2
<1>12. Base(S, R, A, acc, dec2)
  BY <1>1, <1>9, <1>10, <1>11 DEF Base
<1> QED BY <1>12 DEF dec2, e, n, b

\* What is decided fast is no business of the votes.
LEMMA DecideFastKeeps ==
  ASSUME NEW S, NEW R, NEW A, NEW acc, NEW dec, Base(S, R, A, acc, dec), NEW p \in Proc,
         NEW v \in Uid, R[p].round \in Proc
  PROVE  Base(S, R, A, acc,
              dec \cup {[slot |-> S[p], v |-> v, round |-> R[p].round, fast |-> TRUE]})
<1> DEFINE e == [slot |-> S[p], v |-> v, round |-> R[p].round, fast |-> TRUE]
           dec2 == dec \cup {e}
<1>1. /\ TypesOK(S, R, A) /\ HistoryOK(acc, dec)
      /\ RoundsOK(S, R, acc) /\ MessagesOK(A, acc, dec)
      /\ VotesKept(S, R, A) /\ VowsKept(S, R, A)
      /\ Led(S, R, acc) /\ OneValue(acc) /\ Safe(S, R, A, acc)
      /\ Locked(S, R, A, acc, dec) /\ SlowKept(acc, dec)
  BY DEF Base
<1>2. e \in [slot : Nat, v : Uid, round : Proc, fast : BOOLEAN] /\ e.fast
  BY <1>1, RoundIntegers
<1> HIDE DEF e
<1>3. HistoryOK(acc, dec2) /\ MessagesOK(A, acc, dec2)
  BY <1>1, <1>2 DEF HistoryOK, MessagesOK, CommitsOK
<1>4. Locked(S, R, A, acc, dec2) /\ SlowKept(acc, dec2)
  BY <1>1, <1>2 DEF Locked, SlowKept
<1> HIDE DEF dec2
<1>5. Base(S, R, A, acc, dec2)
  BY <1>1, <1>3, <1>4 DEF Base
<1> QED BY <1>5 DEF dec2, e

-----------------------------------------------------------------------------
(* Small steps: a coordinator asks for votes *)

\* What a majority of promises tells of earlier rounds.
LEMMA PreparedIsSafe ==
  ASSUME NEW S, NEW R, NEW A, NEW acc, NEW dec, Base(S, R, A, acc, dec), NEW p \in Proc,
         IsPrepared(R[p]), NEW v, Ar(R, p) # None => v = R[p].max_rv.v,
         NEW b \in Proc, StartingRound <= b, b < R[p].round
  PROVE  SafeAt(S, R, A, acc, S[p], b, v)
<1> DEFINE n == S[p]
           P == R[p].prepared_set
           N == {a \in AliveReplicas : NoVote(S, R, A, a, n, b)}
<1>1. TypesOK(S, R, A) /\ RoundsOK(S, R, acc) /\ VowsKept(S, R, A) /\ Safe(S, R, A, acc)
  BY DEF Base
<1>2. /\ n \in Nat /\ P \subseteq Proc /\ Cardinality(P) >= Majority
      /\ R[p].round \in OptProc /\ Ar(R, p) \in OptProc /\ Ar(R, p) \in Int /\ b \in Int
      /\ None <= Ar(R, p) /\ None < b
  BY <1>1, RoundIntegers, ProcIsNat DEF IsPrepared
<1>3. CASE Ar(R, p) < b
  <2>1. ASSUME NEW a \in P
        PROVE  a \in AliveReplicas /\ NoVote(S, R, A, a, n, b)
    <3>1. Vow(S, R, A, a, n, R[p].round, Ar(R, p))
      BY DEF Vow
    <3> QED BY <1>1, <1>2, <1>3, <3>1 DEF VowsKept
  <2>2. P \subseteq N /\ N \subseteq Proc
    BY <2>1, ReplicasAreProcs
  <2>3. Cardinality(P) >= Majority
    BY <1>2
  <2> HIDE DEF P, N
  <2>4. Cardinality(P) \in Nat /\ Cardinality(N) \in Nat /\ Cardinality(P) <= Cardinality(N)
    BY <2>2, CountGrows
  <2>5. Cardinality(N) >= Majority
    BY <2>3, <2>4, Finite
  <2> QED BY <2>5 DEF SafeAt, N
<1>4. CASE ~(Ar(R, p) < b)
  <2>1. Ar(R, p) # None
    BY <1>2, <1>4
  <2>2. Asked(acc, n, Ar(R, p), v)
    BY <1>1, <2>1 DEF RoundsOK
  <2>3. CASE Ar(R, p) = b
    BY <2>2, <2>3 DEF SafeAt
  <2>4. CASE Ar(R, p) # b
    <3>1. b < Ar(R, p)
      BY <1>2, <1>4, <2>4
    <3> DEFINE x == [slot |-> n, round |-> Ar(R, p), v |-> v]
    <3>2. x \in acc /\ x.slot = n /\ x.round = Ar(R, p) /\ x.v = v
      BY <2>2 DEF Asked
    <3> HIDE DEF x
    <3> QED BY <1>1, <3>1, <3>2 DEF Safe
  <2> QED BY <2>3, <2>4
<1> QED BY <1>3, <1>4

\* And of decisions.
LEMMA PreparedKnows ==
  ASSUME NEW S, NEW R, NEW A, NEW acc, NEW dec, Base(S, R, A, acc, dec), NEW p \in Proc,
         IsPrepared(R[p]), NEW d \in dec, ~d.fast, d.slot = S[p], d.round < R[p].round
  PROVE  Ar(R, p) # None /\ R[p].max_rv.v = d.v
<1> DEFINE n == S[p]
           b == d.round
           P == R[p].prepared_set
           L == {a \in AliveReplicas : Lock(S, R, A, a, n, b)}
<1>1. /\ TypesOK(S, R, A) /\ HistoryOK(acc, dec) /\ RoundsOK(S, R, acc)
      /\ VowsKept(S, R, A)
      /\ Locked(S, R, A, acc, dec) /\ SlowKept(acc, dec)
  BY DEF Base
<1>2. /\ n \in Nat /\ b \in Proc /\ P \subseteq Proc /\ Cardinality(P) >= Majority
      /\ R[p].round \in OptProc /\ Ar(R, p) \in OptProc
  BY <1>1, RoundIntegers DEF HistoryOK, IsPrepared
<1>3. Cardinality(L) >= Majority /\ L \subseteq AliveReplicas
  BY <1>1 DEF Locked
<1>4. \A a \in P : Vow(S, R, A, a, n, R[p].round, Ar(R, p))
  BY DEF Vow
<1>5. P \subseteq AliveReplicas
  BY <1>1, <1>2, <1>4 DEF VowsKept
<1>6. PICK a \in AliveReplicas : a \in P /\ a \in L
  <2> HIDE DEF P, L
  <2> QED BY <1>2, <1>3, <1>5, MajoritiesMeet
<1>7. Ar(R, p) >= b
  <2>1. R[p].round > b
    <3>1. R[p].round \in Int /\ b \in Int
      BY <1>2, ProcIsNat
    <3> QED BY <3>1
  <2> QED BY <1>2, <1>4, <1>6, <2>1 DEF Lock
<1>8. Ar(R, p) # None
  <2>1. b \in Proc /\ Ar(R, p) \in OptProc
    BY <1>2
  <2> HIDE DEF b
  <2>2. b \in Nat /\ (Ar(R, p) = None => Ar(R, p) = -1)
    BY <2>1, ProcIsNat DEF None
  <2> QED BY <1>7, <2>2
<1>9. Asked(acc, n, Ar(R, p), R[p].max_rv.v)
  BY <1>1, <1>8 DEF RoundsOK
<1> DEFINE x == [slot |-> n, round |-> Ar(R, p), v |-> R[p].max_rv.v]
<1>10. x \in acc /\ x.slot = n /\ x.round = Ar(R, p) /\ x.v = R[p].max_rv.v
  BY <1>9 DEF Asked
<1> HIDE DEF x
<1> QED BY <1>1, <1>7, <1>8, <1>10 DEF SlowKept

\* The coordinator of a round asks for votes: for what was last accepted, if
\* anything was.
LEMMA LeadKeeps ==
  ASSUME NEW S, NEW R, NEW A, NEW acc, NEW dec, Base(S, R, A, acc, dec),
         NEW p \in AliveReplicas, NEW b \in Proc, b = R[p].round, Coordinator(b) = p,
         NEW v \in Uid, Ar(R, p) # None => v = R[p].max_rv.v,
         ~LedBy(S, R, p, S[p], b),
         IsMultiPaxos => b = StartingRound,
         ~IsMultiPaxos => IsPrepared(R[p]),
         NEW r \in Rounds, r.round = b, r.max_rv = PaxosV(b, v),
         r.prepared_set = R[p].prepared_set,
         r.accepted_set = Counting(R[p].accepted_set, p, p)
  PROVE  LET R2 == [R EXCEPT ![p] = r]
         IN  /\ Base(S, R2, A, acc \cup {[slot |-> S[p], round |-> b, v |-> v]}, dec)
             /\ Frame(S, R, A, S, R2, A)
<1> DEFINE o == R[p]
           n == S[p]
           x == [slot |-> n, round |-> b, v |-> v]
           acc2 == acc \cup {x}
           R2 == [R EXCEPT ![p] = r]
<1>1. /\ TypesOK(S, R, A) /\ HistoryOK(acc, dec)
      /\ RoundsOK(S, R, acc) /\ MessagesOK(A, acc, dec)
      /\ VotesKept(S, R, A) /\ VowsKept(S, R, A)
      /\ Led(S, R, acc) /\ OneValue(acc) /\ Safe(S, R, A, acc)
      /\ Locked(S, R, A, acc, dec) /\ SlowKept(acc, dec)
  BY DEF Base
<1>2. /\ p \in Proc /\ n \in Nat /\ n \in Int /\ b \in Int /\ Ar(R, p) \in Int /\ b # None
      /\ StartingRound \in Int
  <2>1. p \in Proc
    BY ReplicasAreProcs
  <2> QED BY <1>1, <2>1, RoundIntegers, ProcIsNat, StartingRoundType
<1>3. /\ Ar(R, p) <= b /\ StartingRound <= b /\ Ar(R, p) = o.max_rv.accept_round
  BY <1>1, <1>2 DEF RoundsOK, Ar
<1>4. /\ r.max_rv # NoRV /\ r.max_rv.accept_round = b /\ r.max_rv.v = v
  BY PaxosVType, RvsAreValues DEF PaxosV
<1>5. acc \subseteq acc2 /\ Asked(acc2, n, b, v) /\ x.slot = n /\ x.round = b /\ x.v = v
  BY DEF Asked
<1>6. x \in [slot : Nat, round : Proc, v : Uid]
  BY <1>2
<1>7. \A y \in acc : ~(y.slot = n /\ y.round = b)
  BY <1>1 DEF Led
<1> HIDE DEF x
<1>8. TypesOK(S, R2, A) /\ Frame(S, R, A, S, R2, A)
  <2>1. b >= o.round /\ b >= o.max_rv.accept_round /\ b >= b
    BY <1>2, <1>3
  <2>2. \A a \in r.accepted_set : a \in o.accepted_set \/ a = p
    BY DEF Counting
  <2> HIDE DEF R2
  <2>3. LET R3 == [R EXCEPT ![p] = r] IN TypesOK(S, R3, A) /\ Frame(S, R, A, S, R3, A)
    BY <1>1, <1>2, <1>4, <2>1, <2>2, RoundFrame
  <2> QED BY <2>3 DEF R2
<1>9. RoundsOK(S, R2, acc2)
  <2>1. b <= b /\ n = S[p]
    BY <1>2
  <2> HIDE DEF acc2, n
  <2> QED BY <1>1, <1>2, <1>3, <1>4, <1>5, <2>1, RoundsFrame
<1>10. R2[p] = r /\ HistoryOK(acc2, dec)
  BY <1>1, <1>2, <1>6 DEF HistoryOK, TypesOK
<1>11. acc \subseteq [slot : Nat, round : Proc, v : Uid]
  BY <1>1 DEF HistoryOK
<1> HIDE DEF R2
<1>12. MessagesOK(A, acc2, dec)
  BY <1>1, <1>5 DEF MessagesOK, AcceptsOK, PreparesOK, CommitsOK, Asked
<1>13. VotesKept(S, R2, A) /\ VowsKept(S, R2, A)
  BY <1>1, <1>8, VotesKeptFrame, VowsKeptFrame
<1>14. Led(S, R2, acc2)
  <2>1. Led(S, R2, acc)
    BY <1>1, <1>8, <1>9, <1>11, LedFrame
  <2>2. LedBy(S, R2, p, n, b)
    <3>1. IsMultiPaxos \/ IsPrepared(r)
      BY DEF IsPrepared
    <3> QED BY <1>2, <1>4, <1>10, <3>1 DEF LedBy, Ar
  <2> QED BY <1>3, <1>5, <2>1, <2>2 DEF Led
<1>15. OneValue(acc2)
  BY <1>1, <1>5, <1>7 DEF OneValue
<1>16. Safe(S, R2, A, acc2)
  <2>1. ASSUME NEW y \in acc, NEW e \in Proc, StartingRound <= e, e < y.round
        PROVE  SafeAt(S, R2, A, acc2, y.slot, e, y.v)
    <3>1. SafeAt(S, R, A, acc, y.slot, e, y.v) /\ y.slot \in Nat
      BY <1>1, <1>11, <2>1 DEF Safe
    <3> QED BY <1>1, <1>5, <1>8, <3>1, SafeAtStable
  <2>2. ASSUME NEW e \in Proc, StartingRound <= e, e < b
        PROVE  SafeAt(S, R2, A, acc2, n, e, v)
    <3>1. ~IsMultiPaxos
      <4>1. e \in Int
        BY ProcIsNat
      <4> QED BY <1>2, <2>2, <4>1
    <3>2. SafeAt(S, R, A, acc, n, e, v)
      BY <1>2, <2>2, <3>1, PreparedIsSafe
    <3> QED BY <1>1, <1>2, <1>5, <1>8, <3>2, SafeAtStable
  <2> QED BY <1>5, <2>1, <2>2 DEF Safe
<1>17. Locked(S, R2, A, acc2, dec)
  BY <1>1, <1>5, <1>8, LockedFrame
<1>18. SlowKept(acc2, dec)
  <2> SUFFICES ASSUME NEW d \in dec, ~d.fast, d.slot = n, b >= d.round
               PROVE  d.v = v
    BY <1>1, <1>5 DEF SlowKept
  <2>1. d.round \in Proc /\ d.round \in Int /\ Asked(acc, n, d.round, d.v)
    <3>1. d.round \in Proc
      BY <1>1 DEF HistoryOK
    <3> QED BY <1>1, <3>1, ProcIsNat DEF Locked
  <2>2. d.round # b
    BY <1>7, <2>1 DEF Asked
  <2>3. d.round < b
    BY <1>2, <2>1, <2>2
  <2>4. StartingRound <= d.round
    <3> DEFINE y == [slot |-> n, round |-> d.round, v |-> d.v]
    <3>1. y \in acc /\ y.round = d.round
      BY <2>1 DEF Asked
    <3> HIDE DEF y
    <3> QED BY <1>1, <3>1 DEF Led
  <2>5. ~IsMultiPaxos
    BY <1>2, <2>1, <2>3, <2>4
  <2>6. Ar(R, p) # None /\ R[p].max_rv.v = d.v
    BY <1>2, <2>3, <2>5, PreparedKnows
  <2> QED BY <2>6
<1> HIDE DEF acc2
<1>19. Base(S, R2, A, acc2, dec) /\ Frame(S, R, A, S, R2, A)
  BY <1>8, <1>9, <1>10, <1>12, <1>13, <1>14, <1>15, <1>16, <1>17, <1>18 DEF Base
<1> QED BY <1>19 DEF acc2, R2, x

-----------------------------------------------------------------------------
(* Answers *)

\* a's answer in slot n is q's proposal v, as its round state, a message or
\* somebody's count says.
Says(S, R, A, a, n, q, v) ==
  \/ S[a] = n /\ R[a].max_rv = FastV(q, v)
  \/ \E m \in A : m.type = "Prepare" /\ m.src = a /\ m.slot = n /\ m.rv = FastV(q, v)
  \/ \E c \in Proc : /\ S[c] = n
                     /\ [src |-> a, proposer |-> q, v |-> v] \in R[c].fast_answers

\* a has a value for slot n, or has left it.
Spoke(S, R, a, n) == S[a] > n \/ (S[a] = n /\ R[a].max_rv # NoRV)

\* a's answer is, or would be, for another proposal than p's: it said so, or is
\* heard to propose itself.
Against(S, R, A, a, n, p) ==
  \/ \E q \in Proc, v \in Uid : Says(S, R, A, a, n, q, v) /\ q # p
  \/ a # p /\ \E b \in Proc, v \in Uid : Says(S, R, A, b, n, a, v)

\* a's answer is not for p's proposal; it is kept when it is for no other.
NoFastVote(S, R, A, a, n, p) ==
  /\ Spoke(S, R, a, n)
  /\ \A q \in Proc, v \in Uid : Says(S, R, A, a, n, q, v) => q # p
FastKept(S, R, A, a, n, p) == Spoke(S, R, a, n) /\ ~Against(S, R, A, a, n, p)

\* v is the proposal of p, and p has no other in the slot.
Tied(S, R, A, n, p, v) ==
  /\ Spoke(S, R, p, n)
  /\ \A b \in Proc, w \in Uid : Says(S, R, A, b, n, p, w) => w = v

\* p's answers cannot decide any more, nor could those of enough others.
CannotFastDecide(S, R, n, p) ==
  S[p] > n \/ (S[p] = n /\ (R[p].round > p \/ Ar(R, p) # None))
FastBlocked(S, R, A, n, p) ==
  Cardinality({a \in AliveReplicas : NoFastVote(S, R, A, a, n, p)}) + EPaxosQuorum > NbReplicas

-----------------------------------------------------------------------------
(* The invariant *)

\* A replica has one answer, a proposer one value, and a proposer no answer but
\* its own.
Words(S, R, A) ==
  \A a, q \in Proc, n \in Nat, v \in Uid :
    Says(S, R, A, a, n, q, v) =>
      /\ a \in AliveReplicas /\ q \in AliveReplicas
      /\ Spoke(S, R, a, n) /\ Spoke(S, R, q, n)
      /\ \A r \in Proc, w \in Uid : Says(S, R, A, a, n, r, w) => r = q /\ w = v
      /\ \A b \in Proc, w \in Uid : Says(S, R, A, b, n, q, w) => w = v
      /\ \A r \in Proc, w \in Uid : Says(S, R, A, q, n, r, w) => r = q

\* Nobody answers with the proposal of a round above its own.
Bounded(R, A) ==
  /\ \A a \in Proc : R[a].max_rv.proposer <= R[a].round
  /\ \A m \in A : m.type = "Prepare" => m.rv.proposer <= m.round
  /\ \A c \in Proc : \A x \in R[c].fast_answers : x.proposer <= c

\* Whose answer a proposer counts has promised its round.
Answers(R) ==
  \A c \in Proc : R[c].fast_answers # {} =>
    /\ R[c].round >= c
    /\ R[c].round = c => \A x \in R[c].fast_answers : x.src \in R[c].prepared_set

\* Who decided fast has left the slot with its proposal alone, which a fast quorum
\* answered with and can answer with nothing else.
FastDecided(S, R, A, dec) ==
  \A d \in dec : d.fast =>
    /\ Mode = "EPaxos" /\ S[d.round] > d.slot
    /\ \A e, k \in OptProc : Vow(S, R, A, d.round, d.slot, e, k) => e <= d.round
    /\ Tied(S, R, A, d.slot, d.round, d.v)
    /\ Cardinality({a \in AliveReplicas : FastKept(S, R, A, a, d.slot, d.round)}) >= EPaxosQuorum

\* Who asked for votes knew that nothing else was decided fast, or would be.
FastAskedAt(S, R, A, n, v) ==
  \A p \in Proc :
    \/ CannotFastDecide(S, R, n, p) \/ FastBlocked(S, R, A, n, p)
    \/ Tied(S, R, A, n, p, v)
FastAsked(S, R, A, acc) ==
  Mode = "EPaxos" => \A x \in acc : FastAskedAt(S, R, A, x.slot, x.v)

\* What was decided fast is all that is ever asked for or decided in the slot.
FastAlone(acc, dec) ==
  \A d \in dec : d.fast =>
    /\ \A x \in acc : x.slot = d.slot => x.v = d.v
    /\ \A e \in dec : e.fast /\ e.slot = d.slot => e.v = d.v

\* All of it.
Fast(S, R, A, acc, dec) ==
  /\ Words(S, R, A) /\ Bounded(R, A) /\ Answers(R)
  /\ FastDecided(S, R, A, dec) /\ FastAsked(S, R, A, acc) /\ FastAlone(acc, dec)

-----------------------------------------------------------------------------
(* What small steps have in common *)

\* Only a replica that has not answered yet finds an answer: its own proposal,
\* or what it has heard.
NewWords(S, R, A, S2, R2, A2) ==
  \A a, q \in Proc, n \in Nat, v \in Uid :
    Says(S2, R2, A2, a, n, q, v) =>
      \/ Says(S, R, A, a, n, q, v)
      \/ /\ a \in AliveReplicas /\ S[a] = n /\ R[a].max_rv = NoRV
         /\ S2[a] = n /\ R2[a].max_rv = FastV(q, v)
         /\ q = a \/ \E b \in Proc : Says(S, R, A, b, n, q, v)

\* A fast quorum meets what is left of any majority of answers for another
\* proposal.
LEMMA QuorumBounds ==
  /\ EPaxosQuorum \in Nat /\ EPaxosQuorum >= Majority
  /\ 4 * EPaxosQuorum >= 3 * NbReplicas - 4
<1> DEFINE x == (3 * NbReplicas - 1) \div 4
           Q == {x, Majority}
<1>1. x \in Int /\ Majority \in Nat /\ 4 * x >= 3 * NbReplicas - 4
  BY TopologyAssumption DEF Majority
<1>2. \E y \in Q : \A z \in Q : y >= z
  <2> HIDE DEF x
  <2>1. CASE x >= Majority
    BY <1>1, <2>1
  <2>2. CASE ~(x >= Majority)
    BY <1>1, <2>2
  <2> QED BY <2>1, <2>2
<1> HIDE DEF x
<1>3. Max(Q) \in Q /\ \A z \in Q : Max(Q) >= z
  BY <1>2 DEF Max
<1>4. EPaxosQuorum = Max(Q)
  BY DEF EPaxosQuorum, x
<1>5. Max(Q) \in Int /\ Max(Q) >= x /\ Max(Q) >= Majority
  BY <1>1, <1>3
<1> QED BY <1>1, <1>4, <1>5, TopologyAssumption

\* Proposals of different processes, or of different values, are different.
LEMMA FastVIs ==
  \A p, q \in Proc, v, w \in Uid :
    /\ FastV(p, v) # NoRV
    /\ FastV(p, v) = FastV(q, w) => p = q /\ v = w
    /\ FastV(p, v).proposer = p /\ FastV(p, v).v = v /\ FastV(p, v).accept_round = None
BY ProcIsNat DEF FastV, NoRV

\* What a process has spoken of, it has.
LEMMA SpokeStable ==
  ASSUME NEW S, NEW R, NEW A, TypesOK(S, R, A),
         NEW S2, NEW R2, NEW A2, TypesOK(S2, R2, A2), Advances(S, R, S2, R2)
  PROVE  \A a \in Proc, n \in Nat : Spoke(S, R, a, n) => Spoke(S2, R2, a, n)
<1> SUFFICES ASSUME NEW a \in Proc, NEW n \in Nat, Spoke(S, R, a, n)
             PROVE  Spoke(S2, R2, a, n)
  OBVIOUS
<1>1. S[a] \in Int /\ S2[a] \in Int
  BY RoundIntegers
<1>2. S2[a] > S[a] \/ (S2[a] = S[a] /\ (R[a].max_rv # NoRV => R2[a].max_rv # NoRV))
  BY DEF Advances
<1> QED BY <1>1, <1>2 DEF Spoke

\* Who has answered says nothing new, and nobody else says for it what it did not.
LEMMA SpokenIsSpoken ==
  ASSUME NEW S, NEW R, NEW A, TypesOK(S, R, A), Words(S, R, A),
         NEW S2, NEW R2, NEW A2, TypesOK(S2, R2, A2), NewWords(S, R, A, S2, R2, A2),
         NEW a \in Proc, NEW n \in Nat, Spoke(S, R, a, n)
  PROVE  /\ \A q \in Proc, v \in Uid :
              Says(S2, R2, A2, a, n, q, v) => Says(S, R, A, a, n, q, v)
         /\ \A b \in Proc, v \in Uid :
              Says(S2, R2, A2, b, n, a, v) => \E c \in Proc : Says(S, R, A, c, n, a, v)
<1>1. ~(S[a] = n /\ R[a].max_rv = NoRV)
  <2>1. S[a] \in Int
    BY RoundIntegers
  <2> QED BY <2>1 DEF Spoke
<1> QED BY <1>1 DEF NewWords

\* Words are kept.
LEMMA WordsFrame ==
  ASSUME NEW S, NEW R, NEW A, TypesOK(S, R, A), Words(S, R, A),
         NEW S2, NEW R2, NEW A2, TypesOK(S2, R2, A2), Advances(S, R, S2, R2),
         NewWords(S, R, A, S2, R2, A2)
  PROVE  Words(S2, R2, A2)
<1> SUFFICES ASSUME NEW a \in Proc, NEW q \in Proc, NEW n \in Nat, NEW v \in Uid,
                    Says(S2, R2, A2, a, n, q, v)
             PROVE  /\ a \in AliveReplicas /\ q \in AliveReplicas
                    /\ Spoke(S2, R2, a, n) /\ Spoke(S2, R2, q, n)
                    /\ \A r \in Proc, w \in Uid : Says(S2, R2, A2, a, n, r, w) => r = q /\ w = v
                    /\ \A b \in Proc, w \in Uid : Says(S2, R2, A2, b, n, q, w) => w = v
                    /\ \A r \in Proc, w \in Uid : Says(S2, R2, A2, q, n, r, w) => r = q
  BY DEF Words
<1> DEFINE Old(b, r, w) == Says(S, R, A, b, n, r, w)
           Now(b, r, w) == Says(S2, R2, A2, b, n, r, w)
           New(b, r, w) == /\ b \in AliveReplicas /\ S[b] = n /\ R[b].max_rv = NoRV
                           /\ S2[b] = n /\ R2[b].max_rv = FastV(r, w)
                           /\ r = b \/ \E c \in Proc : Old(c, r, w)
<1>1. \A b, r \in Proc, w \in Uid : Now(b, r, w) => Old(b, r, w) \/ New(b, r, w)
  BY DEF NewWords
<1>2. \A b \in Proc : Spoke(S, R, b, n) =>
        /\ Spoke(S2, R2, b, n)
        /\ \A r \in Proc, w \in Uid : ~New(b, r, w)
  <2>1. \A b \in Proc : S[b] \in Int
    BY RoundIntegers
  <2> QED BY <2>1, SpokeStable DEF Spoke
<1>3. \A b, r \in Proc, w \in Uid : Old(b, r, w) =>
        /\ b \in AliveReplicas /\ r \in AliveReplicas /\ Spoke(S, R, b, n) /\ Spoke(S, R, r, n)
        /\ \A s \in Proc, u \in Uid : Old(b, s, u) => s = r /\ u = w
        /\ \A c \in Proc, u \in Uid : Old(c, r, u) => u = w
        /\ \A s \in Proc, u \in Uid : Old(r, s, u) => s = r
  BY DEF Words
<1>4. \A b, r \in Proc, w \in Uid : New(b, r, w) => Spoke(S2, R2, b, n)
  BY FastVIs DEF Spoke
<1>5. \A b, r, s \in Proc, w, u \in Uid : New(b, r, w) /\ New(b, s, u) => r = s /\ w = u
  <2> HIDE DEF New
  <2> SUFFICES ASSUME NEW b \in Proc, NEW r \in Proc, NEW s \in Proc, NEW w \in Uid, NEW u \in Uid,
                      New(b, r, w), New(b, s, u)
               PROVE  r = s /\ w = u
    OBVIOUS
  <2>1. FastV(r, w) = FastV(s, u)
    BY DEF New
  <2> QED BY <2>1, FastVIs
<1>6. Now(a, q, v)
  OBVIOUS
<1> HIDE DEF Now, Old
<1>7. CASE Old(a, q, v)
  <2>1. Spoke(S, R, a, n) /\ Spoke(S, R, q, n)
    BY <1>3, <1>7
  <2>2. \A r \in Proc, w \in Uid : Now(a, r, w) => r = q /\ w = v
    <3>1. \A r \in Proc, w \in Uid : Now(a, r, w) => Old(a, r, w)
      BY <1>1, <1>2, <2>1
    <3> QED BY <1>3, <1>7, <3>1
  <2>3. \A b \in Proc, w \in Uid : Now(b, q, w) => w = v
    <3> SUFFICES ASSUME NEW b \in Proc, NEW w \in Uid, Now(b, q, w) PROVE w = v
      OBVIOUS
    <3>1. CASE Old(b, q, w)
      BY <1>3, <1>7, <3>1
    <3>2. CASE New(b, q, w)
      <4>1. b # q
        BY <1>2, <2>1, <3>2
      <4>2. PICK c \in Proc : Old(c, q, w)
        BY <3>2, <4>1
      <4> QED BY <1>3, <1>7, <4>2
    <3> QED BY <1>1, <3>1, <3>2
  <2>4. \A r \in Proc, w \in Uid : Now(q, r, w) => r = q
    <3>1. \A r \in Proc, w \in Uid : Now(q, r, w) => Old(q, r, w)
      BY <1>1, <1>2, <2>1
    <3> QED BY <1>3, <1>7, <3>1
  <2>5. a \in AliveReplicas /\ q \in AliveReplicas /\ Spoke(S2, R2, a, n) /\ Spoke(S2, R2, q, n)
    BY <1>2, <1>3, <1>7, <2>1
  <2> QED BY <2>2, <2>3, <2>4, <2>5 DEF Now
<1>8. CASE New(a, q, v)
  <2>1. ~Spoke(S, R, a, n)
    BY <1>2, <1>8
  <2>2. \A r \in Proc, w \in Uid : Now(a, r, w) => r = q /\ w = v
    <3>1. \A r \in Proc, w \in Uid : Now(a, r, w) => New(a, r, w)
      <4>1. \A r \in Proc, w \in Uid : ~Old(a, r, w)
        BY <1>3, <2>1
      <4> HIDE DEF New
      <4> QED BY <1>1, <4>1
    <3> HIDE DEF New
    <3> QED BY <1>5, <1>8, <3>1
  <2>3. CASE q = a
    <3>1. a \in AliveReplicas /\ Spoke(S2, R2, a, n)
      BY <1>4, <1>8
    <3>2. \A b \in Proc, w \in Uid : Now(b, a, w) => w = v
      <4> SUFFICES ASSUME NEW b \in Proc, NEW w \in Uid, Now(b, a, w) PROVE w = v
        OBVIOUS
      <4>1. \A c \in Proc : ~Old(c, a, w)
        BY <1>3, <2>1
      <4>2. New(b, a, w)
        BY <1>1, <4>1
      <4>3. b = a
        BY <4>1, <4>2
      <4> QED BY <2>2, <4>3
    <3> QED BY <2>2, <2>3, <3>1, <3>2 DEF Now
  <2>4. CASE q # a
    <3>1. PICK c \in Proc : Old(c, q, v)
      BY <1>8, <2>4
    <3>2. q \in AliveReplicas /\ Spoke(S, R, q, n) /\ Spoke(S2, R2, q, n)
      BY <1>2, <1>3, <3>1
    <3>3. a \in AliveReplicas /\ Spoke(S2, R2, a, n)
      BY <1>4, <1>8
    <3>4. \A b \in Proc, w \in Uid : Now(b, q, w) => w = v
      <4> SUFFICES ASSUME NEW b \in Proc, NEW w \in Uid, Now(b, q, w) PROVE w = v
        OBVIOUS
      <4>1. CASE Old(b, q, w)
        BY <1>3, <3>1, <4>1
      <4>2. CASE New(b, q, w)
        <5>1. b # q
          BY <1>2, <3>2, <4>2
        <5>2. PICK e \in Proc : Old(e, q, w)
          BY <4>2, <5>1
        <5> QED BY <1>3, <3>1, <5>2
      <4> QED BY <1>1, <4>1, <4>2
    <3>5. \A r \in Proc, w \in Uid : Now(q, r, w) => r = q
      <4>1. \A r \in Proc, w \in Uid : Now(q, r, w) => Old(q, r, w)
        BY <1>1, <1>2, <3>2
      <4> QED BY <1>3, <3>1, <4>1
    <3> QED BY <2>2, <3>2, <3>3, <3>4, <3>5 DEF Now
  <2> QED BY <2>3, <2>4
<1> QED BY <1>1, <1>6, <1>7, <1>8

\* Whoever is for another proposal has no vote left for p's.
LEMMA AgainstIsNoVote ==
  ASSUME NEW S, NEW R, NEW A, Words(S, R, A),
         NEW a \in Proc, NEW n \in Nat, NEW p \in Proc, Against(S, R, A, a, n, p)
  PROVE  NoFastVote(S, R, A, a, n, p)
<1>1. CASE \E q \in Proc, v \in Uid : Says(S, R, A, a, n, q, v) /\ q # p
  BY <1>1 DEF Words, NoFastVote
<1>2. CASE a # p /\ \E b \in Proc, v \in Uid : Says(S, R, A, b, n, a, v)
  <2>1. PICK b \in Proc, v \in Uid : Says(S, R, A, b, n, a, v)
    BY <1>2
  <2>2. Spoke(S, R, a, n) /\ \A r \in Proc, w \in Uid : Says(S, R, A, a, n, r, w) => r = a
    BY <2>1 DEF Words
  <2> QED BY <1>2, <2>2 DEF NoFastVote
<1> QED BY <1>1, <1>2 DEF Against

\* What nobody can say stays unsaid.
LEMMA FastStable ==
  ASSUME NEW S, NEW R, NEW A, TypesOK(S, R, A), Words(S, R, A),
         NEW S2, NEW R2, NEW A2, TypesOK(S2, R2, A2), Advances(S, R, S2, R2),
         NewWords(S, R, A, S2, R2, A2)
  PROVE  \A n \in Nat, p \in Proc :
           /\ \A a \in Proc :
                /\ NoFastVote(S, R, A, a, n, p) => NoFastVote(S2, R2, A2, a, n, p)
                /\ FastKept(S, R, A, a, n, p) => FastKept(S2, R2, A2, a, n, p)
           /\ \A v \in Uid : Tied(S, R, A, n, p, v) => Tied(S2, R2, A2, n, p, v)
           /\ CannotFastDecide(S, R, n, p) => CannotFastDecide(S2, R2, n, p)
           /\ FastBlocked(S, R, A, n, p) => FastBlocked(S2, R2, A2, n, p)
<1> SUFFICES ASSUME NEW n \in Nat, NEW p \in Proc
             PROVE  /\ \A a \in Proc :
                         /\ NoFastVote(S, R, A, a, n, p) => NoFastVote(S2, R2, A2, a, n, p)
                         /\ FastKept(S, R, A, a, n, p) => FastKept(S2, R2, A2, a, n, p)
                    /\ \A v \in Uid : Tied(S, R, A, n, p, v) => Tied(S2, R2, A2, n, p, v)
                    /\ CannotFastDecide(S, R, n, p) => CannotFastDecide(S2, R2, n, p)
                    /\ FastBlocked(S, R, A, n, p) => FastBlocked(S2, R2, A2, n, p)
  OBVIOUS
<1>1. \A a \in Proc : Spoke(S, R, a, n) =>
        /\ Spoke(S2, R2, a, n)
        /\ \A q \in Proc, v \in Uid :
              Says(S2, R2, A2, a, n, q, v) => Says(S, R, A, a, n, q, v)
        /\ \A b \in Proc, v \in Uid :
              Says(S2, R2, A2, b, n, a, v) => \E c \in Proc : Says(S, R, A, c, n, a, v)
  BY SpokeStable, SpokenIsSpoken
<1>2. \A a \in Proc : NoFastVote(S, R, A, a, n, p) => NoFastVote(S2, R2, A2, a, n, p)
  BY <1>1 DEF NoFastVote
<1>3. \A a \in Proc : FastKept(S, R, A, a, n, p) => FastKept(S2, R2, A2, a, n, p)
  BY <1>1 DEF FastKept, Against
<1>4. \A v \in Uid : Tied(S, R, A, n, p, v) => Tied(S2, R2, A2, n, p, v)
  BY <1>1 DEF Tied
<1>5. CannotFastDecide(S, R, n, p) => CannotFastDecide(S2, R2, n, p)
  <2>1. /\ S[p] \in Int /\ S2[p] \in Int /\ R[p].round \in Int /\ R2[p].round \in Int
        /\ Ar(R, p) \in Int /\ Ar(R2, p) \in Int /\ p \in Int /\ None \in Int
        /\ None <= Ar(R, p)
    BY RoundIntegers, ProcIsNat DEF OptProc
  <2>2. S2[p] > S[p] \/ ( S2[p] = S[p] /\ R2[p].round >= R[p].round /\ Ar(R2, p) >= Ar(R, p) )
    BY DEF Advances
  <2> HIDE DEF None
  <2> QED BY <2>1, <2>2 DEF CannotFastDecide
<1>6. FastBlocked(S, R, A, n, p) => FastBlocked(S2, R2, A2, n, p)
  <2> DEFINE P == {a \in AliveReplicas : NoFastVote(S, R, A, a, n, p)}
             Q == {a \in AliveReplicas : NoFastVote(S2, R2, A2, a, n, p)}
  <2>1. P \subseteq Q /\ Q \subseteq Proc
    BY <1>2, ReplicasAreProcs
  <2>2. Cardinality(P) + EPaxosQuorum > NbReplicas => Cardinality(Q) + EPaxosQuorum > NbReplicas
    <3> HIDE DEF P, Q
    <3>1. Cardinality(P) \in Nat /\ Cardinality(Q) \in Nat /\ Cardinality(P) <= Cardinality(Q)
      BY <2>1, CountGrows
    <3> QED BY <3>1, QuorumBounds, Finite
  <2> QED BY <2>2 DEF FastBlocked
<1> QED BY <1>2, <1>3, <1>4, <1>5, <1>6

\* A step that asks for nothing and decides nothing keeps the invariant.
LEMMA FastFrame ==
  ASSUME NEW S, NEW R, NEW A, NEW acc, NEW dec, Base(S, R, A, acc, dec), Fast(S, R, A, acc, dec),
         NEW S2, NEW R2, NEW A2, TypesOK(S2, R2, A2), Frame(S, R, A, S2, R2, A2),
         NewWords(S, R, A, S2, R2, A2), Bounded(R2, A2), Answers(R2)
  PROVE  Fast(S2, R2, A2, acc, dec)
<1>1. /\ TypesOK(S, R, A) /\ HistoryOK(acc, dec) /\ Advances(S, R, S2, R2)
      /\ Words(S, R, A) /\ FastDecided(S, R, A, dec) /\ FastAsked(S, R, A, acc)
      /\ FastAlone(acc, dec)
  BY DEF Base, Fast, Frame
<1>2. Words(S2, R2, A2)
  BY <1>1, WordsFrame
<1>3. /\ \A n \in Nat, a, p \in Proc :
           /\ NoFastVote(S, R, A, a, n, p) => NoFastVote(S2, R2, A2, a, n, p)
           /\ FastKept(S, R, A, a, n, p) => FastKept(S2, R2, A2, a, n, p)
      /\ \A n \in Nat, p \in Proc :
           /\ \A v \in Uid : Tied(S, R, A, n, p, v) => Tied(S2, R2, A2, n, p, v)
           /\ CannotFastDecide(S, R, n, p) => CannotFastDecide(S2, R2, n, p)
           /\ FastBlocked(S, R, A, n, p) => FastBlocked(S2, R2, A2, n, p)
  BY <1>1, FastStable
<1>4. FastDecided(S2, R2, A2, dec)
  <2> SUFFICES ASSUME NEW d \in dec, d.fast
               PROVE  /\ Mode = "EPaxos" /\ S2[d.round] > d.slot
                      /\ \A e, k \in OptProc :
                           Vow(S2, R2, A2, d.round, d.slot, e, k) => e <= d.round
                      /\ Tied(S2, R2, A2, d.slot, d.round, d.v)
                      /\ Cardinality({a \in AliveReplicas :
                           FastKept(S2, R2, A2, a, d.slot, d.round)}) >= EPaxosQuorum
    BY DEF FastDecided
  <2> DEFINE n == d.slot
             p == d.round
             P == {a \in AliveReplicas : FastKept(S, R, A, a, n, p)}
             Q == {a \in AliveReplicas : FastKept(S2, R2, A2, a, n, p)}
  <2>1. n \in Nat /\ p \in Proc /\ d.v \in Uid
    BY <1>1 DEF HistoryOK
  <2>2. /\ Mode = "EPaxos" /\ S[p] > n
        /\ \A e, k \in OptProc : Vow(S, R, A, p, n, e, k) => e <= p
        /\ Tied(S, R, A, n, p, d.v) /\ Cardinality(P) >= EPaxosQuorum
    BY <1>1 DEF FastDecided
  <2> HIDE DEF n, p
  <2>3. S[p] \in Int /\ S2[p] \in Int /\ S2[p] >= S[p] /\ n \in Int
    <3>1. S[p] \in Int /\ S2[p] \in Int /\ n \in Int
      BY <1>1, <2>1, RoundIntegers
    <3>2. S2[p] > S[p] \/ S2[p] = S[p]
      BY <1>1, <2>1 DEF Advances
    <3> QED BY <3>1, <3>2
  <2>4. S2[p] > n
    BY <2>2, <2>3
  <2>5. \A e, k \in OptProc : Vow(S2, R2, A2, p, n, e, k) => e <= p
    <3> SUFFICES ASSUME NEW e \in OptProc, NEW k \in OptProc, Vow(S2, R2, A2, p, n, e, k)
                 PROVE  e <= p
      OBVIOUS
    <3>1. S[p] # n
      BY <2>2, <2>3
    <3>2. \E j \in OptProc : Vow(S, R, A, p, n, e, j)
      BY <2>1, <3>1 DEF Frame, NewVows
    <3> QED BY <2>2, <3>2
  <2>6. Tied(S2, R2, A2, n, p, d.v)
    BY <1>3, <2>1, <2>2
  <2>7. Cardinality(Q) >= EPaxosQuorum
    <3>1. P \subseteq Q /\ Q \subseteq Proc
      BY <1>3, <2>1, ReplicasAreProcs
    <3> HIDE DEF P, Q
    <3>2. Cardinality(P) \in Nat /\ Cardinality(Q) \in Nat /\ Cardinality(P) <= Cardinality(Q)
      BY <3>1, CountGrows
    <3> QED BY <2>2, <3>2, QuorumBounds
  <2> QED BY <2>2, <2>4, <2>5, <2>6, <2>7 DEF n, p
<1>5. FastAsked(S2, R2, A2, acc)
  <2> SUFFICES ASSUME Mode = "EPaxos", NEW x \in acc, NEW p \in Proc
               PROVE  \/ CannotFastDecide(S2, R2, x.slot, p) \/ FastBlocked(S2, R2, A2, x.slot, p)
                      \/ Tied(S2, R2, A2, x.slot, p, x.v)
    BY DEF FastAsked, FastAskedAt
  <2> DEFINE n == x.slot
  <2>1. n \in Nat /\ x.v \in Uid
    BY <1>1 DEF HistoryOK
  <2>2. CannotFastDecide(S, R, n, p) \/ FastBlocked(S, R, A, n, p) \/ Tied(S, R, A, n, p, x.v)
    BY <1>1 DEF FastAsked, FastAskedAt
  <2> HIDE DEF n
  <2> QED BY <1>3, <2>1, <2>2 DEF n
<1> QED BY <1>1, <1>2, <1>4, <1>5 DEF Fast

-----------------------------------------------------------------------------
(* Small steps: the round state of one process *)

\* Both parts of the invariant.
Good(S, R, A, acc, dec) == Base(S, R, A, acc, dec) /\ Fast(S, R, A, acc, dec)

\* p's round state goes on within its slot: what it newly answers and counts it
\* has heard.
LEMMA FastRound ==
  ASSUME NEW S, NEW R, NEW A, NEW acc, NEW dec, Good(S, R, A, acc, dec),
         NEW p \in Proc, NEW r \in Rounds,
         LET R2 == [R EXCEPT ![p] = r]
         IN  TypesOK(S, R2, A) /\ Frame(S, R, A, S, R2, A),
         \/ r.max_rv = R[p].max_rv
         \/ r.max_rv.proposer = None
         \/ /\ R[p].max_rv = NoRV /\ p \in AliveReplicas
            /\ r.max_rv.proposer = p \/
                 \A q \in Proc, v \in Uid : r.max_rv = FastV(q, v) =>
                   \E b \in Proc : Says(S, R, A, b, S[p], q, v),
         \A x \in r.fast_answers :
           x \in R[p].fast_answers \/ Says(S, R, A, x.src, S[p], x.proposer, x.v),
         r.max_rv.proposer <= r.round,
         \A x \in r.fast_answers : x.proposer <= p,
         r.fast_answers # {} =>
           /\ r.round >= p
           /\ r.round = p => \A x \in r.fast_answers : x.src \in r.prepared_set
  PROVE  Fast(S, [R EXCEPT ![p] = r], A, acc, dec)
<1> DEFINE R2 == [R EXCEPT ![p] = r]
<1>1. /\ Base(S, R, A, acc, dec) /\ Fast(S, R, A, acc, dec) /\ Bounded(R, A) /\ Answers(R)
      /\ TypesOK(S, R, A) /\ TypesOK(S, R2, A) /\ Frame(S, R, A, S, R2, A)
  BY DEF Good, Base, Fast
<1>2. R2[p] = r /\ \A c \in Proc : c # p => R2[c] = R[c]
  BY <1>1 DEF TypesOK
<1> HIDE DEF R2
<1>3. Bounded(R2, A) /\ Answers(R2)
  <2>1. ASSUME NEW c \in Proc
        PROVE  /\ R2[c].max_rv.proposer <= R2[c].round
               /\ \A x \in R2[c].fast_answers : x.proposer <= c
               /\ R2[c].fast_answers # {} =>
                    /\ R2[c].round >= c
                    /\ R2[c].round = c => \A x \in R2[c].fast_answers : x.src \in R2[c].prepared_set
    <3>1. CASE c = p
      BY <1>2, <3>1
    <3>2. CASE c # p
      BY <1>1, <1>2, <3>2 DEF Bounded, Answers
    <3> QED BY <3>1, <3>2
  <2> QED BY <1>1, <2>1 DEF Bounded, Answers
<1>4. NewWords(S, R, A, S, R2, A)
  <2> SUFFICES ASSUME NEW a \in Proc, NEW q \in Proc, NEW n \in Nat, NEW v \in Uid,
                      Says(S, R2, A, a, n, q, v)
               PROVE  \/ Says(S, R, A, a, n, q, v)
                      \/ /\ a \in AliveReplicas /\ S[a] = n /\ R[a].max_rv = NoRV
                         /\ R2[a].max_rv = FastV(q, v)
                         /\ q = a \/ \E b \in Proc : Says(S, R, A, b, n, q, v)
    BY DEF NewWords
  <2>1. CASE S[a] = n /\ R2[a].max_rv = FastV(q, v)
    <3>1. CASE a = p
      <4>1. r.max_rv = FastV(q, v) /\ r.max_rv.proposer = q /\ q # None
        BY <1>2, <2>1, <3>1, FastVIs, ProcIsNat
      <4>2. CASE r.max_rv = R[p].max_rv
        BY <2>1, <3>1, <4>1, <4>2 DEF Says
      <4>3. CASE /\ R[p].max_rv = NoRV /\ p \in AliveReplicas
                 /\ r.max_rv.proposer = p \/
                      \A q1 \in Proc, v1 \in Uid : r.max_rv = FastV(q1, v1) =>
                        \E b \in Proc : Says(S, R, A, b, S[p], q1, v1)
        BY <1>2, <2>1, <3>1, <4>1, <4>3
      <4> QED BY <4>1, <4>2, <4>3
    <3>2. CASE a # p
      BY <1>2, <2>1, <3>2 DEF Says
    <3> QED BY <3>1, <3>2
  <2>2. CASE \E m \in A : m.type = "Prepare" /\ m.src = a /\ m.slot = n /\ m.rv = FastV(q, v)
    BY <2>2 DEF Says
  <2>3. CASE \E c \in Proc : /\ S[c] = n
                             /\ [src |-> a, proposer |-> q, v |-> v] \in R2[c].fast_answers
    <3>1. PICK c \in Proc : /\ S[c] = n
                            /\ [src |-> a, proposer |-> q, v |-> v] \in R2[c].fast_answers
      BY <2>3
    <3>2. CASE c = p
      <4> DEFINE x == [src |-> a, proposer |-> q, v |-> v]
      <4>1. x \in r.fast_answers /\ x.src = a /\ x.proposer = q /\ x.v = v
        BY <1>2, <3>1, <3>2
      <4>2. CASE x \in R[p].fast_answers
        BY <3>1, <3>2, <4>2 DEF Says
      <4> HIDE DEF x
      <4>3. CASE Says(S, R, A, x.src, S[p], x.proposer, x.v)
        BY <3>1, <3>2, <4>1, <4>3
      <4> QED BY <4>1, <4>2, <4>3
    <3>3. CASE c # p
      BY <1>2, <3>1, <3>3 DEF Says
    <3> QED BY <3>2, <3>3
  <2> QED BY <2>1, <2>2, <2>3 DEF Says
<1>5. Fast(S, R2, A, acc, dec)
  BY <1>1, <1>3, <1>4, FastFrame
<1> QED BY <1>5 DEF R2

\* A step of one round state that says nothing new in the slot keeps the whole
\* invariant.
LEMMA RoundGood ==
  ASSUME NEW S, NEW R, NEW A, NEW acc, NEW dec, Good(S, R, A, acc, dec),
         NEW p \in Proc, NEW r \in Rounds,
         LET R2 == [R EXCEPT ![p] = r]
         IN  Base(S, R2, A, acc, dec) /\ Frame(S, R, A, S, R2, A),
         \/ r.max_rv = R[p].max_rv
         \/ r.max_rv.proposer = None
         \/ /\ R[p].max_rv = NoRV /\ p \in AliveReplicas
            /\ r.max_rv.proposer = p \/
                 \A q \in Proc, v \in Uid : r.max_rv = FastV(q, v) =>
                   \E b \in Proc : Says(S, R, A, b, S[p], q, v),
         \A x \in r.fast_answers :
           x \in R[p].fast_answers \/ Says(S, R, A, x.src, S[p], x.proposer, x.v),
         r.max_rv.proposer <= r.round,
         \A x \in r.fast_answers : x.proposer <= p,
         r.fast_answers # {} =>
           /\ r.round >= p
           /\ r.round = p => \A x \in r.fast_answers : x.src \in r.prepared_set
  PROVE  Good(S, [R EXCEPT ![p] = r], A, acc, dec)
<1> DEFINE R2 == [R EXCEPT ![p] = r]
<1>1. Base(S, R2, A, acc, dec) /\ Frame(S, R, A, S, R2, A) /\ TypesOK(S, R2, A)
  BY DEF Base
<1>2. Fast(S, R2, A, acc, dec)
  BY <1>1, FastRound
<1> HIDE DEF R2
<1>3. Good(S, R2, A, acc, dec)
  BY <1>1, <1>2 DEF Good
<1> QED BY <1>3 DEF R2

\* What is known of the round of a process.
LEMMA GoodRound ==
  ASSUME NEW S, NEW R, NEW A, NEW acc, NEW dec, Good(S, R, A, acc, dec), NEW p \in Proc
  PROVE  LET o == R[p]
         IN  /\ o \in Rounds /\ o.round \in Int /\ p \in Int /\ o.round \in OptProc
             /\ o.max_rv.proposer \in Int /\ o.max_rv.proposer <= o.round
             /\ \A x \in o.fast_answers : x.proposer <= p
             /\ o.fast_answers # {} =>
                  /\ o.round >= p
                  /\ o.round = p => \A x \in o.fast_answers : x.src \in o.prepared_set
<1>1. TypesOK(S, R, A) /\ Bounded(R, A) /\ Answers(R)
  BY DEF Good, Base, Fast
<1>2. /\ R[p] \in Rounds /\ R[p].round \in Int /\ p \in Int /\ R[p].round \in OptProc
      /\ R[p].max_rv \in Rvs \cup {NoRV}
  BY <1>1, RoundIntegers, ProcIsNat
<1>3. R[p].max_rv.proposer \in OptProc
  BY <1>2, RvsAreValues DEF NoRV, OptProc
<1> QED BY <1>1, <1>2, <1>3, ProcIsNat DEF Bounded, Answers

\* p goes to a higher round.
LEMMA GotoGood ==
  ASSUME NEW S, NEW R, NEW A, NEW acc, NEW dec, Good(S, R, A, acc, dec),
         NEW p \in Proc, NEW b \in Proc, b > R[p].round
  PROVE  Good(S, [R EXCEPT ![p] = GotoRound(R[p], b)], A, acc, dec)
<1> DEFINE o == R[p]
           r == GotoRound(o, b)
<1>1. /\ o \in Rounds /\ o.round \in Int /\ p \in Int
      /\ o.max_rv.proposer \in Int /\ o.max_rv.proposer <= o.round
      /\ \A x \in o.fast_answers : x.proposer <= p
      /\ o.fast_answers # {} => o.round >= p
  BY GoodRound
<1>2. LET R2 == [R EXCEPT ![p] = r] IN Base(S, R2, A, acc, dec) /\ Frame(S, R, A, S, R2, A)
  BY GotoKeeps DEF Good
<1>3. b \in Int /\ b \in OptProc
  BY ProcIsNat DEF OptProc
<1>4. b > o.round /\ o = R[p]
  OBVIOUS
<1> HIDE DEF o
<1>5. r \in Rounds /\ r.round = b /\ r.max_rv = o.max_rv /\ r.fast_answers = o.fast_answers
  BY <1>1, <1>3, GotoRoundType
<1> HIDE DEF r
<1>6. /\ r.max_rv.proposer <= r.round
      /\ r.fast_answers # {} => r.round > p /\ r.round >= p /\ r.round # p
  BY <1>1, <1>3, <1>4, <1>5
<1>7. Good(S, [R EXCEPT ![p] = r], A, acc, dec)
  BY <1>1, <1>2, <1>4, <1>5, <1>6, RoundGood
<1> QED BY <1>7 DEF r, o

\* p takes its first value in a slot, one it has heard of or its own.
LEMMA PromptGood ==
  ASSUME NEW S, NEW R, NEW A, NEW acc, NEW dec, Good(S, R, A, acc, dec),
         NEW p \in AliveReplicas, R[p].max_rv = NoRV, NEW rv \in Rvs,
         \/ /\ \E v \in Uid : rv = OwnV(p, v)
            /\ R[p].round = p
         \/ \E m \in A : /\ m.type = "Prepare" /\ m.slot = S[p] /\ m.round = R[p].round
                         /\ m.rv = rv
  PROVE  Good(S, [R EXCEPT ![p] = PaxosProposeV(R[p], p, rv)], A, acc, dec)
<1> DEFINE o == R[p]
           r == ReceivePromise(o, p, p, rv)
<1>1. p \in Proc
  BY ReplicasAreProcs
<1>2. /\ o \in Rounds /\ o.round \in Int /\ p \in Int
      /\ o.max_rv.proposer \in Int /\ o.max_rv.proposer <= o.round
      /\ \A x \in o.fast_answers : x.proposer <= p
      /\ o.fast_answers # {} =>
           /\ o.round >= p
           /\ o.round = p => \A x \in o.fast_answers : x.src \in o.prepared_set
  BY <1>1, GoodRound
<1>3. /\ TypesOK(S, R, A) /\ PreparesOK(A, acc) /\ Bounded(R, A)
      /\ RoundsOK(S, R, acc)
  BY DEF Good, Base, Fast, MessagesOK
<1>4. /\ rv.accept_round <= o.round
      /\ rv.accept_round # None => Asked(acc, S[p], rv.accept_round, rv.v)
      /\ rv.proposer <= o.round
      /\ rv.proposer = p \/ \A q \in Proc, v \in Uid : rv = FastV(q, v) =>
                              \E b \in Proc : Says(S, R, A, b, S[p], q, v)
  <2>1. CASE /\ \E v \in Uid : rv = OwnV(p, v)
             /\ R[p].round = p
    <3>1. PICK v \in Uid : rv = OwnV(p, v)
      BY <2>1
    <3>2. /\ rv.accept_round = None /\ (rv.proposer = p \/ rv.proposer = None)
          /\ rv.proposer # p => \A q \in Proc, w \in Uid : rv # FastV(q, w)
      <4>1. rv.proposer = None => \A q \in Proc, w \in Uid : rv # FastV(q, w)
        BY FastVIs, ProcIsNat
      <4> QED BY <1>1, <3>1, <4>1, OwnVType DEF OwnV, FastV, PaxosV
    <3>3. None <= p /\ p <= p
      <4>1. p \in OptProc /\ p \in Int
        BY <1>1, ProcIsNat DEF OptProc
      <4> QED BY <4>1, ProcIsNat
    <3> QED BY <2>1, <3>2, <3>3
  <2>2. CASE \E m \in A : /\ m.type = "Prepare" /\ m.slot = S[p] /\ m.round = R[p].round
                          /\ m.rv = rv
    <3>1. PICK m \in A : /\ m.type = "Prepare" /\ m.slot = S[p] /\ m.round = R[p].round
                         /\ m.rv = rv
      BY <2>2
    <3>2. m.src \in Proc
      BY <1>3, <3>1, MessageKinds DEF TypesOK, PrepareMsg
    <3>3. \A q \in Proc, v \in Uid : rv = FastV(q, v) => Says(S, R, A, m.src, S[p], q, v)
      BY <3>1 DEF Says
    <3>4. /\ rv.accept_round < o.round
          /\ rv.accept_round # None => Asked(acc, S[p], rv.accept_round, rv.v)
          /\ rv.proposer <= o.round
      BY <1>3, <3>1 DEF PreparesOK, Bounded
    <3>5. rv.accept_round \in Int
      BY RvsAreValues, ProcIsNat
    <3> QED BY <1>2, <3>2, <3>3, <3>4, <3>5
  <2> QED BY <2>1, <2>2
<1>5. LET R2 == [R EXCEPT ![p] = r] IN Base(S, R2, A, acc, dec) /\ Frame(S, R, A, S, R2, A)
  BY <1>4, PromptKeeps DEF Good, PaxosProposeV
<1>6. o = R[p] /\ o.max_rv = NoRV
  OBVIOUS
<1> HIDE DEF o
<1>7. /\ r \in Rounds /\ r.round = o.round /\ r.max_rv = rv /\ r.fast_answers = o.fast_answers
      /\ r.prepared_set = Counting(o.prepared_set, p, p)
  <2>1. o \in Rounds /\ p \in Proc
    BY <1>1, <1>2
  <2>2. o.max_rv = NoRV
    BY <1>6
  <2> QED BY <2>1, <2>2, ReceivePromiseType
<1>8. o.prepared_set \subseteq r.prepared_set
  BY <1>7 DEF Counting
<1> HIDE DEF r
<1>9. Good(S, [R EXCEPT ![p] = r], A, acc, dec)
  BY <1>1, <1>2, <1>4, <1>5, <1>6, <1>7, <1>8, RoundGood
<1> QED BY <1>9 DEF r, o, PaxosProposeV

\* p counts a promise of its round.
LEMMA PromiseGood ==
  ASSUME NEW S, NEW R, NEW A, NEW acc, NEW dec, Good(S, R, A, acc, dec),
         NEW p \in AliveReplicas, R[p].max_rv # NoRV, NEW m \in A, m.type = "Prepare",
         m.slot = S[p], m.round = R[p].round
  PROVE  Good(S, [R EXCEPT ![p] = ReceivePromise(R[p], p, m.src, m.rv)], A, acc, dec)
<1> DEFINE o == R[p]
           rv == m.rv
           src == m.src
           r == ReceivePromise(o, p, src, rv)
<1>1. p \in Proc
  BY ReplicasAreProcs
<1>2. /\ o \in Rounds /\ o.round \in Int /\ p \in Int
      /\ o.max_rv.proposer \in Int /\ o.max_rv.proposer <= o.round
      /\ \A x \in o.fast_answers : x.proposer <= p
      /\ o.fast_answers # {} =>
           /\ o.round >= p
           /\ o.round = p => \A x \in o.fast_answers : x.src \in o.prepared_set
  BY <1>1, GoodRound
<1>3. TypesOK(S, R, A)
  BY DEF Good, Base
<1>4. src \in Proc /\ rv \in Rvs
  BY <1>3, MessageKinds DEF TypesOK, PrepareMsg
<1>5. LET R2 == [R EXCEPT ![p] = r] IN Base(S, R2, A, acc, dec) /\ Frame(S, R, A, S, R2, A)
  BY PromiseKeeps DEF Good
<1>6. o = R[p] /\ o.max_rv # NoRV
  OBVIOUS
<1> HIDE DEF o, rv, src
<1>7. /\ r \in Rounds /\ r.round = o.round /\ r.fast_answers = o.fast_answers
      /\ r.max_rv = IF o.max_rv.accept_round < rv.accept_round THEN rv ELSE o.max_rv
      /\ r.prepared_set = Counting(o.prepared_set, p, src)
  <2>1. o \in Rounds /\ p \in Proc /\ src \in Proc /\ rv \in Rvs
    BY <1>1, <1>2, <1>4
  <2>2. o.max_rv # NoRV
    BY <1>6
  <2> QED BY <2>1, <2>2, ReceivePromiseType
<1>8. o.prepared_set \subseteq r.prepared_set
  BY <1>7 DEF Counting
<1> HIDE DEF r
<1>9. r.max_rv = o.max_rv \/ r.max_rv.proposer = None
  <2>1. o.max_rv.accept_round \in Int /\ None <= o.max_rv.accept_round
    <3>1. o.max_rv.accept_round \in OptProc
      BY <1>2, <1>6, RvsAreValues DEF Rounds
    <3> QED BY <3>1, ProcIsNat
  <2>2. rv.accept_round \in Int /\ (rv.accept_round # None => rv.proposer = None)
    BY <1>4, RvsAreValues, ProcIsNat DEF FastVs, PaxosVs
  <2>3. None \in Int
    BY DEF None
  <2> QED BY <1>7, <2>1, <2>2, <2>3
<1>10. r.max_rv.proposer <= r.round
  <2>1. o.round \in OptProc
    BY <1>2 DEF Rounds, PaxosRoundStates
  <2>2. None <= o.round
    BY <2>1, ProcIsNat
  <2> QED BY <1>2, <1>7, <1>9, <2>2
<1>11. Good(S, [R EXCEPT ![p] = r], A, acc, dec)
  BY <1>1, <1>2, <1>5, <1>6, <1>7, <1>8, <1>9, <1>10, RoundGood
<1> QED BY <1>11 DEF r, o, rv, src

\* p votes as it is asked to, and counts the vote of who asks.
LEMMA VoteGood ==
  ASSUME NEW S, NEW R, NEW A, NEW acc, NEW dec, Good(S, R, A, acc, dec),
         NEW p \in AliveReplicas, NEW m \in A, m.type = "Accept",
         m.slot = S[p], m.round = R[p].round
  PROVE  Good(S, [R EXCEPT ![p] = ReceiveAccept(R[p], p, m.src, m.round, m.v)], A, acc, dec)
<1> DEFINE o == R[p]
           v == m.v
           b == m.round
           src == m.src
           r == ReceiveAccept(o, p, src, b, v)
<1>1. p \in Proc
  BY ReplicasAreProcs
<1>2. /\ o \in Rounds /\ o.round \in Int /\ p \in Int
      /\ o.max_rv.proposer \in Int /\ o.max_rv.proposer <= o.round
      /\ \A x \in o.fast_answers : x.proposer <= p
      /\ o.fast_answers # {} =>
           /\ o.round >= p
           /\ o.round = p => \A x \in o.fast_answers : x.src \in o.prepared_set
  BY <1>1, GoodRound
<1>3. TypesOK(S, R, A)
  BY DEF Good, Base
<1>4. src \in Proc /\ v \in Uid /\ b \in Proc
  BY <1>3, MessageKinds DEF TypesOK, AcceptMsg
<1>5. LET R2 == [R EXCEPT ![p] = r] IN Base(S, R2, A, acc, dec) /\ Frame(S, R, A, S, R2, A)
  BY VoteKeeps DEF Good
<1>6. o = R[p]
  OBVIOUS
<1> HIDE DEF o, v, b, src
<1>7. /\ r \in Rounds /\ r.round = o.round /\ r.fast_answers = o.fast_answers
      /\ r.max_rv = IF o.max_rv.accept_round < b THEN PaxosV(b, v) ELSE o.max_rv
      /\ r.prepared_set = o.prepared_set
  <2>1. o \in Rounds /\ p \in Proc /\ src \in Proc /\ b \in Proc /\ v \in Uid
    BY <1>1, <1>2, <1>4
  <2> QED BY <2>1, ReceiveAcceptType
<1> HIDE DEF r
<1>8. r.max_rv = o.max_rv \/ r.max_rv.proposer = None
  BY <1>7 DEF PaxosV
<1>9. r.max_rv.proposer <= r.round
  <2>1. o.round \in OptProc
    BY <1>2 DEF Rounds, PaxosRoundStates
  <2>2. None <= o.round
    BY <2>1, ProcIsNat
  <2> QED BY <1>2, <1>7, <1>8, <2>2
<1>10. Good(S, [R EXCEPT ![p] = r], A, acc, dec)
  BY <1>1, <1>2, <1>5, <1>6, <1>7, <1>8, <1>9, RoundGood
<1> QED BY <1>10 DEF r, o, v, b, src

\* p counts an answer it has heard, of a process that has promised.
LEMMA AnswerGood ==
  ASSUME NEW S, NEW R, NEW A, NEW acc, NEW dec, Good(S, R, A, acc, dec),
         NEW p \in Proc, NEW src \in Proc, NEW q \in Proc, NEW v \in Uid,
         R[p].round = p, src \in R[p].prepared_set, q <= p,
         Says(S, R, A, src, S[p], q, v)
  PROVE  Good(S, [R EXCEPT ![p] = EPaxosAnswered(R[p], src, q, v)], A, acc, dec)
<1> DEFINE o == R[p]
           x == [src |-> src, proposer |-> q, v |-> v]
           r == EPaxosAnswered(o, src, q, v)
<1>1. /\ o \in Rounds /\ o.round \in Int /\ p \in Int
      /\ o.max_rv.proposer \in Int /\ o.max_rv.proposer <= o.round
      /\ \A y \in o.fast_answers : y.proposer <= p
      /\ o.fast_answers # {} => \A y \in o.fast_answers : y.src \in o.prepared_set
  BY GoodRound
<1>2. LET R2 == [R EXCEPT ![p] = r] IN Base(S, R2, A, acc, dec) /\ Frame(S, R, A, S, R2, A)
  BY AnswerKeeps DEF Good
<1>3. o = R[p] /\ o.round = p /\ src \in o.prepared_set
  OBVIOUS
<1> HIDE DEF o
<1>4. /\ r \in Rounds /\ r.round = o.round /\ r.max_rv = o.max_rv
      /\ r.prepared_set = o.prepared_set /\ r.fast_answers = o.fast_answers \cup {x}
  BY <1>1, AnsweredType
<1> HIDE DEF r
<1>5. x.src = src /\ x.proposer = q /\ x.v = v
  OBVIOUS
<1> HIDE DEF x
<1>6. /\ \A y \in r.fast_answers :
           /\ y \in R[p].fast_answers \/ Says(S, R, A, y.src, S[p], y.proposer, y.v)
           /\ y.proposer <= p /\ y.src \in r.prepared_set
      /\ r.round >= p /\ r.max_rv.proposer <= r.round /\ r.max_rv = R[p].max_rv
  BY <1>1, <1>3, <1>4, <1>5
<1>7. Good(S, [R EXCEPT ![p] = r], A, acc, dec)
  BY <1>2, <1>4, <1>6, RoundGood
<1> QED BY <1>7 DEF r, o

-----------------------------------------------------------------------------
(* Small steps: messages and decisions *)

\* A message less does not matter.
LEMMA DropGood ==
  ASSUME NEW S, NEW R, NEW A, NEW acc, NEW dec, Good(S, R, A, acc, dec),
         NEW A2, A2 \subseteq A
  PROVE  Good(S, R, A2, acc, dec)
<1>1. /\ Base(S, R, A, acc, dec) /\ Fast(S, R, A, acc, dec) /\ Bounded(R, A) /\ Answers(R)
  BY DEF Good, Fast
<1>2. Base(S, R, A2, acc, dec) /\ Frame(S, R, A, S, R, A2) /\ TypesOK(S, R, A2)
  BY <1>1, DropKeeps DEF Base
<1>3. Bounded(R, A2)
  BY <1>1 DEF Bounded
<1>4. NewWords(S, R, A, S, R, A2)
  BY DEF NewWords, Says
<1> QED BY <1>1, <1>2, <1>3, <1>4, FastFrame DEF Good

\* What a replica says of its own round, it may say to others; anybody may
\* forward a command, and tell of a decision.
LEMMA SendGood ==
  ASSUME NEW S, NEW R, NEW A, NEW acc, NEW dec, Good(S, R, A, acc, dec), NEW m \in Known,
         NEW p \in Proc,
         m.type \in {"Accept", "Prepare"} => p \in AliveReplicas,
         m.type = "Accept" =>
           /\ m.src = p /\ m.slot = S[p] /\ m.round = R[p].round /\ Ar(R, p) >= R[p].round
           /\ Asked(acc, m.slot, m.round, m.v),
         m.type = "Prepare" =>
           /\ m.src = p /\ m.slot = S[p] /\ m.round = R[p].round /\ m.rv = R[p].max_rv
           /\ R[p].max_rv # NoRV /\ Ar(R, p) < R[p].round /\ ~IsMultiPaxos,
         m.type = "Commit" => \E d \in dec : d.slot = m.slot /\ d.v = m.v
  PROVE  Good(S, R, A \cup {m}, acc, dec)
<1> DEFINE A2 == A \cup {m}
<1>1. /\ Base(S, R, A, acc, dec) /\ Fast(S, R, A, acc, dec) /\ Bounded(R, A) /\ Answers(R)
  BY DEF Good, Fast
<1>2. Base(S, R, A2, acc, dec) /\ Frame(S, R, A, S, R, A2)
  <2>1. CASE p \in AliveReplicas
    BY <1>1, <2>1, SendFrame
  <2>2. CASE p \notin AliveReplicas
    <3>1. m.type \in {"ForwardRequest", "Commit"}
      BY <2>2, MessageKinds
    <3> QED BY <1>1, <3>1, TellKeeps
  <2> QED BY <2>1, <2>2
<1>3. TypesOK(S, R, A2)
  BY <1>2 DEF Base
<1>4. Bounded(R, A2)
  BY <1>1 DEF Bounded
<1>5. NewWords(S, R, A, S, R, A2)
  <2> SUFFICES ASSUME NEW a \in Proc, NEW q \in Proc, NEW n \in Nat, NEW v \in Uid,
                      Says(S, R, A2, a, n, q, v)
               PROVE  Says(S, R, A, a, n, q, v)
    BY DEF NewWords
  <2> QED BY DEF Says
<1> HIDE DEF A2
<1>6. Good(S, R, A2, acc, dec)
  BY <1>1, <1>2, <1>3, <1>4, <1>5, FastFrame DEF Good
<1> QED BY <1>6 DEF A2

\* Who leaves a slot forgets what it said and counted.
LEMMA LeavingSaysNothing ==
  ASSUME NEW S, NEW R, NEW A, S \in [Proc -> Nat], R \in [Proc -> Rounds], NEW p \in Proc
  PROVE  NewWords(S, R, A, [S EXCEPT ![p] = S[p] + 1], [R EXCEPT ![p] = ClearRound], A)
<1> DEFINE S2 == [S EXCEPT ![p] = S[p] + 1]
           R2 == [R EXCEPT ![p] = ClearRound]
<1>1. /\ R2[p] = ClearRound /\ \A c \in Proc : c # p => R2[c] = R[c]
      /\ \A c \in Proc : c # p => S2[c] = S[c]
      /\ ClearRound.max_rv = NoRV /\ ClearRound.fast_answers = {}
  BY DEF ClearRound, ClearPaxosRound
<1> HIDE DEF S2, R2
<1>2. NewWords(S, R, A, S2, R2, A)
  <2> SUFFICES ASSUME NEW a \in Proc, NEW q \in Proc, NEW n \in Nat, NEW v \in Uid,
                      Says(S2, R2, A, a, n, q, v)
               PROVE  Says(S, R, A, a, n, q, v)
    BY DEF NewWords
  <2>1. CASE S2[a] = n /\ R2[a].max_rv = FastV(q, v)
    <3>1. a # p
      BY <1>1, <2>1, FastVIs
    <3> QED BY <1>1, <2>1, <3>1 DEF Says
  <2>2. CASE \E c \in Proc : /\ S2[c] = n
                             /\ [src |-> a, proposer |-> q, v |-> v] \in R2[c].fast_answers
    <3>1. PICK c \in Proc : /\ S2[c] = n
                            /\ [src |-> a, proposer |-> q, v |-> v] \in R2[c].fast_answers
      BY <2>2
    <3>2. c # p
      BY <1>1, <3>1
    <3> QED BY <1>1, <3>1, <3>2 DEF Says
  <2> QED BY <2>1, <2>2 DEF Says
<1> QED BY <1>2 DEF S2, R2

\* Whoever goes on to the next slot leaves every word as it was.
LEMMA CommitFast ==
  ASSUME NEW S, NEW R, NEW A, NEW acc, NEW dec, Good(S, R, A, acc, dec), NEW p \in Proc
  PROVE  LET S2 == [S EXCEPT ![p] = S[p] + 1]
             R2 == [R EXCEPT ![p] = ClearRound]
         IN  /\ Good(S2, R2, A, acc, dec) /\ Frame(S, R, A, S2, R2, A)
             /\ NewWords(S, R, A, S2, R2, A)
             /\ S2[p] = S[p] + 1
<1> DEFINE S2 == [S EXCEPT ![p] = S[p] + 1]
           R2 == [R EXCEPT ![p] = ClearRound]
<1>1. /\ Base(S, R, A, acc, dec) /\ Fast(S, R, A, acc, dec) /\ Bounded(R, A) /\ Answers(R)
      /\ TypesOK(S, R, A)
  BY DEF Good, Fast, Base
<1>2. Base(S2, R2, A, acc, dec) /\ Frame(S, R, A, S2, R2, A)
  BY <1>1, CommitKeeps
<1>3. TypesOK(S2, R2, A)
  BY <1>2 DEF Base
<1>4. NewWords(S, R, A, S2, R2, A)
  BY <1>1, LeavingSaysNothing DEF TypesOK
<1>5. /\ R2[p] = ClearRound /\ \A c \in Proc : c # p => R2[c] = R[c]
      /\ ClearRound.fast_answers = {} /\ ClearRound.max_rv.proposer <= ClearRound.round
  <2>1. None <= StartingRound
    BY StartingRoundType, ProcIsNat
  <2> QED BY <1>1, <2>1 DEF TypesOK, ClearRound, ClearPaxosRound, NoRV
<1>6. S2[p] = S[p] + 1
  BY <1>1 DEF TypesOK
<1> HIDE DEF S2, R2
<1>7. Bounded(R2, A)
  <2>1. \A c \in Proc : R2[c].max_rv.proposer <= R2[c].round
    BY <1>1, <1>5 DEF Bounded
  <2>2. \A c \in Proc : \A x \in R2[c].fast_answers : x.proposer <= c
    BY <1>1, <1>5 DEF Bounded
  <2> QED BY <1>1, <2>1, <2>2 DEF Bounded
<1>8. Answers(R2)
  BY <1>1, <1>5 DEF Answers
<1>9. Good(S2, R2, A, acc, dec)
  BY <1>1, <1>2, <1>3, <1>4, <1>7, <1>8, FastFrame DEF Good
<1> QED BY <1>2, <1>4, <1>6, <1>9 DEF S2, R2

\* p leaves the slot.
LEMMA CommitGood ==
  ASSUME NEW S, NEW R, NEW A, NEW acc, NEW dec, Good(S, R, A, acc, dec), NEW p \in Proc
  PROVE  Good([S EXCEPT ![p] = S[p] + 1], [R EXCEPT ![p] = ClearRound], A, acc, dec)
BY CommitFast

\* A majority of votes decides.
LEMMA DecideGood ==
  ASSUME NEW S, NEW R, NEW A, NEW acc, NEW dec, Good(S, R, A, acc, dec), NEW p \in Proc,
         NEW v \in Uid, R[p].round \in Proc, Asked(acc, S[p], R[p].round, v),
         PaxosCanCommit(R[p])
  PROVE  Good(S, R, A, acc,
              dec \cup {[slot |-> S[p], v |-> v, round |-> R[p].round, fast |-> FALSE]})
<1> DEFINE e == [slot |-> S[p], v |-> v, round |-> R[p].round, fast |-> FALSE]
           dec2 == dec \cup {e}
<1>1. Base(S, R, A, acc, dec2)
  BY DecideKeeps DEF Good
<1>2. Fast(S, R, A, acc, dec)
  BY DEF Good
<1>3. ~e.fast
  OBVIOUS
<1> HIDE DEF e
<1>4. FastDecided(S, R, A, dec2) /\ FastAlone(acc, dec2)
  BY <1>2, <1>3 DEF Fast, FastDecided, FastAlone
<1>5. Fast(S, R, A, acc, dec2)
  BY <1>2, <1>4 DEF Fast
<1> HIDE DEF dec2
<1>6. Good(S, R, A, acc, dec2)
  BY <1>1, <1>5 DEF Good
<1> QED BY <1>6 DEF dec2, e

\* What is known of the answers for a proposal.
LEMMA AnswersForAre ==
  ASSUME NEW S, NEW R, NEW A, TypesOK(S, R, A), Words(S, R, A), NEW p \in Proc
  PROVE  /\ \A x \in R[p].fast_answers :
              /\ x \in [src : Proc, proposer : Proc, v : Uid]
              /\ Says(S, R, A, x.src, S[p], x.proposer, x.v)
              /\ x.src \in AliveReplicas /\ x.proposer \in AliveReplicas
         /\ \A x, y \in R[p].fast_answers : x.src = y.src => x = y
<1>1. S[p] \in Nat /\ R[p].fast_answers \subseteq [src : Proc, proposer : Proc, v : Uid]
  BY DEF TypesOK, Rounds, PaxosRoundStates
<1>2. ASSUME NEW x \in R[p].fast_answers
      PROVE  /\ x \in [src : Proc, proposer : Proc, v : Uid]
             /\ Says(S, R, A, x.src, S[p], x.proposer, x.v)
             /\ x = [src |-> x.src, proposer |-> x.proposer, v |-> x.v]
  <2>1. x \in [src : Proc, proposer : Proc, v : Uid]
    BY <1>1
  <2>2. x = [src |-> x.src, proposer |-> x.proposer, v |-> x.v]
    BY <2>1
  <2>3. Says(S, R, A, x.src, S[p], x.proposer, x.v)
    BY <2>2 DEF Says
  <2> QED BY <2>1, <2>2, <2>3
<1>3. \A x \in R[p].fast_answers : x.src \in AliveReplicas /\ x.proposer \in AliveReplicas
  BY <1>1, <1>2 DEF Words
<1>4. ASSUME NEW x \in R[p].fast_answers, NEW y \in R[p].fast_answers, x.src = y.src
      PROVE  x = y
  <2>1. x.proposer = y.proposer /\ x.v = y.v
    BY <1>1, <1>2, <1>4 DEF Words
  <2> QED BY <1>2, <1>4, <2>1
<1> QED BY <1>2, <1>3, <1>4

\* A process answers once: answers are as many as those who answered.
LEMMA AsManyAnswers ==
  ASSUME NEW S, NEW R, NEW A, TypesOK(S, R, A), Words(S, R, A), NEW p \in Proc,
         NEW F, F \subseteq R[p].fast_answers
  PROVE  LET M == {x.src : x \in F}
         IN  /\ IsFiniteSet(F) /\ M \subseteq AliveReplicas /\ IsFiniteSet(M)
             /\ Cardinality(F) \in Nat /\ Cardinality(M) = Cardinality(F)
<1> DEFINE M == {x.src : x \in F}
           f == [x \in F |-> x.src]
<1>1. /\ \A x \in F : x.src \in AliveReplicas
      /\ \A x, y \in F : x.src = y.src => x = y
  BY AnswersForAre
<1>2. M \subseteq AliveReplicas /\ IsFiniteSet(M)
  <2>1. M \subseteq AliveReplicas
    BY <1>1
  <2> HIDE DEF M
  <2> QED BY <2>1, Finite, FS_Subset
<1>3. f \in Injection(F, M) /\ f \in Surjection(F, M)
  <2>1. f \in [F -> M]
    OBVIOUS
  <2>2. \A x, y \in F : f[x] = f[y] => x = y
    BY <1>1
  <2>3. \A m \in M : \E x \in F : f[x] = m
    OBVIOUS
  <2> HIDE DEF f, M
  <2> QED BY <2>1, <2>2, <2>3 DEF Injection, IsInjective, Surjection
<1> HIDE DEF f, M
<1>4. IsFiniteSet(F) /\ Cardinality(F) = Cardinality(M)
  BY <1>2, <1>3, FS_Injection
<1>5. Cardinality(F) \in Nat
  BY <1>4, FS_CardinalityType
<1> QED BY <1>2, <1>4, <1>5 DEF M

\* When p has enough answers for its proposal, nothing else was asked for, or
\* decided fast, nor can be.
LEMMA AnsweredIsDecided ==
  ASSUME NEW S, NEW R, NEW A, NEW acc, NEW dec, Good(S, R, A, acc, dec), NEW p \in Proc,
         Mode = "EPaxos", R[p].round = p, Ar(R, p) = None,
         NEW v \in Uid, NEW x \in R[p].fast_answers, x.proposer = p, x.v = v,
         Cardinality(AnswersFor(R[p], p)) >= EPaxosQuorum
  PROVE  /\ \A e, k \in OptProc : Vow(S, R, A, p, S[p], e, k) => e <= p
         /\ Tied(S, R, A, S[p], p, v)
         /\ Cardinality({a \in AliveReplicas : FastKept(S, R, A, a, S[p], p)}) >= EPaxosQuorum
         /\ \A y \in acc : y.slot = S[p] => y.v = v
         /\ \A d \in dec : d.fast => d.slot # S[p]
<1> DEFINE n == S[p]
           F == AnswersFor(R[p], p)
           M == {y.src : y \in F}
           K == {a \in AliveReplicas : FastKept(S, R, A, a, n, p)}
<1>1. /\ TypesOK(S, R, A) /\ HistoryOK(acc, dec) /\ VowsKept(S, R, A) /\ Words(S, R, A)
      /\ FastDecided(S, R, A, dec) /\ FastAsked(S, R, A, acc)
  BY DEF Good, Base, Fast
<1>2. n \in Nat /\ n \in Int /\ p \in Int /\ R[p].round = p
  BY <1>1, RoundIntegers, ProcIsNat
<1>3. F \subseteq R[p].fast_answers /\ \A y \in F : y.proposer = p
  BY DEF AnswersFor
<1>4. Cardinality(M) >= EPaxosQuorum /\ M \subseteq AliveReplicas
  <2>1. Cardinality(F) >= EPaxosQuorum
    OBVIOUS
  <2>2. M \subseteq AliveReplicas /\ Cardinality(M) = Cardinality(F)
    <3> HIDE DEF F
    <3> QED BY <1>1, <1>3, AsManyAnswers
  <2> QED BY <2>1, <2>2
<1>5. Says(S, R, A, x.src, n, p, v) /\ x.src \in Proc
  BY <1>1, AnswersForAre
<1>6. Tied(S, R, A, n, p, v)
  <2> HIDE DEF M, F, n
  <2>1. /\ Spoke(S, R, p, n)
        /\ \A b \in Proc, w \in Uid : Says(S, R, A, b, n, p, w) => w = v
    BY <1>1, <1>2, <1>5 DEF Words
  <2> QED BY <2>1 DEF Tied
<1>7. \A a \in M : \E w \in Uid : Says(S, R, A, a, n, p, w)
  BY <1>1, <1>3, AnswersForAre
<1> HIDE DEF M, F, n
<1>8. \A e, k \in OptProc : Vow(S, R, A, p, n, e, k) => e <= p
  <2> SUFFICES ASSUME NEW e \in OptProc, NEW k \in OptProc, Vow(S, R, A, p, n, e, k)
               PROVE  e <= p
    OBVIOUS
  <2>1. Promised(S, R, p, n, e)
    BY <1>1, <1>2 DEF VowsKept
  <2>2. e \in Int
    BY ProcIsNat
  <2>3. S[p] = n
    BY DEF n
  <2> QED BY <1>2, <2>1, <2>2, <2>3 DEF Promised
<1>9. \A a \in M : FastKept(S, R, A, a, n, p)
  <2> SUFFICES ASSUME NEW a \in M PROVE FastKept(S, R, A, a, n, p)
    OBVIOUS
  <2>1. a \in Proc
    BY <1>4, ReplicasAreProcs
  <2>2. PICK w \in Uid : Says(S, R, A, a, n, p, w)
    BY <1>7
  <2>3. /\ Spoke(S, R, a, n)
        /\ \A r \in Proc, u \in Uid : Says(S, R, A, a, n, r, u) => r = p
    BY <1>1, <1>2, <2>1, <2>2 DEF Words
  <2>4. \A b \in Proc, u \in Uid : Says(S, R, A, b, n, a, u) => p = a
    BY <1>1, <1>2, <2>1, <2>2 DEF Words
  <2> QED BY <2>3, <2>4 DEF FastKept, Against
<1>10. Cardinality(K) >= EPaxosQuorum
  <2>1. M \subseteq K /\ K \subseteq Proc
    BY <1>4, <1>9, ReplicasAreProcs
  <2> HIDE DEF K
  <2>2. Cardinality(M) \in Nat /\ Cardinality(K) \in Nat /\ Cardinality(M) <= Cardinality(K)
    BY <2>1, CountGrows
  <2> QED BY <1>4, <2>2, QuorumBounds
<1>11. ASSUME NEW y \in acc, y.slot = n
       PROVE  y.v = v
  <2>1. \/ CannotFastDecide(S, R, n, p) \/ FastBlocked(S, R, A, n, p)
        \/ Tied(S, R, A, n, p, y.v)
    BY <1>1, <1>11 DEF FastAsked, FastAskedAt
  <2>2. ~CannotFastDecide(S, R, n, p)
    BY <1>2 DEF CannotFastDecide, n
  <2>3. CASE FastBlocked(S, R, A, n, p)
    <3> DEFINE P == {a \in AliveReplicas : NoFastVote(S, R, A, a, n, p)}
    <3>1. Cardinality(P) + EPaxosQuorum > NbReplicas /\ P \subseteq AliveReplicas
      BY <2>3 DEF FastBlocked
    <3>2. PICK a \in AliveReplicas : a \in P /\ a \in M
      <4> HIDE DEF P
      <4>1. Cardinality(P) \in Nat /\ Cardinality(M) \in Nat
        BY <1>4, <3>1, ReplicasAreProcs, CountGrows
      <4>2. Cardinality(P) + Cardinality(M) > NbReplicas
        BY <1>4, <3>1, <4>1, QuorumBounds, Finite
      <4> QED BY <1>4, <3>1, <4>2, TooManyToPart
    <3> QED BY <1>7, <3>2 DEF NoFastVote
  <2>4. CASE Tied(S, R, A, n, p, y.v)
    BY <1>5, <2>4 DEF Tied
  <2> QED BY <2>1, <2>2, <2>3, <2>4
<1>12. ASSUME NEW d \in dec, d.fast, d.slot = n
       PROVE  FALSE
  <2> DEFINE q == d.round
             P == {a \in AliveReplicas : FastKept(S, R, A, a, n, q)}
  <2>1. q \in Proc /\ S[q] > n /\ Cardinality(P) >= EPaxosQuorum
    BY <1>1, <1>12 DEF HistoryOK, FastDecided
  <2>2. q # p
    BY <1>2, <2>1 DEF n
  <2>3. P \subseteq AliveReplicas
    OBVIOUS
  <2>4. PICK a \in AliveReplicas : a \in P /\ a \in M
    <3> HIDE DEF P
    <3>1. Cardinality(P) \in Nat /\ Cardinality(M) \in Nat
      BY <1>4, <2>3, ReplicasAreProcs, CountGrows
    <3>2. Cardinality(P) >= Majority /\ Cardinality(M) >= Majority
      BY <1>4, <2>1, <3>1, QuorumBounds, Finite
    <3> QED BY <1>4, <2>3, <3>2, MajoritiesMeet
  <2>5. Against(S, R, A, a, n, q)
    BY <1>7, <2>2, <2>4 DEF Against
  <2> QED BY <2>4, <2>5 DEF FastKept
<1> QED BY <1>6, <1>8, <1>10, <1>11, <1>12 DEF n

\* Who answers with one proposal alone answers with that of any of them.
LEMMA FastCommitAnswers ==
  ASSUME NEW r \in Rounds, NEW p \in Proc, EPaxosCanCommit(r, p), IsFiniteSet(r.fast_answers)
  PROVE  /\ Cardinality(AnswersFor(r, p)) >= EPaxosQuorum
         /\ \A x \in r.fast_answers : x.proposer = p
<1>1. Cardinality(AnswersFor(r, p)) >= EPaxosQuorum /\ Cardinality(Proposers(r)) = 1
  BY DEF EPaxosCanCommit
<1>2. Proposers(r) \subseteq Proc
  BY DEF Proposers, Rounds, PaxosRoundStates
<1>3. IsFiniteSet(Proposers(r))
  BY <1>2, Finite, FS_Subset
<1>4. PICK q : Proposers(r) = {q}
  BY <1>1, <1>3, FS_Singleton
<1>5. AnswersFor(r, p) # {}
  <2>1. Cardinality({}) = 0 /\ EPaxosQuorum > 0
    <3>1. Majority > 0
      BY TopologyAssumption DEF Majority
    <3> QED BY <3>1, QuorumBounds, Finite, FS_EmptySet
  <2>2. ~(0 >= EPaxosQuorum)
    BY <2>1, QuorumBounds
  <2> QED BY <1>1, <2>1, <2>2
<1>6. p \in Proposers(r)
  BY <1>5 DEF AnswersFor, Proposers
<1> QED BY <1>1, <1>4, <1>6 DEF Proposers

\* A proposer decides by its answers alone, and leaves the slot.
LEMMA DecideFastGood ==
  ASSUME NEW S, NEW R, NEW A, NEW acc, NEW dec, Good(S, R, A, acc, dec), NEW p \in Proc,
         Mode = "EPaxos", R[p].round = p, Ar(R, p) = None,
         NEW v \in Uid, NEW x \in R[p].fast_answers, x.v = v,
         EPaxosCanCommit(R[p], p)
  PROVE  Good([S EXCEPT ![p] = S[p] + 1], [R EXCEPT ![p] = ClearRound], A, acc,
              dec \cup {[slot |-> S[p], v |-> v, round |-> R[p].round, fast |-> TRUE]})
<1> DEFINE n == S[p]
           S2 == [S EXCEPT ![p] = S[p] + 1]
           R2 == [R EXCEPT ![p] = ClearRound]
           d == [slot |-> n, v |-> v, round |-> R[p].round, fast |-> TRUE]
           dec2 == dec \cup {d}
           K == {a \in AliveReplicas : FastKept(S, R, A, a, n, p)}
           K2 == {a \in AliveReplicas : FastKept(S2, R2, A, a, n, p)}
<1>1. /\ Base(S, R, A, acc, dec) /\ TypesOK(S, R, A) /\ HistoryOK(acc, dec)
      /\ Words(S, R, A)
  BY DEF Good, Base, Fast
<1>2. n \in Nat /\ R[p] \in Rounds /\ p \in Int
  BY <1>1, RoundIntegers, ProcIsNat
<1>3. Cardinality(AnswersFor(R[p], p)) >= EPaxosQuorum /\ x.proposer = p
  <2>1. IsFiniteSet(R[p].fast_answers)
    BY <1>1, AsManyAnswers
  <2> QED BY <1>2, <2>1, FastCommitAnswers
<1>4. /\ \A e, k \in OptProc : Vow(S, R, A, p, n, e, k) => e <= p
      /\ Tied(S, R, A, n, p, v) /\ Cardinality(K) >= EPaxosQuorum
      /\ \A y \in acc : y.slot = n => y.v = v
      /\ \A e \in dec : e.fast => e.slot # n
  BY <1>3, AnsweredIsDecided, SMTT(60)
<1>5. d.slot = n /\ d.v = v /\ d.round = p /\ d.fast
  OBVIOUS
<1>6. /\ Good(S2, R2, A, acc, dec) /\ Frame(S, R, A, S2, R2, A)
      /\ NewWords(S, R, A, S2, R2, A) /\ S2[p] = n + 1
  BY CommitFast
<1>7. Base(S2, R2, A, acc, dec2)
  <2>1. Base(S, R, A, acc, dec2)
    BY <1>1, DecideFastKeeps
  <2> QED BY <2>1, CommitKeeps
<1>8. R[p].round = p
  OBVIOUS
<1>9. S[p] = n
  OBVIOUS
<1> HIDE DEF n, S2, R2, d
<1>10. /\ Fast(S2, R2, A, acc, dec) /\ TypesOK(S2, R2, A) /\ Advances(S, R, S2, R2)
  BY <1>6 DEF Good, Base, Frame
<1>11. /\ \A a \in Proc : FastKept(S, R, A, a, n, p) => FastKept(S2, R2, A, a, n, p)
       /\ Tied(S2, R2, A, n, p, v)
  BY <1>1, <1>2, <1>4, <1>6, <1>10, FastStable
<1>12. Cardinality(K2) >= EPaxosQuorum
  <2>1. K \subseteq K2 /\ K2 \subseteq Proc
    BY <1>11, ReplicasAreProcs
  <2>2. Cardinality(K) >= EPaxosQuorum
    BY <1>4
  <2> HIDE DEF K, K2
  <2>3. Cardinality(K) \in Nat /\ Cardinality(K2) \in Nat /\ Cardinality(K) <= Cardinality(K2)
    BY <2>1, CountGrows
  <2> QED BY <2>2, <2>3, QuorumBounds
<1>13. \A e, k \in OptProc : Vow(S2, R2, A, p, n, e, k) => e <= p
  <2> SUFFICES ASSUME NEW e \in OptProc, NEW k \in OptProc, Vow(S2, R2, A, p, n, e, k)
               PROVE  e <= p
    OBVIOUS
  <2>1. (\E j \in OptProc : Vow(S, R, A, p, n, e, j)) \/ R[p].round = e
    BY <1>2, <1>6 DEF Frame, NewVows
  <2> QED BY <1>2, <1>4, <1>8, <2>1
<1>14. S2[p] > n
  BY <1>2, <1>6
<1>15. FastDecided(S2, R2, A, dec2)
  <2>1. FastDecided(S2, R2, A, dec)
    BY <1>10 DEF Fast
  <2> QED BY <1>5, <1>11, <1>12, <1>13, <1>14, <2>1 DEF FastDecided
<1>16. FastAlone(acc, dec2)
  <2>1. FastAlone(acc, dec)
    BY <1>10 DEF Fast
  <2> QED BY <1>4, <1>5, <2>1 DEF FastAlone
<1>17. Fast(S2, R2, A, acc, dec2)
  BY <1>10, <1>15, <1>16 DEF Fast
<1> HIDE DEF dec2
<1>18. Good(S2, R2, A, acc, dec2)
  BY <1>7, <1>17 DEF Good
<1> QED BY <1>18 DEF dec2, d, S2, R2, n

-----------------------------------------------------------------------------
(* Small steps: a coordinator asks for votes *)

\* The coordinator of a round asks for votes for v: nothing else was decided
\* fast, or will be.
LEMMA LeadGood ==
  ASSUME NEW S, NEW R, NEW A, NEW acc, NEW dec, Good(S, R, A, acc, dec),
         NEW p \in AliveReplicas, NEW b \in Proc, b = R[p].round, Coordinator(b) = p,
         NEW v \in Uid, Ar(R, p) # None => v = R[p].max_rv.v,
         ~LedBy(S, R, p, S[p], b),
         IsMultiPaxos => b = StartingRound,
         ~IsMultiPaxos => IsPrepared(R[p]),
         NEW r \in Rounds, r.round = b, r.max_rv = PaxosV(b, v),
         r.prepared_set = R[p].prepared_set,
         r.accepted_set = Counting(R[p].accepted_set, p, p),
         r.fast_answers = R[p].fast_answers,
         Mode = "EPaxos" => \A q \in Proc :
           \/ q = p \/ CannotFastDecide(S, R, S[p], q)
           \/ FastBlocked(S, R, A, S[p], q) \/ Tied(S, R, A, S[p], q, v),
         \A d \in dec : d.fast /\ d.slot = S[p] => d.v = v
  PROVE  Good(S, [R EXCEPT ![p] = r], A,
              acc \cup {[slot |-> S[p], round |-> b, v |-> v]}, dec)
<1> DEFINE n == S[p]
           R2 == [R EXCEPT ![p] = r]
           x == [slot |-> n, round |-> b, v |-> v]
           acc2 == acc \cup {x}
<1>1. /\ Base(S, R, A, acc, dec) /\ TypesOK(S, R, A) /\ Words(S, R, A) /\ FastAlone(acc, dec)
      /\ p \in Proc
  BY ReplicasAreProcs DEF Good, Base, Fast
<1>2. Base(S, R2, A, acc2, dec) /\ Frame(S, R, A, S, R2, A)
  BY <1>1, LeadKeeps
<1>3. TypesOK(S, R2, A) /\ Advances(S, R, S, R2)
  BY <1>2 DEF Base, Frame
<1>4. r.max_rv.proposer = None /\ r.max_rv.accept_round = b
  BY DEF PaxosV
<1>5. Fast(S, R2, A, acc, dec)
  <2>1. /\ \A y \in R[p].fast_answers : y.proposer <= p
        /\ R[p].fast_answers # {} =>
             /\ R[p].round >= p
             /\ R[p].round = p => \A y \in R[p].fast_answers : y.src \in R[p].prepared_set
    BY <1>1, GoodRound
  <2>2. r.max_rv.proposer <= r.round
    <3>1. b \in OptProc
      BY DEF OptProc
    <3> QED BY <1>4, <3>1, ProcIsNat
  <2> QED BY <1>1, <1>2, <1>3, <1>4, <2>1, <2>2, FastRound
<1>6. R2[p] = r /\ n \in Nat /\ n \in Int
  BY <1>1, RoundIntegers DEF TypesOK
<1>7. x.slot = n /\ x.v = v
  OBVIOUS
<1>8. NewWords(S, R, A, S, R2, A)
  <2> SUFFICES ASSUME NEW a \in Proc, NEW q \in Proc, NEW m \in Nat, NEW w \in Uid,
                      Says(S, R2, A, a, m, q, w)
               PROVE  Says(S, R, A, a, m, q, w)
    BY DEF NewWords
  <2>1. \A c \in Proc : R2[c].fast_answers = R[c].fast_answers
    BY <1>1 DEF TypesOK
  <2>2. R2[a].max_rv = FastV(q, w) => R2[a].max_rv = R[a].max_rv
    <3>1. a = p => R2[a].max_rv.proposer = None
      BY <1>4, <1>6
    <3>2. R2[a].max_rv = FastV(q, w) => a # p
      BY <3>1, FastVIs, ProcIsNat
    <3> QED BY <1>1, <3>2 DEF TypesOK
  <2> HIDE DEF R2
  <2> QED BY <2>1, <2>2 DEF Says
<1> HIDE DEF R2, x
<1>9. CannotFastDecide(S, R2, n, p)
  <2>1. Ar(R2, p) = b /\ S[p] = n /\ b # None
    BY <1>4, <1>6, ProcIsNat DEF Ar
  <2> QED BY <2>1 DEF CannotFastDecide
<1>10. Mode = "EPaxos" => FastAskedAt(S, R2, A, n, v)
  <2> SUFFICES ASSUME Mode = "EPaxos", NEW q \in Proc
               PROVE  \/ CannotFastDecide(S, R2, n, q) \/ FastBlocked(S, R2, A, n, q)
                      \/ Tied(S, R2, A, n, q, v)
    BY DEF FastAskedAt
  <2>1. \/ q = p \/ CannotFastDecide(S, R, n, q)
        \/ FastBlocked(S, R, A, n, q) \/ Tied(S, R, A, n, q, v)
    OBVIOUS
  <2>2. /\ CannotFastDecide(S, R, n, q) => CannotFastDecide(S, R2, n, q)
        /\ FastBlocked(S, R, A, n, q) => FastBlocked(S, R2, A, n, q)
        /\ Tied(S, R, A, n, q, v) => Tied(S, R2, A, n, q, v)
    BY <1>1, <1>3, <1>6, <1>8, FastStable
  <2> QED BY <1>9, <2>1, <2>2
<1>11. FastAsked(S, R2, A, acc2)
  BY <1>5, <1>7, <1>10 DEF Fast, FastAsked
<1>12. FastAlone(acc2, dec)
  <2>1. \A d \in dec : d.fast /\ d.slot = n => d.v = v
    OBVIOUS
  <2> QED BY <1>1, <1>7, <2>1 DEF FastAlone
<1>13. Fast(S, R2, A, acc2, dec)
  BY <1>5, <1>11, <1>12 DEF Fast
<1> HIDE DEF acc2
<1>14. Good(S, R2, A, acc2, dec)
  BY <1>2, <1>13 DEF Good
<1> QED BY <1>14 DEF acc2, x, R2, n

\* It does so for what an earlier leader had asked for, or where nothing is
\* ever decided fast.
LEMMA LeadOnGood ==
  ASSUME NEW S, NEW R, NEW A, NEW acc, NEW dec, Good(S, R, A, acc, dec),
         NEW p \in AliveReplicas, NEW b \in Proc, b = R[p].round, Coordinator(b) = p,
         NEW v \in Uid, Ar(R, p) # None => v = R[p].max_rv.v,
         Mode = "EPaxos" => Ar(R, p) # None,
         ~LedBy(S, R, p, S[p], b),
         IsMultiPaxos => b = StartingRound,
         ~IsMultiPaxos => IsPrepared(R[p]),
         NEW r \in Rounds, r.round = b, r.max_rv = PaxosV(b, v),
         r.prepared_set = R[p].prepared_set,
         r.accepted_set = Counting(R[p].accepted_set, p, p),
         r.fast_answers = R[p].fast_answers
  PROVE  Good(S, [R EXCEPT ![p] = r], A,
              acc \cup {[slot |-> S[p], round |-> b, v |-> v]}, dec)
<1>1. /\ RoundsOK(S, R, acc) /\ FastDecided(S, R, A, dec) /\ FastAsked(S, R, A, acc)
      /\ FastAlone(acc, dec) /\ p \in Proc
  BY ReplicasAreProcs DEF Good, Base, Fast
<1>2. Mode = "EPaxos" => \E x \in acc : x.slot = S[p] /\ x.v = v
  <2> SUFFICES ASSUME Mode = "EPaxos" PROVE \E x \in acc : x.slot = S[p] /\ x.v = v
    OBVIOUS
  <2> DEFINE x == [slot |-> S[p], round |-> Ar(R, p), v |-> v]
  <2>1. x \in acc
    BY <1>1 DEF RoundsOK, Asked
  <2> QED BY <2>1
<1>3. Mode = "EPaxos" => \A q \in Proc :
        \/ q = p \/ CannotFastDecide(S, R, S[p], q)
        \/ FastBlocked(S, R, A, S[p], q) \/ Tied(S, R, A, S[p], q, v)
  BY <1>1, <1>2 DEF FastAsked, FastAskedAt
<1>4. \A d \in dec : d.fast /\ d.slot = S[p] => d.v = v
  BY <1>1, <1>2 DEF FastAlone, FastDecided
<1> QED BY <1>3, <1>4, LeadGood

\* A part of a finite set and the rest.
LEMMA Parts ==
  ASSUME NEW F, IsFiniteSet(F), NEW B, B \subseteq F
  PROVE  /\ IsFiniteSet(B) /\ IsFiniteSet(F \ B)
         /\ Cardinality(F) \in Nat /\ Cardinality(B) \in Nat /\ Cardinality(F \ B) \in Nat
         /\ Cardinality(B) + Cardinality(F \ B) = Cardinality(F)
<1> DEFINE C == F \ B
<1>1. B \cup C = F /\ B \cap C = {} /\ B \in SUBSET F /\ C \in SUBSET F
  OBVIOUS
<1> HIDE DEF C
<1>2. IsFiniteSet(B) /\ IsFiniteSet(C)
  BY <1>1, FS_Subset
<1>3. Cardinality(F) \in Nat /\ Cardinality(B) \in Nat /\ Cardinality(C) \in Nat
  BY <1>2, FS_CardinalityType
<1>4. Cardinality(F) = Cardinality(B) + Cardinality(C) - 0
  BY <1>1, <1>2, FS_Union, FS_EmptySet
<1>5. Cardinality(B) + Cardinality(C) = Cardinality(F)
  BY <1>3, <1>4
<1> QED BY <1>2, <1>3, <1>5 DEF C

\* When answers differ, those for any proposal but the best are too few to have
\* decided, or to do so, whatever the processes that were not heard of say:
\* a proposer that did not answer has, if anything, answered itself.
LEMMA ManyAgainst ==
  ASSUME NEW S, NEW R, NEW A, TypesOK(S, R, A), Words(S, R, A), NEW p \in Proc,
         Cardinality(R[p].fast_answers) >= Majority,
         NEW y \in R[p].fast_answers,
         \A a \in Proposers(R[p]) : Score(R[p], a) <= Score(R[p], y.proposer),
         NEW q \in Proc, q # y.proposer, \A x \in R[p].fast_answers : x.src # q
  PROVE  Cardinality({a \in AliveReplicas : Against(S, R, A, a, S[p], q)}) + EPaxosQuorum
           > NbReplicas
<1> DEFINE n == S[p]
           F == R[p].fast_answers
           B == AnswersFor(R[p], q)
           Y == AnswersFor(R[p], y.proposer)
           Bo == {x \in B : x.src # q}
           Bs == {x \in B : x.src = q}
           Yo == {x \in Y : x.src # y.proposer}
           Ys == {x \in Y : x.src = y.proposer}
           D == F \ B
           MD == {x.src : x \in D}
           Z == {a \in AliveReplicas : Against(S, R, A, a, n, q)}
<1>1. n \in Nat /\ \A x \in F : /\ x \in [src : Proc, proposer : Proc, v : Uid]
                                /\ Says(S, R, A, x.src, n, x.proposer, x.v)
                                /\ x.src \in AliveReplicas /\ x.proposer \in AliveReplicas
  BY AnswersForAre DEF TypesOK
<1>2. IsFiniteSet(F)
  BY AsManyAnswers
<1>3. /\ B \subseteq F /\ Y \subseteq F /\ D \subseteq F /\ Y \subseteq D /\ y \in Y
      /\ \A x \in D : x.proposer # q
      /\ \A x \in B : x.proposer = q /\ x.src # q
      /\ \A x \in F : (x \in Y) <=> (x.proposer = y.proposer)
  BY DEF AnswersFor
<1>4. q \in Proposers(R[p]) <=> B # {}
  BY DEF Proposers, AnswersFor
<1>5. /\ Score(R[p], q) = 2 + Cardinality(Bo) - Cardinality(Bs)
      /\ Score(R[p], y.proposer) = 2 + Cardinality(Yo) - Cardinality(Ys)
  BY DEF Score
<1>6. MD \subseteq Z
  <2> SUFFICES ASSUME NEW x \in D PROVE x.src \in Z
    OBVIOUS
  <2> QED BY <1>1, <1>3 DEF Against
<1>7. y.proposer \in Z
  <2>1. y.src \in Proc /\ y.proposer \in AliveReplicas /\ y.v \in Uid
        /\ Says(S, R, A, y.src, n, y.proposer, y.v)
    BY <1>1
  <2> QED BY <2>1 DEF Against
<1>8. Z \subseteq Proc
  BY ReplicasAreProcs
<1>9. \A x \in F : x.src = y.proposer => x.proposer = y.proposer
  <2> SUFFICES ASSUME NEW x \in F, x.src = y.proposer PROVE x.proposer = y.proposer
    OBVIOUS
  <2>1. /\ y.src \in Proc /\ y.proposer \in Proc /\ y.v \in Uid
        /\ Says(S, R, A, y.src, n, y.proposer, y.v)
        /\ Says(S, R, A, y.proposer, n, x.proposer, x.v) /\ x.proposer \in Proc /\ x.v \in Uid
    BY <1>1
  <2> HIDE DEF n
  <2> QED BY <1>1, <2>1 DEF Words
<1>10. y \in F /\ Cardinality(F) >= Majority
  OBVIOUS
<1>11. \A a \in Proposers(R[p]) : Score(R[p], a) <= Score(R[p], y.proposer)
  OBVIOUS
<1>12. \A x, z \in F : x.src = z.src => x = z
  BY AnswersForAre
<1>13. Cardinality(MD) = Cardinality(D)
  <2> HIDE DEF D
  <2> QED BY <1>3, AsManyAnswers
<1> HIDE DEF F, B, Y, MD, Bo, Bs, Yo, Ys
<1>14. /\ Cardinality(F) \in Nat /\ Cardinality(B) \in Nat /\ Cardinality(D) \in Nat
       /\ Cardinality(B) + Cardinality(D) = Cardinality(F)
  BY <1>2, <1>3, Parts
<1>15. IsFiniteSet(D)
  BY <1>2, <1>3, FS_Subset
<1> HIDE DEF D
<1>16. Cardinality(Y) \in Nat /\ Cardinality(Y) <= Cardinality(D) /\ IsFiniteSet(Y)
  BY <1>3, <1>15, FS_Subset, FS_CardinalityType
<1> HIDE DEF Z
<1>17. Cardinality(Z) \in Nat /\ Cardinality(D) <= Cardinality(Z)
  BY <1>6, <1>8, <1>13, CountGrows
<1>18. CASE B = {}
  <2>1. Cardinality(B) = 0
    BY <1>18, FS_EmptySet
  <2>2. Cardinality(Z) + EPaxosQuorum > NbReplicas
    BY <1>10, <1>14, <1>17, <2>1, Finite, QuorumBounds
  <2> QED BY <2>2 DEF Z, n
<1>19. CASE B # {}
  <2>1. Score(R[p], q) = 2 + Cardinality(B)
    <3>1. Bo = B /\ Bs = {}
      BY <1>3 DEF Bo, Bs
    <3> QED BY <1>5, <1>14, <3>1, FS_EmptySet
  <2>2. 2 + Cardinality(B) <= Score(R[p], y.proposer)
    BY <1>4, <1>11, <1>19, <2>1
  <2>3. 2 * Cardinality(Z) >= Cardinality(F) + 2
    <3>1. CASE \E z \in F : z.src = y.proposer
      <4>1. PICK z \in F : z.src = y.proposer
        BY <3>1
      <4>2. Ys = {z} /\ Yo = Y \ {z} /\ {z} \subseteq Y
        <5>1. z \in Y
          BY <1>3, <1>9, <4>1
        <5>2. \A x \in Y : x.src = y.proposer <=> x = z
          BY <1>3, <1>12, <4>1
        <5> QED BY <5>1, <5>2 DEF Yo, Ys
      <4>3. Cardinality({z}) = 1 /\ Cardinality(Y \ {z}) = Cardinality(Y) - 1
        <5>1. Cardinality({z}) = 1
          BY FS_Singleton
        <5>2. Cardinality({z}) + Cardinality(Y \ {z}) = Cardinality(Y) /\ Cardinality(Y \ {z}) \in Nat
          BY <1>16, <4>2, Parts
        <5> QED BY <1>16, <5>1, <5>2
      <4>4. Score(R[p], y.proposer) = Cardinality(Y)
        BY <1>5, <1>16, <4>2, <4>3
      <4> QED BY <1>14, <1>16, <1>17, <2>2, <4>4
    <3>2. CASE ~ \E z \in F : z.src = y.proposer
      <4>1. Ys = {} /\ Yo = Y
        BY <1>3, <3>2 DEF Yo, Ys
      <4>2. Score(R[p], y.proposer) = 2 + Cardinality(Y)
        BY <1>5, <1>16, <4>1, FS_EmptySet
      <4>3. y.proposer \notin MD
        BY <1>3, <3>2 DEF MD
      <4>4. Cardinality(Z) >= Cardinality(D) + 1
        <5>1. MD \cup {y.proposer} \subseteq Z
          BY <1>6, <1>7
        <5>2. IsFiniteSet(MD)
          BY <1>6, <1>8, CountGrows
        <5>3. Cardinality(MD \cup {y.proposer}) = Cardinality(D) + 1
          BY <1>13, <4>3, <5>2, FS_AddElement
        <5>4. Cardinality(MD \cup {y.proposer}) <= Cardinality(Z)
          BY <1>8, <5>1, CountGrows
        <5> QED BY <1>14, <1>17, <5>3, <5>4
      <4> QED BY <1>14, <1>16, <1>17, <2>2, <4>2, <4>4
    <3> QED BY <3>1, <3>2
  <2>4. Cardinality(Z) + EPaxosQuorum > NbReplicas
    <3>1. Majority \in Nat /\ 2 * Majority >= NbReplicas + 1 /\ NbReplicas \in Nat
      BY Finite
    <3> QED BY <1>10, <1>14, <1>17, <2>3, <3>1, QuorumBounds
  <2> QED BY <2>4 DEF Z, n
<1> QED BY <1>18, <1>19

\* The EPaxos proposer asks for votes for the best of differing answers.
LEMMA AdoptGood ==
  ASSUME NEW S, NEW R, NEW A, NEW acc, NEW dec, Good(S, R, A, acc, dec),
         NEW p \in AliveReplicas, Mode = "EPaxos", R[p].round = p, Ar(R, p) = None,
         NEW v, v \in EPaxosAdoptable(R[p])
  PROVE  Good(S, [R EXCEPT ![p] = AdoptFromEPaxos(R[p], p, p, v)], A,
              acc \cup {[slot |-> S[p], round |-> p, v |-> v]}, dec)
<1> DEFINE n == S[p]
           o == R[p]
           F == o.fast_answers
           r == AdoptFromEPaxos(o, p, p, v)
<1>1. /\ TypesOK(S, R, A) /\ HistoryOK(acc, dec) /\ VowsKept(S, R, A) /\ Words(S, R, A)
      /\ Answers(R) /\ FastDecided(S, R, A, dec) /\ p \in Proc /\ Bounded(R, A)
  BY ReplicasAreProcs DEF Good, Base, Fast
<1>2. n \in Nat /\ n \in Int /\ p \in Int /\ o \in Rounds
  BY <1>1, RoundIntegers, ProcIsNat
<1>3. /\ Cardinality(F) >= Majority
      /\ \E y \in F : /\ v = y.v
                      /\ \A a \in Proposers(o) : Score(o, a) <= Score(o, y.proposer)
  <2>1. EPaxosAdoptable(o) # {}
    OBVIOUS
  <2>2. ~(Cardinality(F) < Majority \/ Cardinality(Proposers(o)) < 2)
    BY <2>1 DEF EPaxosAdoptable
  <2>3. v \in {x.v : x \in {y \in F : \A a \in Proposers(o) : Score(o, a) <= Score(o, y.proposer)}}
    BY <2>2 DEF EPaxosAdoptable
  <2>4. Cardinality(F) \in Nat
    BY <1>1, AsManyAnswers
  <2>5. Cardinality(F) >= Majority
    BY <2>2, <2>4, Finite
  <2> QED BY <2>3, <2>5
<1>4. PICK y \in F : /\ v = y.v
                     /\ \A a \in Proposers(o) : Score(o, a) <= Score(o, y.proposer)
  BY <1>3
<1>5. /\ y.src \in Proc /\ y.proposer \in Proc /\ v \in Uid /\ y.src \in AliveReplicas
      /\ Says(S, R, A, y.src, n, y.proposer, v)
  BY <1>1, <1>4, AnswersForAre
<1>6. Tied(S, R, A, n, y.proposer, v)
  <2> DEFINE a == y.src
             q == y.proposer
  <2>1. a \in Proc /\ q \in Proc /\ n \in Nat /\ v \in Uid /\ Says(S, R, A, a, n, q, v)
    BY <1>2, <1>5
  <2> HIDE DEF a, q, n
  <2>2. Tied(S, R, A, n, q, v)
    BY <1>1, <2>1 DEF Words, Tied
  <2> QED BY <2>2 DEF q
<1>7. \A x \in F : x.src \in Proc /\ x.src \in o.prepared_set
  <2>1. \A x \in F : x.src \in Proc
    BY <1>1, AnswersForAre
  <2> QED BY <1>1, <2>1 DEF Answers
<1>8. \A x \in F : Promised(S, R, x.src, n, p)
  <2> SUFFICES ASSUME NEW x \in F PROVE Promised(S, R, x.src, n, p)
    OBVIOUS
  <2>1. Vow(S, R, A, x.src, n, p, None)
    BY <1>1, <1>7 DEF Vow
  <2> QED BY <1>1, <1>2, <1>7, <2>1 DEF VowsKept, OptProc
<1>9. ASSUME NEW q \in Proc, q # y.proposer, \A x \in F : x.src # q
      PROVE  Cardinality({a \in AliveReplicas : Against(S, R, A, a, n, q)}) + EPaxosQuorum
               > NbReplicas
  BY <1>1, <1>3, <1>4, <1>9, ManyAgainst
<1>10. ASSUME NEW q \in Proc
       PROVE  \/ q = p \/ CannotFastDecide(S, R, n, q)
              \/ FastBlocked(S, R, A, n, q) \/ Tied(S, R, A, n, q, v)
  <2>1. CASE q = y.proposer
    BY <1>6, <2>1
  <2>2. CASE q # y.proposer /\ \A x \in F : x.src # q
    <3> DEFINE P == {a \in AliveReplicas : Against(S, R, A, a, n, q)}
               Q == {a \in AliveReplicas : NoFastVote(S, R, A, a, n, q)}
    <3>1. P \subseteq Q /\ Q \subseteq Proc
      BY <1>1, <1>2, AgainstIsNoVote, ReplicasAreProcs
    <3>2. Cardinality(P) + EPaxosQuorum > NbReplicas
      BY <1>9, <2>2
    <3>3. Cardinality(Q) + EPaxosQuorum > NbReplicas
      <4> HIDE DEF P, Q
      <4>1. Cardinality(P) \in Nat /\ Cardinality(Q) \in Nat /\ Cardinality(P) <= Cardinality(Q)
        BY <3>1, CountGrows
      <4> QED BY <3>2, <4>1, QuorumBounds, Finite
    <3> QED BY <3>3 DEF FastBlocked
  <2>3. CASE q # y.proposer /\ \E x \in F : x.src = q
    <3>1. PICK x \in F : x.src = q
      BY <2>3
    <3>2. Promised(S, R, q, n, p)
      BY <1>8, <3>1
    <3>3. CASE q < p
      <4>1. R[q].round \in Int /\ q \in Int
        BY <1>1, RoundIntegers, ProcIsNat
      <4> QED BY <1>2, <3>2, <3>3, <4>1 DEF Promised, CannotFastDecide
    <3>4. CASE q = p
      BY <3>4
    <3>5. CASE q > p
      <4> DEFINE P == {x1.src : x1 \in F}
                 Q == {a \in AliveReplicas : NoFastVote(S, R, A, a, n, q)}
      <4>1. Cardinality(P) >= Majority
        BY <1>1, <1>3, AsManyAnswers
      <4>2. P \subseteq Q /\ Q \subseteq Proc
        <5>1. ASSUME NEW x1 \in F
              PROVE  x1.src \in AliveReplicas /\ NoFastVote(S, R, A, x1.src, n, q)
          <6>1. /\ x1.src \in AliveReplicas /\ x1.src \in Proc /\ x1.proposer \in Proc
                /\ x1.v \in Uid /\ Says(S, R, A, x1.src, n, x1.proposer, x1.v)
                /\ x1.proposer <= p
            BY <1>1, AnswersForAre DEF Bounded
          <6>2. x1.proposer # q
            <7>1. x1.proposer \in Int /\ q \in Int
              BY <6>1, ProcIsNat
            <7> QED BY <1>2, <3>5, <6>1, <7>1
          <6>3. Against(S, R, A, x1.src, n, q)
            BY <6>1, <6>2 DEF Against
          <6> HIDE DEF n
          <6> QED BY <1>1, <1>2, <6>1, <6>3, AgainstIsNoVote
        <5> QED BY <5>1, ReplicasAreProcs
      <4>3. Cardinality(Q) + EPaxosQuorum > NbReplicas
        <5> HIDE DEF P, Q
        <5>1. Cardinality(P) \in Nat /\ Cardinality(Q) \in Nat /\ Cardinality(P) <= Cardinality(Q)
          BY <4>2, CountGrows
        <5> QED BY <4>1, <5>1, QuorumBounds, Finite
      <4> QED BY <4>3 DEF FastBlocked
    <3>6. q < p \/ q = p \/ q > p
      BY <1>1, ProcIsNat
    <3> QED BY <3>3, <3>4, <3>5, <3>6
  <2> QED BY <2>1, <2>2, <2>3
<1>11. ASSUME NEW d \in dec, d.fast, d.slot = n
       PROVE  d.v = v
  <2> DEFINE q == d.round
             K == {a \in AliveReplicas : FastKept(S, R, A, a, n, q)}
             P == {a \in AliveReplicas : Against(S, R, A, a, n, q)}
  <2>1. /\ q \in Proc /\ S[q] > n
        /\ \A e, k \in OptProc : Vow(S, R, A, q, n, e, k) => e <= q
        /\ Tied(S, R, A, n, q, d.v) /\ Cardinality(K) >= EPaxosQuorum
    BY <1>1, <1>11 DEF HistoryOK, FastDecided
  <2>2. CASE q = y.proposer
    BY <1>5, <2>1, <2>2 DEF Tied
  <2>3. CASE q # y.proposer
    <3>1. Cardinality(P) + EPaxosQuorum <= NbReplicas
      <4> SUFFICES ASSUME Cardinality(P) + EPaxosQuorum > NbReplicas PROVE FALSE
        <5>1. P \subseteq Proc
          BY ReplicasAreProcs
        <5> HIDE DEF P
        <5>2. Cardinality(P) \in Nat
          BY <5>1, CountGrows
        <5> QED BY <5>2, QuorumBounds, Finite
      <4>1. P \subseteq AliveReplicas /\ K \subseteq AliveReplicas
        OBVIOUS
      <4>2. PICK a \in AliveReplicas : a \in P /\ a \in K
        <5> HIDE DEF P, K
        <5>1. Cardinality(P) \in Nat /\ Cardinality(K) \in Nat
          BY <4>1, ReplicasAreProcs, CountGrows
        <5>2. Cardinality(P) + Cardinality(K) > NbReplicas
          BY <2>1, <5>1, QuorumBounds, Finite
        <5> QED BY <4>1, <5>2, TooManyToPart
      <4> QED BY <4>2 DEF FastKept
    <3>2. PICK x \in F : x.src = q
      <4> SUFFICES ASSUME \A x \in F : x.src # q PROVE FALSE
        OBVIOUS
      <4>1. Cardinality(P) + EPaxosQuorum > NbReplicas
        BY <1>9, <2>1, <2>3
      <4>2. Cardinality(P) \in Nat
        <5>1. P \subseteq Proc
          BY ReplicasAreProcs
        <5> HIDE DEF P
        <5> QED BY <5>1, CountGrows
      <4> HIDE DEF P
      <4> QED BY <3>1, <4>1, <4>2, QuorumBounds, Finite
    \* q answered, so it had promised p's round: p <= q.
    <3>3. Vow(S, R, A, q, n, p, None)
      BY <1>1, <1>7, <3>2 DEF Vow
    <3>4. p <= q
      BY <1>1, <2>1, <3>3 DEF OptProc
    <3>5. q # p
      BY <1>2, <2>1
    \* Nobody who answers p stands by the proposal of a round above p's.
    <3>6. \A x1 \in F : x1.src \in P
      <4> SUFFICES ASSUME NEW x1 \in F PROVE x1.src \in P
        OBVIOUS
      <4>1. /\ x1.src \in AliveReplicas /\ x1.proposer \in Proc
            /\ x1.v \in Uid /\ Says(S, R, A, x1.src, n, x1.proposer, x1.v)
            /\ x1.proposer <= p
        BY <1>1, AnswersForAre DEF Bounded
      <4>2. x1.proposer # q
        <5>1. x1.proposer \in Int /\ q \in Int
          BY <2>1, <4>1, ProcIsNat
        <5> QED BY <1>2, <3>4, <3>5, <4>1, <5>1
      <4> QED BY <4>1, <4>2 DEF Against
    <3>7. Cardinality(P) >= Majority /\ Cardinality(P) \in Nat
      <4> DEFINE M == {x1.src : x1 \in F}
      <4>1. Cardinality(M) = Cardinality(F)
        BY <1>1, AsManyAnswers
      <4>2. M \subseteq P /\ P \subseteq Proc
        BY <3>6, ReplicasAreProcs
      <4> HIDE DEF M, P, F
      <4>3. Cardinality(M) \in Nat /\ Cardinality(P) \in Nat /\ Cardinality(M) <= Cardinality(P)
        BY <4>2, CountGrows
      <4> QED BY <1>3, <4>1, <4>3, Finite
    <3> HIDE DEF P
    <3> QED BY <3>1, <3>7, QuorumBounds, Finite
  <2> QED BY <2>2, <2>3
<1>12. IsPrepared(o)
  <2> DEFINE M == {x.src : x \in F}
  <2>1. Cardinality(M) >= Majority
    BY <1>1, <1>3, AsManyAnswers
  <2>2. M \subseteq o.prepared_set /\ o.prepared_set \subseteq Proc
    BY <1>2, <1>7 DEF Rounds, PaxosRoundStates
  <2> HIDE DEF M, o
  <2>3. /\ Cardinality(M) \in Nat /\ Cardinality(o.prepared_set) \in Nat
        /\ Cardinality(M) <= Cardinality(o.prepared_set)
    BY <2>2, CountGrows
  <2> QED BY <2>1, <2>3, Finite DEF IsPrepared
<1>13. ~LedBy(S, R, p, n, p)
  BY <1>1, <1>2, ProcIsNat DEF LedBy
<1>14. Coordinator(p) = p /\ ~IsMultiPaxos
  BY <1>1, CoordinatorType DEF IsMultiPaxos
<1>15. /\ r \in Rounds /\ r.round = p /\ r.max_rv = PaxosV(p, v)
       /\ r.prepared_set = o.prepared_set
       /\ r.accepted_set = Counting(o.accepted_set, p, p)
       /\ r.fast_answers = o.fast_answers
  <2>1. o.round = p
    OBVIOUS
  <2> HIDE DEF o
  <2> QED BY <1>1, <1>2, <1>5, <2>1, AdoptType
<1> HIDE DEF r
<1>16. Good(S, [R EXCEPT ![p] = r], A, acc \cup {[slot |-> S[p], round |-> p, v |-> v]}, dec)
  <2>1. v \in Uid /\ p \in Proc
    BY <1>1, <1>5
  <2> QED BY <1>10, <1>11, <1>12, <1>13, <1>14, <1>15, <2>1, LeadGood
<1> QED BY <1>16 DEF r, o

=============================================================================
