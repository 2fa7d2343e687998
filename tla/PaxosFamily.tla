---------------------------- MODULE PaxosFamily ----------------------------
(***************************************************************************)
(* The leader-based modes of the slot layer: Paxos, Multi-Paxos with two or *)
(* three phases, Pando, and EPaxos encoded over slots.  A proposer prepares *)
(* its round and has its value, or one it learns of, accepted; Multi-Paxos   *)
(* starts every slot in a round its leader owns.  Who may not propose, or   *)
(* meets contention, forwards its command to everyone.                       *)
(*                                                                         *)
(* The main loop is that of KCensusShard (ConsensusShard::run): a message or *)
(* a command, the messages held back, then a proposal of leftovers.          *)
(***************************************************************************)
EXTENDS PaxosRoundState, SlotShard

CONSTANTS
  Mode,            \* mode_setting
  LeaderPriority,  \* leader_priority: live replicas, the first to lead first
  Committer,       \* committers[p]: who commits p's commands; None without committers
  Delegate         \* Pando's delegates[p], to whom promises in p's rounds go

ASSUME PaxosFamilyAssumption ==
  /\ Mode \in {"Paxos", "MultiPaxos", "MultiPaxos3P", "Pando", "EPaxos"}
  /\ LeaderPriority \in Seq(AliveReplicas) \ {<<>>}
  /\ Committer \in [Proc -> AliveReplicas \cup {None}]
  /\ Mode = "Pando" => Delegate \in [Proc -> AliveReplicas]
  \* With fewer, EPaxos is replaced by Paxos.
  /\ Mode = "EPaxos" => Cardinality(AliveReplicas) >= (3 * NbReplicas) \div 4

VARIABLES
  decided,    \* history: what was decided, in which round, and how
  accepts     \* history: what leaders asked replicas to accept

vars == <<shard, net, pending, decided, accepts>>
history == <<decided, accepts>>

IsMultiPaxos  == Mode \in {"MultiPaxos", "MultiPaxos3P"}
StartingRound == IF IsMultiPaxos THEN LeaderPriority[1] ELSE None
ClearRound    == ClearPaxosRound(StartingRound)

\* Who collects the promises of a round and asks for its votes.
Coordinator(round) == IF Mode = "Pando" THEN Delegate[round] ELSE round

\* A batch has no requester, hence no committer.
GetCommitter(v) == IF IsBatch(v) THEN None ELSE Committer[v.pid]

-----------------------------------------------------------------------------
(* Messages *)

PrepareMsg ==
  [type : {"Prepare"}, slot : Nat, src : Proc, round : Proc,
   rv : FastVs \cup PaxosVs, new_value : BOOLEAN]
AcceptMsg ==
  [type : {"Accept"}, slot : Nat, src : Proc, round : Proc, v : Uid,
   new_value : BOOLEAN]
ForwardRequestMsg == [type : {"ForwardRequest"}, v : Uid]
CommitMsg         == [type : {"Commit"}, slot : Nat, v : Uid]

Message == PrepareMsg \cup AcceptMsg \cup ForwardRequestMsg \cup CommitMsg

MsgV(m)         == IF m.type = "Prepare" THEN m.rv.v ELSE m.v
OfRound(m)      == m.type \in {"Prepare", "Accept"}
CarriesValue(m) == m.type = "ForwardRequest" \/ (OfRound(m) /\ m.new_value)

\* Without a value, messages of a round are replicas' business.
ToReplicas(p, D, m) == ToOthers(p, IF m.new_value THEN D ELSE D \cap AliveReplicas, m)

Shards ==
  [round_state         : PaxosRoundStates,
   queued_commands     : SUBSET Uid,
   queued_messages     : Seq(Message),
   next_uid            : Nat,
   slot_left_fast_path : BOOLEAN,
   log                 : Seq([v : Uid, fast : BOOLEAN]),
   scan                : Nat,
   panicked            : BOOLEAN]

NewShard ==
  [round_state |-> ClearRound, queued_commands |-> {}, queued_messages |-> <<>>,
   next_uid |-> 0, slot_left_fast_path |-> FALSE, log |-> <<>>, scan |-> 0,
   panicked |-> FALSE]

Ongoing(s) == s.round_state.max_rv # NoRV

\* A message of a later slot waits.  One of this slot waits for the command it
\* names, and a batch's members, unless it is the business of another leader.
ReadyToProcess(p, s, m) ==
  \/ m.type = "ForwardRequest"
  \/ /\ m.type # "ForwardRequest"
     /\ \/ m.slot < Slot(s)
        \/ /\ m.slot = Slot(s)
           /\ \/ {MsgV(m)} \cup MsgV(m).members \subseteq s.queued_commands
              \/ OfRound(m) /\ m.round # p

\* A batch is only ever named in the slot it was made for.
ReadyAsserts(s, m) ==
  ( /\ m.type # "ForwardRequest" /\ m.slot = Slot(s)
    /\ MsgV(m) \in s.queued_commands /\ IsBatch(MsgV(m)) ) => MsgV(m).slot = Slot(s)

Stores(s, m) == CarriesValue(m) /\ ~(IsBatch(MsgV(m)) /\ MsgV(m).slot < Slot(s))
StoreRemoteCommand(s, m) ==
  IF Stores(s, m) THEN [s EXCEPT !.queued_commands = @ \cup {MsgV(m)}] ELSE s
StoreAsserts(s, m) == Stores(s, m) => MsgV(m) \notin s.queued_commands

\* Only EPaxos has a fast path.
TookFastPath(s) == Mode = "EPaxos" /\ ~s.slot_left_fast_path

\* v is decided and the values gone leave the queue, with batches of the slot.
Committed(s, v, gone, fast, round_state) ==
  [s EXCEPT
     !.queued_commands = {w \in @ \ gone : IsBatch(w) => w.slot > Slot(s)},
     !.log             = Append(@, [v |-> v, fast |-> fast]),
     !.slot_left_fast_path = FALSE,
     !.round_state     = round_state,
     !.scan            = 1]

\* Mutant: the queue keeps the members of the batch.
CommitBatchOnly(s, v) == Committed(s, v, {v}, TookFastPath(s), ClearRound)
\* Mutant: the next slot starts in the round of this one.
CommitKeepingRound(s, v) ==
  Committed(s, v, {v} \cup v.members, TookFastPath(s), ClearPaxosRound(s.round_state.round))
\* Mutant: the value of this slot is taken into the next.
CommitKeepingValue(s, v) ==
  Committed(s, v, {v} \cup v.members, TookFastPath(s),
            [ClearRound EXCEPT !.max_rv = s.round_state.max_rv])
\* Mutant: what the mode can do is reported, not what it did.
CommitReportingMode(s, v) ==
  Committed(s, v, {v} \cup v.members, Mode = "EPaxos", ClearRound)

\* commit_slot and commit_commands.
CommitSlot(s, v) ==
  Committed(s, v, {v} \cup v.members, TookFastPath(s), ClearRound)

-----------------------------------------------------------------------------
(* Processing a message: m was taken out of the network or of the queue, s  *)
(* is p's shard with m's value stored, chan what is in flight.               *)

Decide(p, s, v, fast, tells, chan, out) ==
  /\ Become(p, Panic(CommitSlot(s, v), CommitAsserts(s, v)), chan,
            IF tells
            THEN Then(out, ToOthers(p, Proc, [type |-> "Commit", slot |-> Slot(s),
                                              v |-> s.round_state.max_rv.v]))
            ELSE out)
  /\ decided' = decided \cup {[slot |-> Slot(s), v |-> v, round |-> s.round_state.round,
                               fast |-> fast]}
  /\ UNCHANGED accepts

\* s has accepted in the current round on behalf of its leader: the other
\* replicas are asked to.
BroadcastAccept(p, s, chan) ==
  LET r == s.round_state
      a == [slot |-> Slot(s), round |-> r.round, v |-> r.max_rv.v]
  IN  /\ Become(p, [s EXCEPT !.slot_left_fast_path = TRUE], chan,
                ToReplicas(p, Proc, [type |-> "Accept", slot |-> a.slot, src |-> p,
                                     round |-> a.round, v |-> a.v, new_value |-> FALSE]))
      /\ accepts' = accepts \cup {a}
      /\ UNCHANGED decided

\* Messages of rounds and forwarded requests do nothing at a process that does
\* not vote, nor do those of a decided slot or of a round that was left.
Ignored(p, m, s, chan) ==
  /\ \/ m.type = "ForwardRequest"
     \/ m.type # "ForwardRequest" /\ m.slot < Slot(s)
     \/ OfRound(m) /\ (p \notin AliveReplicas \/ m.round < s.round_state.round)
  /\ Become(p, s, chan, Nothing)
  /\ UNCHANGED history

CommitMessage(p, m, s, chan) ==
  /\ m.type = "Commit"
  /\ m.slot = Slot(s)
  /\ Become(p, Panic(CommitSlot(s, m.v), CommitAsserts(s, m.v)), chan, Nothing)
  /\ UNCHANGED history

\* A message of a higher round takes the process to that round.
Concerns(p, m, s) ==
  /\ OfRound(m) /\ p \in AliveReplicas
  /\ m.slot = Slot(s)
  /\ m.round >= s.round_state.round

InRound(s, round) ==
  IF round > s.round_state.round
  THEN [s EXCEPT !.round_state = GotoRound(@, round)]
  ELSE s

\* The value comes along with the first Prepare of the slot.
Prompted(p, m, s) ==
  LET t == InRound(s, m.round)
      first == t.round_state.max_rv = NoRV
  IN  Panic([t EXCEPT !.round_state = IF first THEN PaxosProposeV(@, p, m.rv) ELSE @],
            first => ProposeVAsserts(t.round_state))

\* A promise: what this process goes for, to the coordinator of the round.
AnswerPrepare(p, m, s, chan) ==
  LET to     == Coordinator(m.round)
      silent == s.round_state.max_rv.accept_round = m.round
  IN  /\ to # p
      /\ Become(p, Panic(s, silent \/ to = m.src \/ to # m.round), chan,
                IF silent THEN Nothing
                ELSE ToReplicas(p, {to}, [m EXCEPT !.src = p, !.rv = s.round_state.max_rv,
                                                   !.new_value = FALSE]))
      /\ UNCHANGED history

\* The coordinator has a majority of promises, for the first time: it accepts.
StartAccepting(p, m, s, was_prepared, chan) ==
  LET r == s.round_state
  IN  IF IsPrepared(r) /\ ~was_prepared
      THEN BroadcastAccept(p, Panic([s EXCEPT !.round_state = SelfAccept(r, p, m.round)],
                                    SelfAcceptAsserts(r, m.round)), chan)
      ELSE Become(p, s, chan, Nothing) /\ UNCHANGED history

\* An EPaxos proposer decides when enough answers agree with it; when answers
\* differ it adopts what may have been decided, else goes on waiting.
CountAnswer(p, m, s, chan) ==
  LET r == EPaxosAnswered(s.round_state, m.src, m.rv.proposer, m.rv.v)
      t == Panic([s EXCEPT !.round_state = r],
                    /\ AnsweredAsserts(s.round_state, m.src) /\ m.rv.proposer # None
                    /\ p \in Proposers(r))
  IN  \/ EPaxosCanCommit(r, p) /\ Decide(p, t, m.rv.v, TRUE, TRUE, chan, Nothing)
      \/ /\ ~EPaxosCanCommit(r, p)
         /\ \E v \in EPaxosAdoptable(r) :
              BroadcastAccept(p, Panic([t EXCEPT !.round_state = AdoptFromEPaxos(r, p, m.round, v)],
                                       IsPrepared(r) /\ r.accepted_set = {}), chan)
      \/ /\ ~EPaxosCanCommit(r, p) /\ EPaxosAdoptable(r) = {}
         /\ Become(p, t, chan, Nothing)
         /\ UNCHANGED history

PrepareMessage(p, m, s, chan) ==
  /\ m.type = "Prepare"
  /\ Concerns(p, m, s)
  /\ LET t       == Panic(Prompted(p, m, s), m.src \in AliveReplicas)
         counted == [t EXCEPT !.round_state = ReceivePromise(@, p, m.src, m.rv)]
         answers == Mode = "EPaxos" /\ counted.round_state.max_rv.accept_round = None
     IN  \/ AnswerPrepare(p, m, t, chan)
         \/ /\ Coordinator(m.round) = p
            /\ \/ answers /\ CountAnswer(p, m, counted, chan)
               \/ ~answers /\ StartAccepting(p, m, counted, IsPrepared(t.round_state), chan)

\* A vote, sent to the round's leader; with three phases also to the replica
\* that commits for v's requester.
Votes(p, m) ==
  LET vote      == [m EXCEPT !.src = p, !.new_value = FALSE]
      committer == IF Mode = "MultiPaxos3P" THEN GetCommitter(m.v) ELSE None
  IN  Then(IF committer \notin {None, m.round, p} THEN ToReplicas(p, {committer}, vote)
           ELSE Nothing,
           ToReplicas(p, {m.round}, vote))

\* Phase 2: accept, answer whoever asked, and count the votes as the leader of
\* the round or as the third phase's committer, who decides by itself.
AcceptMessage(p, m, s, chan) ==
  /\ m.type = "Accept"
  /\ Concerns(p, m, s)
  /\ LET t      == InRound(s, m.round)
         u      == Panic([t EXCEPT !.slot_left_fast_path = TRUE,
                                   !.round_state = ReceiveAccept(@, p, m.src, m.round, m.v)],
                         /\ m.src \in AliveReplicas
                         /\ AcceptAsserts(t.round_state, m.round, m.v))
         third  == Mode = "MultiPaxos3P" /\ GetCommitter(m.v) = p
         asked  == p # m.round /\ m.src = Coordinator(m.round)
         out    == IF asked THEN Votes(p, m) ELSE Nothing
         counts == p = m.round \/ third
         tells  == p = m.round \/ m.v.pid # p
     IN  \/ /\ counts /\ PaxosCanCommit(u.round_state)
            /\ Decide(p, u, m.v, FALSE, tells, chan, out)
         \/ /\ ~(counts /\ PaxosCanCommit(u.round_state))
            /\ Become(p, Panic(u, counts \/ asked), chan, out)
            /\ UNCHANGED history

Process(p, m, s, chan) ==
  \/ Ignored(p, m, s, chan)
  \/ CommitMessage(p, m, s, chan)
  \/ PrepareMessage(p, m, s, chan)
  \/ AcceptMessage(p, m, s, chan)

-----------------------------------------------------------------------------
(* The main loop *)

\* propose: v in a round of p's own.  The leader of Multi-Paxos owns the
\* starting round and asks for votes at once.
ProposeAsserts(p, r) ==
  /\ r.round = StartingRound /\ r.max_rv = NoRV
  /\ IsMultiPaxos <=> p = StartingRound

Propose(p, s, v, newValue) ==
  LET r    == GotoRound(s.round_state, p)
      rv   == IF Mode = "EPaxos" THEN FastV(p, v) ELSE PaxosV(None, v)
      went == PaxosProposeV(IF Mode = "EPaxos" THEN EPaxosAnswered(r, p, p, v) ELSE r, p, rv)
      ok   == ProposeAsserts(p, s.round_state) /\ ProposeVAsserts(r)
  IN  IF IsMultiPaxos
      THEN /\ Become(p, Panic([s EXCEPT !.round_state = SelfAccept(went, p, p)], ok), net,
                     ToReplicas(p, Proc, [type |-> "Accept", slot |-> Slot(s), src |-> p,
                                          round |-> p, v |-> v, new_value |-> newValue]))
           /\ accepts' = accepts \cup {[slot |-> Slot(s), round |-> p, v |-> v]}
           /\ UNCHANGED decided
      ELSE /\ Become(p, Panic([s EXCEPT !.round_state = went], ok), net,
                     ToReplicas(p, Proc, [type |-> "Prepare", slot |-> Slot(s), src |-> p,
                                          round |-> p, rv |-> rv, new_value |-> newValue]))
           /\ UNCHANGED history

\* get_leader: the first of the leaders that commit for a queued command.
LeadersOf(s) ==
  {i \in DOMAIN LeaderPriority :
     \E v \in s.queued_commands : GetCommitter(v) = LeaderPriority[i]}
GetLeader(s) ==
  LeaderPriority[IF IsMultiPaxos \/ LeadersOf(s) = {} THEN 1 ELSE Min(LeadersOf(s))]

\* Mutant: a value is proposed although something is under way.
ForwardsOnlyToLead(p, s, contention) ==
  p \notin AliveReplicas \/ (IsMultiPaxos /\ GetLeader(s) # p)

\* propose_start: whether v is left to others.
Forwards(p, s, contention) ==
  \/ p \notin AliveReplicas
  \/ contention
  \/ IsMultiPaxos /\ GetLeader(s) # p

ProposeStart(p, s, v, contention) ==
  IF Forwards(p, s, contention)
  THEN /\ Become(p, StoreNewCommand(s, v), net,
                 ToOthers(p, Proc, [type |-> "ForwardRequest", v |-> v]))
       /\ UNCHANGED history
  ELSE Propose(p, StoreNewCommand(s, v), v, TRUE)

\* A message arrives.  Its value is stored even if it must wait; the held
\* messages are looked at again only after a value or a commit.
Receive(p, q) ==
  /\ Running(p)
  /\ shard[p].scan = 0
  /\ net[q][p] # <<>>
  /\ LET m      == Head(net[q][p])
         chan   == [net EXCEPT ![q][p] = Tail(@)]
         stored == StoreRemoteCommand(shard[p], m)
         s      == Panic(stored, StoreAsserts(shard[p], m) /\ ReadyAsserts(stored, m))
     IN  \/ /\ ReadyToProcess(p, s, m)
            /\ Process(p, m, [s EXCEPT !.scan = IF CarriesValue(m) THEN 1 ELSE 0], chan)
         \/ /\ ~ReadyToProcess(p, s, m)
            /\ Become(p, [s EXCEPT !.queued_messages = Append(@, m)], chan, Nothing)
            /\ UNCHANGED history
  /\ UNCHANGED pending

\* The client of p submits its next command.
ClientCommand(p) ==
  /\ Running(p)
  /\ shard[p].scan = 0
  /\ pending[p] > 0
  /\ LET s == shard[p]
     IN  ProposeStart(p, [s EXCEPT !.scan = Len(s.queued_messages) + 1],
                      NewCommand(p, s.next_uid),
                      Ongoing(s) \/ s.queued_messages # <<>> \/ s.queued_commands # {})
  /\ pending' = [pending EXCEPT ![p] = @ - 1]

\* Mutant: the message that takes the place of a processed one is passed over.
ReadyHeldAfter(p) ==
  {i \in DOMAIN shard[p].queued_messages :
     i > shard[p].scan /\ ReadyToProcess(p, shard[p], shard[p].queued_messages[i])}

\* The held messages from position scan on that have become ready.
ReadyHeld(p) ==
  {i \in DOMAIN shard[p].queued_messages :
     i >= shard[p].scan /\ ReadyToProcess(p, shard[p], shard[p].queued_messages[i])}

ProcessHeld(p) ==
  /\ Running(p)
  /\ shard[p].scan > 0
  /\ \E i \in ReadyHeld(p) :
       /\ \A j \in ReadyHeld(p) : i <= j
       /\ Process(p, shard[p].queued_messages[i],
                  [shard[p] EXCEPT !.queued_messages = RemoveAt(@, i), !.scan = i], net)
  /\ UNCHANGED pending

\* Mutant: who is first asked to lead takes care of leftovers, whoever they are.
MustReproposeOwn(p, s) ==
  /\ ~Ongoing(s)
  /\ s.queued_messages = <<>>
  /\ \E v \in s.queued_commands : v.pid = p
  /\ GetLeader(s) = p

\* Commands are left over, nothing is under way, and it is p's turn to lead.
MustRepropose(p, s) ==
  /\ ~Ongoing(s)
  /\ s.queued_messages = <<>>
  /\ s.queued_commands # {}
  /\ GetLeader(s) = p

\* The end of the loop's body: leftovers are proposed, as a batch or the oldest
\* one alone.
Repropose(p) ==
  /\ Running(p)
  /\ shard[p].scan > 0
  /\ ReadyHeld(p) = {}
  /\ LET s == [shard[p] EXCEPT !.scan = 0]
     IN  \/ /\ MustRepropose(p, s) /\ CanBatch(s)
            /\ ProposeStart(p, s, BatchOf(s, p), FALSE)
         \/ /\ MustRepropose(p, s) /\ ~CanBatch(s)
            /\ \E v \in QueuedSingles(s) :
                 /\ \A w \in QueuedSingles(s) \ {v} : UidBefore(v, w)
                 /\ Propose(p, s, v, FALSE)
         \/ /\ ~MustRepropose(p, s)
            /\ Become(p, s, net, Nothing)
            /\ UNCHANGED history
  /\ UNCHANGED pending

-----------------------------------------------------------------------------
Init ==
  /\ shard = [p \in Proc |-> NewShard]
  /\ net = [p \in Proc |-> Nothing]
  /\ pending = Workload
  /\ decided = {}
  /\ accepts = {}

\* Nothing left to do anywhere: every shard could sleep.
Idle(s) == /\ ~Ongoing(s) /\ s.queued_commands = {} /\ s.queued_messages = <<>>
Terminated ==
  /\ \A p, q \in Proc : net[p][q] = <<>>
  /\ \A p \in Proc : pending[p] = 0 /\ shard[p].scan = 0 /\ Idle(shard[p])
  /\ UNCHANGED vars

Step(p) ==
  \/ ClientCommand(p)
  \/ \E q \in Proc : Receive(p, q)
  \/ ProcessHeld(p)
  \/ Repropose(p)

Next == (\E p \in Proc : Step(p)) \/ Terminated

Spec == Init /\ [][Next]_vars

TypeOK ==
  /\ shard \in [Proc -> Shards]
  /\ net \in [Proc -> [Proc -> Seq(Message)]]
  /\ pending \in [Proc -> Nat]
  /\ decided \subseteq [slot : Nat, v : Uid, round : Proc, fast : BOOLEAN]
  /\ accepts \subseteq [slot : Nat, round : Proc, v : Uid]

CanStep(p) ==
  /\ Running(p)
  /\ \/ shard[p].scan > 0
     \/ pending[p] > 0
     \/ \E q \in Proc : net[q][p] # <<>>

\* As in KCensusShard: weak fairness of Next.
Fairness == []<>(\A p \in Proc : ~CanStep(p)) \/ []<><<TRUE>>_vars

FairSpec == Spec /\ Fairness
=============================================================================
