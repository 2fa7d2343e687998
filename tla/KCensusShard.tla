---------------------------- MODULE KCensusShard ----------------------------
(***************************************************************************)
(* One shard of KCensus on every process: clients' commands compete for     *)
(* slots, a slot is decided on the fast path by a proposer's leader or in   *)
(* the Paxos fallback by the highest leader, and losers are proposed again. *)
(*                                                                         *)
(* Every process runs one task.  Its loop takes a message or a client's     *)
(* command (Receive, ClientCommand), then re-examines the messages it held  *)
(* back, then may propose; `scan' says where in that loop it is.  Channels  *)
(* are TCP connections: FIFO per pair, nothing lost, nothing duplicated.    *)
(***************************************************************************)
EXTENDS RoundState, SlotShard

CONSTANT FirstLeader   \* leader_priority[0], the process that proposes leftovers again

ASSUME ShardAssumption == FirstLeader \in Proc

VARIABLES
  decided,    \* history: what leaders committed, and on which path
  fallbacks   \* history: what leaders' censuses obliged them to propose

history == <<decided, fallbacks>>
vars == <<shard, net, pending, decided, fallbacks>>

-----------------------------------------------------------------------------
(* Messages *)

\* The ids a plan can emit: sent from a state of the sender's schedule.
SpreadId == {id \in MessageId : id.time \in StateIds(id.proposer, id.src)}

SpreadMsg ==
  [type : {"Spread"}, slot : Nat, v : Uid, id : SpreadId,
   explicit : BOOLEAN, remote_states : [Proc -> NodeStates], new_value : BOOLEAN]
SpreadValueOnlyMsg ==
  [type : {"SpreadValueOnly"}, v : Uid, id : {id \in SpreadId : ShouldIncludeValue(id)}]
PaxosAcceptMsg ==
  [type : {"PaxosAccept"}, slot : Nat, src : Proc, leader : Proc, v : Uid,
   new_value : BOOLEAN]
CommitMsg == [type : {"Commit"}, slot : Nat, v : Uid]

Message == SpreadMsg \cup SpreadValueOnlyMsg \cup PaxosAcceptMsg \cup CommitMsg

\* Whether the command itself travels with its uid.
CarriesValue(m) ==
  \/ m.type = "Spread" /\ m.new_value /\ ShouldIncludeValue(m.id)
  \/ m.type = "SpreadValueOnly"
  \/ m.type = "PaxosAccept" /\ m.new_value

-----------------------------------------------------------------------------
(* The shard of one process *)

Shards ==
  [round_state         : RoundStates,
   queued_commands     : SUBSET Uid,
   queued_messages     : Seq(Message),
   next_uid            : Nat,
   slot_left_fast_path : BOOLEAN,
   log                 : Seq([v : Uid, fast : BOOLEAN]),  \* committed_commands_tx
   scan                : Nat,                             \* 0: waiting in select!
   panicked            : BOOLEAN]                         \* an assertion failed

NewShard ==
  [round_state |-> ClearRound, queued_commands |-> {}, queued_messages |-> <<>>,
   next_uid |-> 0, slot_left_fast_path |-> FALSE, log |-> <<>>, scan |-> 0,
   panicked |-> FALSE]

MyV(s, p)  == Mine(s.round_state, p).v
Ongoing(s) == s.round_state.proposers # {}

\* Mutant: a batch is processed before its members are here.
ReadyWithoutMembers(s, m) ==
  \/ m.type = "SpreadValueOnly"
  \/ /\ m.type # "SpreadValueOnly"
     /\ \/ m.slot < Slot(s)
        \/ m.slot = Slot(s) /\ m.v \in s.queued_commands

\* Messages of earlier slots are "processed" whatever they name; those of this
\* slot wait until the command they name, and a batch's members, are here.
ReadyToProcess(s, m) ==
  \/ m.type = "SpreadValueOnly"
  \/ /\ m.type # "SpreadValueOnly"
     /\ \/ m.slot < Slot(s)
        \/ m.slot = Slot(s) /\ {m.v} \cup m.v.members \subseteq s.queued_commands

\* A batch is only ever named in the slot it was made for.
ReadyAsserts(s, m) ==
  ( /\ m.type # "SpreadValueOnly"
    /\ m.slot = Slot(s) /\ m.v \in s.queued_commands /\ IsBatch(m.v) ) => m.v.slot = Slot(s)

\* The value that comes with a message is kept unless it is a batch of a slot
\* already decided; it must not be here yet.
Stores(s, m) == CarriesValue(m) /\ ~(IsBatch(m.v) /\ m.v.slot < Slot(s))
StoreRemoteCommand(s, m) ==
  IF Stores(s, m) THEN [s EXCEPT !.queued_commands = @ \cup {m.v}] ELSE s

StoreAsserts(s, m) == Stores(s, m) => m.v \notin s.queued_commands

\* Mutant: a batch leaves the queue, its members stay.
CommitBatchOnly(s, v) ==
  [s EXCEPT
     !.queued_commands = {w \in @ \ {v} : IsBatch(w) => w.slot > Slot(s)},
     !.log             = Append(@, [v |-> v, fast |-> ~s.slot_left_fast_path]),
     !.slot_left_fast_path = FALSE,
     !.round_state     = ClearRound,
     !.scan            = 1]

\* Mutant: what is known of the processes is not forgotten with the round.
CommitKeepingStates(s, v) ==
  [s EXCEPT
     !.queued_commands = {w \in @ \ ({v} \cup v.members) : IsBatch(w) => w.slot > Slot(s)},
     !.log             = Append(@, [v |-> v, fast |-> ~s.slot_left_fast_path]),
     !.slot_left_fast_path = FALSE,
     !.round_state     = [ClearRound EXCEPT !.node_states = s.round_state.node_states],
     !.scan            = 1]

\* commit_slot and commit_commands: v and its members leave the queue, batches
\* made for this slot or before are purged, the round starts over.
CommitSlot(s, v) ==
  [s EXCEPT
     !.queued_commands = {w \in @ \ ({v} \cup v.members) : IsBatch(w) => w.slot > Slot(s)},
     !.log             = Append(@, [v |-> v, fast |-> ~s.slot_left_fast_path]),
     !.slot_left_fast_path = FALSE,
     !.round_state     = ClearRound,
     !.scan            = 1]

-----------------------------------------------------------------------------
(* Spreading *)

\* The Spread messages of a's states T, with the census only under a conflict.
Spreads(s, p, v, a, T, newValue) ==
  LET r == s.round_state
      conflict == HasConflict(r, p)
  IN  [d \in Proc |->
        LET ids == InTimeOrder(Emitted(a, p, T, d))
        IN  [i \in DOMAIN ids |->
              [type |-> "Spread", slot |-> Slot(s), v |-> v, id |-> ids[i],
               explicit |-> conflict,
               remote_states |-> IF conflict THEN r.node_states
                                 ELSE ClearRound.node_states,
               new_value |-> newValue]]]

SpreadsAsserts(r, p, v, a, T) ==
  ( /\ HasConflict(r, p)
    /\ \E d \in Proc : Emitted(a, p, T, d) # {} ) =>
  r.node_states[a].v = v \/ r.node_states[a].accept_round # None

\* Only the value, along the edges that carry values.
ValueSpreads(s, p, v, a, t) ==
  [d \in Proc |->
    LET ids == InTimeOrder({id \in Emitted(a, p, {t}, d) : ShouldIncludeValue(id)})
    IN  IF v \in s.queued_commands
        THEN [i \in DOMAIN ids |-> [type |-> "SpreadValueOnly", v |-> v, id |-> ids[i]]]
        ELSE <<>>]

Forwarded(s, p, m) == ValueSpreads(s, p, m.v, m.id.proposer, MsgArrivalStateId(m.id))

-----------------------------------------------------------------------------
(* Processing a message.  s is the shard of p, m already taken out of the    *)
(* network or of the queue and its value stored; chan is what is in flight.  *)

\* A leader decides v in its current slot and tells everyone.
Decide(p, s, v, fast, chan, out) ==
  /\ Become(p, Panic(CommitSlot(s, v), CommitAsserts(s, v) /\ MyV(s, p) = v), chan,
            Then(out, ToOthers(p, Proc, [type |-> "Commit", slot |-> Slot(s), v |-> v])))
  /\ decided' = decided \cup {[slot |-> Slot(s), v |-> v, fast |-> fast]}
  /\ UNCHANGED fallbacks

\* A message of a decided slot only keeps its value travelling.
StaleMessage(p, m, s, chan) ==
  /\ m.type # "SpreadValueOnly"
  /\ m.slot < Slot(s)
  /\ Become(p, s, chan,
            IF m.type = "Spread" /\ CarriesValue(m) THEN Forwarded(s, p, m) ELSE Nothing)
  /\ UNCHANGED history

ValueOnly(p, m, s, chan) ==
  /\ m.type = "SpreadValueOnly"
  /\ Become(p, s, chan, Forwarded(s, p, m))
  /\ UNCHANGED history

CommitMessage(p, m, s, chan) ==
  /\ m.type = "Commit"
  /\ m.slot = Slot(s)
  /\ Become(p, Panic(CommitSlot(s, m.v), CommitAsserts(s, m.v)), chan, Nothing)
  /\ UNCHANGED history

\* The first half of the Spread handler: merge the census, accept, freeze on a
\* conflict, note the message.
Incoming(m) ==
  IF m.explicit THEN m.remote_states
  ELSE [q \in Proc |-> BuildRemoteState(m.v, m.id, q)]

Informed(r, p, m) ==
  KCensusTryAccept(UpdateRemoteStates(r, Incoming(m)), p, m.v, m.id.proposer)

Noted(s, p, m) ==
  LET r == Informed(s.round_state, p, m)
      conflict == HasConflict(r, p)
      frozen == IF conflict THEN FreezeAndPrepareForLeaders(r, p) ELSE r
  IN  [s EXCEPT !.round_state = [frozen EXCEPT !.received_msgs = @ \cup {m.id}],
                !.slot_left_fast_path = @ \/ conflict]

NotedAsserts(s, p, m) ==
  LET merged == UpdateRemoteStates(s.round_state, Incoming(m))
      r == Informed(s.round_state, p, m)
  IN  /\ UpdateRemoteAsserts(s.round_state, p, Incoming(m))
      /\ TryAcceptAsserts(merged, p, m.id.proposer)
      /\ Accepts(merged, p) => s.round_state.proposers = {}
      /\ HasConflict(r, p) \/ (~m.explicit /\ ~IsFrozen(Mine(r, p)))
      /\ m.id \notin s.round_state.received_msgs

\* p leads the fallback: adopt what the census obliges it to, else batch what
\* is queued, else keep v.
AcceptInFallback(p, s, v, newValue, chan, out) ==
  Become(p, Panic([s EXCEPT !.round_state = VoteFor(s.round_state, p, p, v)],
                  AdoptAsserts(s.round_state)),
         chan,
         Then(out, ToOthers(p, IF newValue THEN Proc ELSE AliveReplicas,
                            [type |-> "PaxosAccept", slot |-> Slot(s), src |-> p,
                             leader |-> p, v |-> v, new_value |-> newValue])))

StartFallback(p, s, v, chan, out) ==
  LET choices == AdoptChoices(s.round_state)
      batch   == BatchOf(s, p)
  IN  /\ fallbacks' = fallbacks \cup {[slot |-> Slot(s), leader |-> p, choices |-> choices]}
      /\ UNCHANGED decided
      /\ \/ \E w \in choices : AcceptInFallback(p, s, IF w = NoV THEN v ELSE w, FALSE, chan, out)
         \/ /\ choices = {} /\ CanBatch(s)
            /\ AcceptInFallback(p, StoreNewCommand(s, batch), batch, TRUE, chan, out)
         \/ /\ choices = {} /\ ~CanBatch(s)
            /\ AcceptInFallback(p, s, v, FALSE, chan, out)

\* The second half: walk the proposer's schedule, then decide, or start the
\* fallback, or wait.  walked is the shard that has taken the steps of the
\* schedule, out the messages they send.
Conclude(p, m, conflict, walked, out, chan) ==
  LET r       == walked.round_state
      commits == ~conflict /\ Leader(m.id.proposer) = p /\ AtEndOfSchedule(r, p, m.id.proposer)
      leads   == ~commits /\ Mine(r, p).prepared_for = p
      asserts == /\ commits => CanKCensusCommit(r, p)
                 /\ leads => conflict /\ p \in AliveReplicas
      s       == Panic(walked, asserts)
  IN  \/ /\ commits
         /\ Decide(p, s, m.v, TRUE, chan, out)
      \/ /\ leads /\ CanStartPaxosAccept(r, p)
         /\ StartFallback(p, s, m.v, chan, out)
      \/ /\ ~commits /\ ~(leads /\ CanStartPaxosAccept(r, p))
         /\ Become(p, s, chan, out)
         /\ UNCHANGED history

WalkSchedule(p, m, noted, conflict, reached, chan) ==
  LET a     == m.id.proposer
      r     == Advance(noted.round_state, p, a, conflict)
      sends == SpreadsAsserts(noted.round_state, p, m.v, a, reached)
  IN  Conclude(p, m, conflict, Panic([noted EXCEPT !.round_state = r], sends),
               Spreads(noted, p, m.v, a, reached, m.new_value), chan)

WalkFrom(p, m, noted, chan) ==
  WalkSchedule(p, m, noted, HasConflict(noted.round_state, p),
               Reached(noted.round_state, p, m.id.proposer), chan)

\* A failed assertion of the first half stops the handler there.
Spread(p, m, s, chan) ==
  /\ m.type = "Spread"
  /\ m.slot = Slot(s)
  /\ IF NotedAsserts(s, p, m)
     THEN WalkFrom(p, m, Noted(s, p, m), chan)
     ELSE Become(p, Panic(s, FALSE), chan, Nothing) /\ UNCHANGED history

\* Mutant: a promise does not end the fast path here.
PromiseSilently(s, p, leader) ==
  [s EXCEPT !.round_state = FreezeAndPrepareFor(s.round_state, p, leader)]

\* Seeing a leader's PaxosAccept is a promise, and ends the fast path here.
Promise(s, p, leader) ==
  [s EXCEPT !.round_state = FreezeAndPrepareFor(s.round_state, p, leader),
            !.slot_left_fast_path = TRUE]

\* Phase 2 of the fallback.  A non-voting process ignores it, a process that
\* promised a higher leader stays silent, a replica votes and answers, and the
\* leader counts the answers.
PaxosAcceptMessage(p, m, s, chan) ==
  /\ m.type = "PaxosAccept"
  /\ m.slot = Slot(s)
  /\ LET prepared == Promise(s, p, m.leader)
         bound    == Mine(prepared.round_state, p).prepared_for = m.leader
         voted    == [prepared EXCEPT !.round_state = VoteFor(prepared.round_state, p, m.leader, m.v)]
         counted  == [prepared EXCEPT !.round_state = RecvPaxosAccept(prepared.round_state, p, m.src, m.v)]
     IN  \/ /\ p \notin AliveReplicas
            /\ Become(p, s, chan, Nothing)
            /\ UNCHANGED history
         \/ /\ p \in AliveReplicas /\ ~bound
            /\ Become(p, prepared, chan, Nothing)
            /\ UNCHANGED history
         \/ /\ p \in AliveReplicas /\ bound /\ m.leader # p
            /\ Become(p, Panic(voted, m.src = m.leader), chan,
                      ToOthers(p, {m.leader} \cap AliveReplicas,
                               [m EXCEPT !.src = p, !.new_value = FALSE]))
            /\ UNCHANGED history
         \/ /\ p \in AliveReplicas /\ bound /\ m.leader = p
            /\ CanPaxosCommit(counted.round_state)
            /\ Decide(p, counted, m.v, FALSE, chan, Nothing)
         \/ /\ p \in AliveReplicas /\ bound /\ m.leader = p
            /\ ~CanPaxosCommit(counted.round_state)
            /\ Become(p, counted, chan, Nothing)
            /\ UNCHANGED history

Process(p, m, s, chan) ==
  \/ StaleMessage(p, m, s, chan)
  \/ ValueOnly(p, m, s, chan)
  \/ CommitMessage(p, m, s, chan)
  \/ Spread(p, m, s, chan)
  \/ PaxosAcceptMessage(p, m, s, chan)

-----------------------------------------------------------------------------
(* The main loop *)

\* Propose v in the current slot, at time 0 of p's own schedule, which p must be
\* able to accept.
ProposeAndSpread(p, s, v, newValue) ==
  LET r == s.round_state
      t == [s EXCEPT !.round_state = KCensusTryAccept(r, p, v, p)]
  IN  IF Accepts(r, p) /\ TryAcceptAsserts(r, p, p)
      THEN Become(p, t, net, Spreads(t, p, v, p, {0}, newValue))
      ELSE Become(p, Panic(s, FALSE), net, Nothing)

\* A message arrives.  Its value is stored even if it must wait; the held
\* messages are looked at again only after a value or a commit.
Receive(p, q) ==
  /\ Running(p)
  /\ shard[p].scan = 0
  /\ net[q][p] # <<>>
  /\ LET m      == Head(net[q][p])
         chan   == [net EXCEPT ![q][p] = Tail(@)]
         stored == StoreRemoteCommand(shard[p], m)
         s      == Panic(stored, StoreAsserts(shard[p], m) /\ ReadyAsserts(stored, m))
     IN  \/ /\ ReadyToProcess(s, m)
            /\ Process(p, m, [s EXCEPT !.scan = IF CarriesValue(m) THEN 1 ELSE 0], chan)
         \/ /\ ~ReadyToProcess(s, m)
            /\ Become(p, [s EXCEPT !.queued_messages = Append(@, m)], chan, Nothing)
            /\ UNCHANGED history
  /\ UNCHANGED pending

\* The client of p submits its next command.
ClientCommand(p) ==
  /\ Running(p)
  /\ shard[p].scan = 0
  /\ pending[p] > 0
  /\ LET old        == shard[p]
         v          == NewCommand(p, old.next_uid)
         contention == \/ Ongoing(old) \/ old.queued_messages # <<>>
                       \/ old.queued_commands # {}
         s          == [StoreNewCommand(old, v)
                          EXCEPT !.scan = Len(old.queued_messages) + 1]
     IN  IF contention
         THEN Become(p, s, net, ValueSpreads(s, p, v, p, 0))
         ELSE ProposeAndSpread(p, s, v, TRUE)
  /\ pending' = [pending EXCEPT ![p] = @ - 1]
  /\ UNCHANGED history

\* The held messages from position scan on that have become ready.
ReadyHeld(p) ==
  {i \in DOMAIN shard[p].queued_messages :
     i >= shard[p].scan /\ ReadyToProcess(shard[p], shard[p].queued_messages[i])}

ProcessHeld(p) ==
  /\ Running(p)
  /\ shard[p].scan > 0
  /\ \E i \in ReadyHeld(p) :
       /\ \A j \in ReadyHeld(p) : i <= j
       /\ LET m == shard[p].queued_messages[i]
              s == [shard[p] EXCEPT !.queued_messages = RemoveAt(@, i), !.scan = i]
          IN  Process(p, m, s, net)
  /\ UNCHANGED pending

\* Commands are left over and nothing is under way.
MustRepropose(p, s) ==
  /\ ~Ongoing(s)
  /\ s.queued_messages = <<>>
  /\ s.queued_commands # {}
  /\ p = FirstLeader

\* The end of the loop's body: the first leader proposes the commands left
\* over, as a batch or the oldest one alone.
Repropose(p) ==
  /\ Running(p)
  /\ shard[p].scan > 0
  /\ ReadyHeld(p) = {}
  /\ LET s     == [shard[p] EXCEPT !.scan = 0]
         batch == BatchOf(s, p)
     IN  \/ /\ MustRepropose(p, s) /\ CanBatch(s)
            /\ ProposeAndSpread(p, StoreNewCommand(s, batch), batch, TRUE)
         \/ /\ MustRepropose(p, s) /\ ~CanBatch(s)
            /\ \E v \in QueuedSingles(s) :
                 /\ \A w \in QueuedSingles(s) \ {v} : UidBefore(v, w)
                 /\ ProposeAndSpread(p, s, v, FALSE)
         \/ /\ ~MustRepropose(p, s)
            /\ Become(p, s, net, Nothing)
  /\ UNCHANGED <<pending, history>>

-----------------------------------------------------------------------------
Init ==
  /\ shard = [p \in Proc |-> NewShard]
  /\ net = [p \in Proc |-> Nothing]
  /\ pending = Workload
  /\ decided = {}
  /\ fallbacks = {}

\* Nothing left to do anywhere: every shard could sleep.
Idle(s) == /\ ~Ongoing(s) /\ s.queued_commands = {} /\ s.queued_messages = <<>>
Terminated ==
  /\ \A p, q \in Proc : net[p][q] = <<>>
  /\ \A p \in Proc : pending[p] = 0 /\ shard[p].scan = 0 /\ Idle(shard[p])
  /\ UNCHANGED vars

Step(p) ==
  \/ ClientCommand(p)
  \/ \E q \in Proc : Receive(p, q)
  \/ ProcessHeld(p)
  \/ Repropose(p)

Next == (\E p \in Proc : Step(p)) \/ Terminated

Spec == Init /\ [][Next]_vars

TypeOK ==
  /\ shard \in [Proc -> Shards]
  /\ net \in [Proc -> [Proc -> Seq(Message)]]
  /\ pending \in [Proc -> Nat]
  /\ decided \subseteq [slot : Nat, v : Uid, fast : BOOLEAN]
  /\ fallbacks \subseteq [slot : Nat, leader : Proc, choices : SUBSET (Uid \cup {NoV})]

\* p has something to do.
CanStep(p) ==
  /\ Running(p)
  /\ \/ shard[p].scan > 0
     \/ pending[p] > 0
     \/ \E q \in Proc : net[q][p] # <<>>

\* While some process has something to do, something happens: runtimes poll their
\* tasks, TCP delivers what was sent, and clients submit.  Nothing is assumed of who
\* goes first, or which channel it serves.  This is weak fairness of Next (under Spec a
\* step that changes anything is one of Next), with what enables it written out: TLC
\* does not get through ENABLED of handlers of this size.
Fairness == []<>(\A p \in Proc : ~CanStep(p)) \/ []<><<TRUE>>_vars

FairSpec == Spec /\ Fairness
=============================================================================
