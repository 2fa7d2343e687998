------------------------------ MODULE DepShard ------------------------------
(***************************************************************************)
(* Dependency-based ordering: EPaxos and SwiftPaxos agree on the set of      *)
(* instances that one instance depends on, and every process executes what   *)
(* has committed in the order of the dependencies.  All shards are alike and *)
(* independent, so there is one; with cross-shard batching it is the only    *)
(* one, and its commands touch several keys.                                *)
(*                                                                         *)
(* Connections are FIFO, and every process takes one message or command at a *)
(* time, executes what that made ready, and sleeps if that left it idle.     *)
(* How it is chosen what to execute is DepExecution's.                       *)
(***************************************************************************)
EXTENDS DepReadTracker

CONSTANTS
  ExecutionOf(_, _),  \* what is executed of the instances committed, and in which order
  Setups,     \* how a run may be set up: one is picked
  Cmd,        \* what clients submit
  Key,        \* what commands are about
  KeysOf,     \* KeysOf[c]: the keys that c touches
  AckBatchLimit  \* how many acks of a kind make a bundle leave

Protocol == {"EPaxos", "SwiftPaxos"}

\* coordinator[p] runs p's instances under EPaxos; under SwiftPaxos leader orders
\* all, and quorum is the fixed fast quorum (C2), or {} for any large one (C1).
\* p's client has commands[p] to submit, and the keys reads[p] to read, in order.
IsSetup(m) ==
  /\ m.protocol \in Protocol
  /\ m.coordinator \in [Proc -> AliveReplicas]
  /\ \A p \in AliveReplicas : m.coordinator[p] = p
  /\ m.leader \in AliveReplicas
  /\ m.quorum # {} => m.leader \in m.quorum /\ Cardinality(m.quorum) = Majority
  /\ m.batch_commands \in BOOLEAN /\ m.batch_acks \in BOOLEAN
  \* Only EPaxos shares a shard between keys.
  /\ m.cross_shard \in BOOLEAN /\ (m.cross_shard => m.protocol = "EPaxos")
  /\ m.commands \in [Proc -> Seq(Cmd)]
  /\ m.reads \in [Proc -> Seq(Key)]
  /\ ~m.cross_shard =>
       \E k \in Key : \A p \in Proc :
         /\ \A c \in ToSet(m.commands[p]) : KeysOf[c] = {k}
         /\ ToSet(m.reads[p]) \subseteq {k}

ASSUME DepShardAssumption ==
  /\ KeysOf \in [Cmd -> SUBSET Key] /\ IsFiniteSet(Key)
  /\ \A m \in Setups : IsSetup(m)
  /\ AckBatchLimit \in Nat \ {0}

VARIABLES
  setup,     \* how this run is set up
  shard,    \* shard[p]: the DepShard of p
  net,      \* net[p][q]: messages from p to q, in flight
  unsent,   \* unsent[p], unread[p]: what p's client has still to submit
  unread

vars == <<setup, shard, net, unsent, unread>>

EPaxos        == setup.protocol = "EPaxos"
Leader(id)    == IF EPaxos THEN RequesterOf(id) ELSE setup.leader
ReadLeader    == IF EPaxos THEN None ELSE setup.leader
IsReplica(p)  == p \in AliveReplicas
NonReplicas   == Proc \ AliveReplicas

FastQuorum ==
  LET size == IF EPaxos THEN (3 * NbReplicas - 1) \div 4
              ELSE IF setup.quorum # {} THEN Majority
              ELSE (3 * NbReplicas - 1) \div 4 + 1
  IN  IF size < Majority THEN Majority ELSE size

\* Mutant: a proposer that does not vote counts as one that does.
ProposesOrVotes(p) == EPaxos \/ setup.quorum = {} \/ p \in setup.quorum

InFastQuorum(p) == IsReplica(p) /\ (EPaxos \/ setup.quorum = {} \/ p \in setup.quorum)

-----------------------------------------------------------------------------
(* A shard, and what it sends while it handles one message *)

\* `queue' and `bundle' are what the handler of a message has still to deliver.  `out'
\* is empty between steps; `log', `decided' and `missed' are history: the commands
\* of the instances executed, what was committed, and writes that reads did not see.
Nothing == [q \in Proc |-> <<>>]

NewShard(p) ==
  [next_uid |-> 0, next_read |-> 0, conflicts |-> [k \in Key |-> NoDeps],
   executed |-> NoneExecuted, instances |-> <<>>, deferred |-> <<>>, reads |-> <<>>,
   pending_fast |-> <<>>, pending_slow |-> <<>>, ack_recipients |-> {},
   queue |-> <<>>, bundle |-> <<>>, out |-> Nothing, log |-> <<>>, decided |-> <<>>, missed |-> {}, panicked |-> FALSE]

Expect(s, holds) == IF holds THEN s ELSE [s EXCEPT !.panicked = TRUE]

SendTo(s, D, m) ==
  [s EXCEPT !.out = [q \in Proc |-> IF q \in D THEN Append(@[q], m) ELSE @[q]]]

\* Votes are replicas' business, and that of a requester that does not vote.
SendVote(s, m) == SendTo(s, AliveReplicas \cup {RequesterOf(m.id)}, m)

Commands(i)    == ToSet(i.commands)
KeysIn(cs)     == UNION {KeysOf[c] : c \in ToSet(cs)}
Conflicts(c,d) == KeysOf[c] \cap KeysOf[d] # {}

DepsFor(s, keys) == UnionOf({s.conflicts[k] : k \in keys})
Seen(s) == DepsFor(s, Key)

NoteSeen(s, id, keys) ==
  [s EXCEPT !.conflicts = [k \in Key |-> IF k \in keys THEN Insert(@[k], id) ELSE @[k]]]

AddInstance(s, id, i) == [s EXCEPT !.instances = Put(@, id, i)]

CommittedIn(s) == {id \in DOMAIN s.instances : IsCommitted(s.instances[id])}

-----------------------------------------------------------------------------
(* Execution *)

ExecutedBy(s) == UNION {ToSet(cs) : cs \in ToSet(s.log)}

\* A read that did not see a write which some process had executed before it.
Missed(s, read) == {c \in read.since : read.key \in KeysOf[c]} \ ExecutedBy(s)

ServeReady(s) ==
  LET ids == Servable(s.reads, s.executed)
  IN  [s EXCEPT !.reads = Restrict(@, DOMAIN @ \ ids),
                !.missed = @ \cup UNION {Missed(s, s.reads[id]) : id \in ids}]

\* What x executes leaves the instances for the log.
TakeExecuted(s, x) ==
  Expect([s EXCEPT
            !.instances = Restrict(@, DOMAIN @ \ ToSet(x.order)),
            !.executed = x.executed,
            !.log = @ \o [k \in DOMAIN x.order |-> s.instances[x.order[k]].commands]],
         x.complete)

ExecuteAndServe(s) ==
  ServeReady(TakeExecuted(s,
    ExecutionOf([id \in CommittedIn(s) |-> s.instances[id].deps], s.executed)))

OnCommit(s, id, deps) ==
  IF IsCommitted(s.instances[id]) THEN s
  ELSE ExecuteAndServe([s EXCEPT !.instances[id] = CommitWith(@, deps),
                                 !.decided = Put(@, id, [deps |-> deps, keys |-> KeysIn(s.instances[id].commands)])])

-----------------------------------------------------------------------------
(* EPaxos: the coordinator decides *)

CommitAndBroadcast(s, id, deps) ==
  SendTo(OnCommit(s, id, deps), Proc, [type |-> "Commit", id |-> id, deps |-> deps])

AgreesFast(i) == AllPreacceptsEndorse(i) /\ PreacceptsCount(i) >= FastQuorum

\* Mutant: those who answered need not agree with the coordinator.
LeavesFastPathNever(i) == FALSE

\* A fast quorum that agrees can no longer be had.
LeavesFastPath(i) ==
  /\ PreacceptsCount(i) >= Majority
  /\ ~AllPreacceptsEndorse(i) \/ Cardinality(AliveReplicas) < FastQuorum

\* The union of the proposals is to be accepted, here first.
StartAccept(p, s, id, deps) ==
  SendTo([s EXCEPT !.instances[id] = AcknowledgedBy(Accept(@, deps), {p})],
         AliveReplicas, [type |-> "Accept", id |-> id, deps |-> deps])

CommitIfDecided(s, id) ==
  LET i    == s.instances[id]
      fast == ~IsSettled(i) /\ AgreesFast(i)
      slow == i.phase = Accepted /\ Cardinality(i.accept_acked) >= Majority
  IN  IF fast \/ slow THEN CommitAndBroadcast(s, id, IF fast THEN LeaderDeps(i) ELSE i.deps) ELSE s

EPaxosTryCommit(p, s, id) ==
  LET i     == s.instances[id]
      leave == ~IsSettled(i) /\ ~AgreesFast(i) /\ LeavesFastPath(i)
  IN  IF RequesterOf(id) # p THEN s
      ELSE CommitIfDecided(IF leave THEN StartAccept(p, s, id, UnionOfPreaccepts(i)) ELSE s, id)

-----------------------------------------------------------------------------
(* SwiftPaxos: everyone decides, from the same votes *)

\* The acks held back leave as one message, proposals first.
Flush(s) ==
  [SendTo(s, AliveReplicas \cup s.ack_recipients,
          [type |-> "DepAcks", acks |-> s.pending_fast \o s.pending_slow])
   EXCEPT !.pending_fast = <<>>, !.pending_slow = <<>>, !.ack_recipients = {}]

QueueAck(s, m) ==
  LET t == IF m.type = "AcceptOk" THEN [s EXCEPT !.pending_slow = Append(@, m)]
           ELSE [s EXCEPT !.pending_fast = Append(@, m)]
      u == [t EXCEPT !.ack_recipients = @ \cup {RequesterOf(m.id)}]
  IN  IF AckBatchLimit \in {Len(u.pending_fast), Len(u.pending_slow)} THEN Flush(u) ELSE u

SendAck(s, m) == IF setup.batch_acks THEN QueueAck(s, m) ELSE SendVote(s, m)

\* The leader's own proposal is what everyone accepts.
SwiftLeaderAccept(p, s, id, deps) ==
  SendAck([s EXCEPT !.instances[id] =
             AcknowledgedBy(Accept(RecordPreaccept(@, p, deps), deps), {p})],
          [type |-> "Accept", id |-> id, deps |-> deps])

FastQuorumReached(endorsers) ==
  IF setup.quorum # {} THEN setup.quorum \subseteq endorsers
  ELSE setup.leader \in endorsers /\ Cardinality(endorsers) >= FastQuorum

Decided(i) ==
  /\ IsSettled(i)
  /\ FastQuorumReached(FastEndorsers(i)) \/ Cardinality(i.accept_acked) >= Majority

\* Only who casts no vote and did not propose has to be told.
SwiftTryCommit(p, s, id) ==
  LET i == s.instances[id]
  IN  IF IsCommitted(i) \/ ~Decided(i) THEN s
      ELSE SendTo(OnCommit(s, id, i.deps),
                  IF p = setup.leader THEN NonReplicas \ {RequesterOf(id)} ELSE {},
                  [type |-> "Commit", id |-> id, deps |-> i.deps])

-----------------------------------------------------------------------------
(* Handlers of the messages about an instance that the process has *)

TryCommit(p, s, id) == IF EPaxos THEN EPaxosTryCommit(p, s, id) ELSE SwiftTryCommit(p, s, id)

\* Mutant: a process that has seen conflicting commands says nothing of them.
EchoProposal(s, id, deps) == deps

\* Mutant: SwiftPaxos too adds to what the coordinator said.
AddToProposal(s, id, deps) ==
  WithoutUid(UnionWith(deps, DepsFor(s, KeysIn(s.instances[id].commands))), id)

\* What the process would have id depend on.  Under EPaxos that adds to what the
\* coordinator said, except about the coordinator's own instances.
OwnDeps(s, id, deps) ==
  LET seen == DepsFor(s, KeysIn(s.instances[id].commands))
  IN  WithoutUid(IF EPaxos THEN UnionWith(deps, ClearReplica(seen, RequesterOf(id))) ELSE seen, id)

OnPreAccept(p, s, src, id, deps) ==
  LET mine  == OwnDeps(s, id, deps)
      heard == SetCoordinatorDeps(s.instances[id], deps)
      known == IF InFastQuorum(src) THEN RecordPreaccept(heard, src, deps) ELSE heard
      voted == RecordPreaccept([known EXCEPT !.deps = mine], p, mine)
      ack   == [type |-> "PreAcceptOk", id |-> id, deps |-> IF mine = deps THEN NoDepSet ELSE mine]
      t     == [s EXCEPT !.instances[id] =
                  IF IsSettled(known) THEN known
                  ELSE IF InFastQuorum(p) THEN voted ELSE [known EXCEPT !.deps = mine]]
      u     == CASE EPaxos -> SendTo(t, {src}, ack)
                 [] ~EPaxos /\ p = setup.leader -> SwiftLeaderAccept(p, t, id, mine)
                 [] OTHER -> SendAck(t, ack)
  IN  TryCommit(p, IF IsSettled(known) \/ ~InFastQuorum(p) THEN t ELSE u, id)

\* An ack without dependencies repeats the coordinator's.
OnPreAcceptOk(p, s, src, id, deps) ==
  LET i    == s.instances[id]
      said == IF deps = NoDepSet THEN i.coordinator_deps ELSE deps
      t    == Expect(s, said # NoDepSet)
  IN  IF IsCommitted(i) \/ src \in DOMAIN i.preaccepts THEN t
      ELSE TryCommit(p, [t EXCEPT !.instances[id] = RecordPreaccept(@, src, said)], id)

DepsSettled(s, id, deps) ==
  \A dep \in PendingOver(deps, s.executed) \ {id} :
    dep \in DOMAIN s.instances /\ IsSettled(s.instances[dep])

OnAccept(p, s, src, id, deps) ==
  LET i        == s.instances[id]
      taken    == AcknowledgedBy(Accept(i, deps), {src} \cup (IF IsReplica(p) THEN {p} ELSE {}))
      ack      == [type |-> "AcceptOk", id |-> id]
      checked  == Expect(s, EPaxos \/ ~IsReplica(p) \/ DepsSettled(s, id, deps))
      accepted == [checked EXCEPT !.instances[id] =
                     IF EPaxos THEN taken ELSE RecordPreaccept(taken, src, deps)]
      acked    == CASE ~IsReplica(p) -> accepted
                    [] IsReplica(p) /\ EPaxos -> SendTo(accepted, {src}, ack)
                    [] OTHER -> SendAck(accepted, ack)
  IN  TryCommit(p, IF IsSettled(i) THEN checked ELSE acked, id)

OnAcceptOk(p, s, src, id) ==
  LET i == s.instances[id]
  IN  IF IsCommitted(i) \/ src \in i.accept_acked THEN s
      ELSE TryCommit(p, [s EXCEPT !.instances[id] = AcknowledgedBy(@, {src})], id)

\* "an instance exists once its payload has arrived"
Dispatch(p, s, src, m) ==
  CASE m.id \notin DOMAIN s.instances -> Expect(s, FALSE)
    [] m.id \in DOMAIN s.instances /\ m.type = "PreAccept" -> OnPreAccept(p, s, src, m.id, m.deps)
    [] m.id \in DOMAIN s.instances /\ m.type = "PreAcceptOk" -> OnPreAcceptOk(p, s, src, m.id, m.deps)
    [] m.id \in DOMAIN s.instances /\ m.type = "Accept" -> OnAccept(p, s, src, m.id, m.deps)
    [] m.id \in DOMAIN s.instances /\ m.type = "AcceptOk" -> OnAcceptOk(p, s, src, m.id)
    [] m.id \in DOMAIN s.instances /\ m.type = "Commit" -> OnCommit(s, m.id, m.deps)

-----------------------------------------------------------------------------
(* Messages that wait, for the commands they are about or for a dependency *)

Defer(s, id, held) ==
  [s EXCEPT !.deferred = Put(@, id, Append(IF id \in DOMAIN @ THEN @[id] ELSE <<>>, held))]

Deferred(s, id)     == IF id \in DOMAIN s.deferred THEN s.deferred[id] ELSE <<>>
TakeDeferred(s, id) == [s EXCEPT !.deferred = Restrict(@, DOMAIN @ \ {id})]

ParkedAccepts(s) ==
  {held.msg.id : held \in {h \in UNION {ToSet(s.deferred[id]) : id \in DOMAIN s.deferred} :
                            h.msg.type = "Accept"}}

\* Mutant: only the commands an Accept is about are waited for.
BlockedByNothing(p, s, m) == {}

\* What the leader names must be accepted here first, in its order.  A process that
\* does not vote is not told everything, and waits for nothing.
BlockedBy(p, s, m) ==
  IF EPaxos \/ ~IsReplica(p) \/ m.type # "Accept" \/ ParkedAccepts(s) = {} THEN {}
  ELSE {dep \in PendingOver(m.deps, s.executed) \ {m.id} :
          ~(dep \in DOMAIN s.instances /\ IsSettled(s.instances[dep]))}

FirstOf(ids) == CHOOSE a \in ids : \A b \in ids \ {a} : Enumerated(a, b)

\* s has handled a message about id: those that waited for it are next.
Release(s, id) == TakeDeferred([s EXCEPT !.queue = @ \o Deferred(s, id)], id)

Deliver(p, s, held) ==
  LET id    == held.msg.id
      waits == BlockedBy(p, s, held.msg)
  IN  CASE HasExecuted(s.executed, id) -> s
        [] ~HasExecuted(s.executed, id) /\ waits # {} ->
             Defer(Expect(s, FirstOf(waits) \in ParkedAccepts(s)), FirstOf(waits), held)
        [] OTHER -> Release(Dispatch(p, s, held.src, held.msg), id)

CreateInstance(s, id, cs) ==
  AddInstance(NoteSeen(s, id, KeysIn(cs)), id, NewInstance(Leader(id), cs, NoDeps))

\* Nothing can be done about an instance before its commands are here.
HandleInstance(p, s, src, m) ==
  LET held == [src |-> src, msg |-> m]
  IN  CASE HasExecuted(s.executed, m.id) -> s
        [] ~HasExecuted(s.executed, m.id) /\ m.id \in DOMAIN s.instances -> Deliver(p, s, held)
        [] ~HasExecuted(s.executed, m.id) /\ m.id \notin DOMAIN s.instances ->
             IF m.type = "PreAccept" THEN Deliver(p, CreateInstance(s, m.id, m.commands), held)
             ELSE Defer(s, m.id, held)

-----------------------------------------------------------------------------
(* Commands and reads *)

SubmitHere(p, s, cs) ==
  LET id   == <<p, s.next_uid>>
      deps == DepsFor(s, KeysIn(cs))
      new  == SetCoordinatorDeps(NewInstance(Leader(id), cs, deps), deps)
      i    == IF InFastQuorum(p) THEN RecordPreaccept(new, p, deps) ELSE new
      t    == SendTo(AddInstance(NoteSeen([s EXCEPT !.next_uid = @ + 1], id, KeysIn(cs)), id, i),
                     Proc, [type |-> "PreAccept", id |-> id, deps |-> deps, commands |-> cs])
  IN  TryCommit(p, IF ~EPaxos /\ p = setup.leader THEN SwiftLeaderAccept(p, t, id, deps) ELSE t, id)

\* Under EPaxos a process that does not vote hands its commands over.
SubmitCommands(p, s, cs) ==
  IF EPaxos /\ setup.coordinator[p] # p
  THEN SendTo(s, {setup.coordinator[p]}, [type |-> "Forward", commands |-> cs])
  ELSE SubmitHere(p, s, cs)

SubmitRead(p, s, key, since) ==
  LET id    == s.next_read
      reads == Put(s.reads, id, PendingRead(key, since))
  IN  ServeReady(SendTo(
        [s EXCEPT !.next_read = @ + 1,
                  !.reads = IF IsReplica(p) THEN Receive(reads, id, p, DepsFor(s, {key}), ReadLeader)
                            ELSE reads],
        AliveReplicas, [type |-> "ReadRequest", read |-> id, key |-> key]))

Handle(p, s, src, m) ==
  CASE m.type = "ReadRequest" ->
         SendTo(s, {src}, [type |-> "ReadResponse", read |-> m.read, seen |-> DepsFor(s, {m.key})])
    [] m.type = "ReadResponse" ->
         ServeReady([s EXCEPT !.reads = Receive(@, m.read, src, m.seen, ReadLeader)])
    [] m.type = "Forward" -> SubmitHere(p, s, m.commands)
    [] m.type = "DepAcks" ->
         HandleInstance(p, [s EXCEPT !.bundle = [k \in DOMAIN Tail(m.acks) |->
                                                   [src |-> src, msg |-> Tail(m.acks)[k]]]],
                        src, Head(m.acks))
    [] OTHER -> HandleInstance(p, s, src, m)

-----------------------------------------------------------------------------
(* The steps of a process *)

\* The handler of the last message has not come to its end.
Busy(s) == s.queue # <<>> \/ s.bundle # <<>>

CanSleep(s) ==
  /\ ~Busy(s) /\ ~setup.cross_shard
  /\ DOMAIN s.instances = {} /\ DOMAIN s.deferred = {} /\ DOMAIN s.reads = {}

\* An idle shard keeps what it has executed, and wakes up having seen just that.
TrySleep(s) ==
  LET all_executed == Seen(s) = s.executed.watermark /\ s.executed.ahead = {}
  IN  CASE ~CanSleep(s) -> s
        [] CanSleep(s) /\ ~all_executed -> Expect(s, FALSE)
        [] CanSleep(s) /\ all_executed -> [s EXCEPT !.conflicts = [k \in Key |-> s.executed.watermark]]

\* p's shard becomes s, and what it sent is on its way.
Become(p, s, chan) ==
  /\ shard' = [shard EXCEPT ![p] = TrySleep([s EXCEPT !.out = Nothing])]
  /\ net' = [chan EXCEPT ![p] = [q \in Proc |-> IF q = p THEN @[q] ELSE @[q] \o s.out[q]]]

\* A handler runs to its end before the next: it shares nothing with those of others.
Free == \A p \in Proc : ~Busy(shard[p])

\* The client's next command, or all that it has queued.
Submit(p) ==
  /\ Free
  /\ unsent[p] # <<>>
  /\ \E n \in IF setup.batch_commands THEN 1 .. Len(unsent[p]) ELSE {1} :
       /\ Become(p, SubmitCommands(p, shard[p], SubSeq(unsent[p], 1, n)), net)
       /\ unsent' = [unsent EXCEPT ![p] = SubSeq(@, n + 1, Len(@))]
  /\ UNCHANGED <<setup, unread>>

Executed == UNION {ExecutedBy(shard[p]) : p \in Proc}

SubmitARead(p) ==
  /\ Free
  /\ unread[p] # <<>>
  /\ Become(p, SubmitRead(p, shard[p], Head(unread[p]), Executed), net)
  /\ unread' = [unread EXCEPT ![p] = Tail(@)]
  /\ UNCHANGED <<setup, unsent>>

ReceiveFrom(p, q) ==
  /\ Free
  /\ net[q][p] # <<>>
  /\ Become(p, Handle(p, shard[p], q, Head(net[q][p])), [net EXCEPT ![q][p] = Tail(@)])
  /\ UNCHANGED <<setup, unsent, unread>>

\* The handler of a message goes on: what the last delivery released, then the next
\* ack of the bundle.
Continue(p) ==
  LET s == shard[p]
  IN  /\ Busy(s)
      /\ Become(p, IF s.queue # <<>>
                   THEN Deliver(p, [s EXCEPT !.queue = Tail(@)], Head(s.queue))
                   ELSE HandleInstance(p, [s EXCEPT !.bundle = Tail(@)],
                                       Head(s.bundle).src, Head(s.bundle).msg),
                net)
      /\ UNCHANGED <<setup, unsent, unread>>

\* Nothing else is left to do at the moment.
FlushAcks(p) ==
  /\ Free
  /\ shard[p].pending_fast \o shard[p].pending_slow # <<>>
  /\ Become(p, Flush(shard[p]), net)
  /\ UNCHANGED <<setup, unsent, unread>>

Init ==
  /\ setup \in Setups
  /\ shard = [p \in Proc |-> NewShard(p)]
  /\ net = [p \in Proc |-> [q \in Proc |-> <<>>]]
  /\ unsent = setup.commands
  /\ unread = setup.reads

Next ==
  \E p \in Proc :
    \/ Submit(p) \/ SubmitARead(p) \/ Continue(p) \/ FlushAcks(p)
    \/ \E q \in Proc : ReceiveFrom(p, q)

Spec == Init /\ [][Next]_vars

\* Something is left to do.
CanStep ==
  \E p \in Proc :
    \/ unsent[p] # <<>> \/ unread[p] # <<>> \/ Busy(shard[p]) \/ shard[p].ack_recipients # {}
    \/ \E q \in Proc : net[q][p] # <<>>

\* Clients submit, connections deliver, and main loops go on: weak fairness of Next
\* (under Spec a step that changes anything is one of Next), with what enables it
\* written out, as ENABLED of such handlers is beyond TLC.
Fairness == []<>~CanStep \/ []<><<TRUE>>_vars

FairSpec == Spec /\ Fairness
=============================================================================
