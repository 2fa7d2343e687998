# KCensus in TLA+

Specifications, model-checking configurations and proofs for the Rust program in
`src/src/`, a replicated key-value system whose own protocol is KCensus. Paths
below are relative to `src/src/`.

## 1. The system

A run is a fixed set of processes that know the latency of every link. Some are
*replicas* (they vote), the others only propose and execute; some replicas may
be known, before the run starts, to be faulty. Commands of one *shard* are
ordered in *slots*, one value per slot; shards share nothing but connections.

| Component | State | Operations | Hard parts |
|---|---|---|---|
| Topology (`topology.rs`) | processes, replicas, live replicas, latencies | read only | quorum sizes count faulty replicas |
| Planner (`consensus/kcensus/propagation.rs`) | per proposer: leader, schedule of states and messages | computed once; queries | the schedule must bring enough knowledge to the leaders |
| Node and round state (`kcensus/node_state.rs`, `round_state.rs`) | the census: one report per process; position in each schedule; proposers; received messages; fallback votes | accept, merge, freeze, promise, vote, adopt | merging reports out of order; adopting exactly what may have been decided |
| KCensus shard (`kcensus.rs`) | the round of the current slot | `Spread`, `SpreadValueOnly`, `PaxosAccept`; propose, repropose, commit | fast path racing the fallback; two fallbacks racing |
| Main loop (`consensus.rs`) | slot, queued commands and batches, held messages, uid counter | receive, submit, re-examine, repropose, commit | messages held until their value is here; batches that overlap |
| Reads (`consensus/read_tracker.rs`) | reads waiting for answers or for a slot | start, answer, receive, commit | answers racing commits |
| Shard pool (`consensus/shard_pool.rs`) | awake and sleeping shards | wake, sleep, grow | forgetting state that mattered |
| Leader-based modes (`consensus/paxos_family*`) | round, promises, votes, answers to a pre-accept | prepare, accept, forward, propose, commit | rounds racing; who proposes what was forwarded; requesters that count votes |
| Dependency layer (`consensus/deps.rs`, `deps/dep_set.rs`, `deps/instance.rs`) | per shard: instances and their votes, what was seen per key, what was executed, messages held back | submit, pre-accept, accept, their acknowledgements, commit, sleep | conflicting instances must see each other through any quorums; messages that overtake the commands they are about |
| Dependency execution and reads (`deps/execution.rs`, `deps/read_tracker.rs`) | committed instances, executed prefixes; reads | find the next executable instance, break cycles; answer, serve | one order everywhere from commits that arrive in any |
| Sending (`multi_sink.rs`) | one queue per destination, batched acknowledgements | broadcast, send, flush | order between batched and direct messages |
| Delayer, connector, driver, Cassandra front end, `graph_bench` | I/O | | none of the protocol's |

How they interact. Each process runs one task that owns all its shards: it takes
a message or a client's command, runs the handler to its end, re-examines the
messages it held, and may propose. Handlers send with `MultiSink`, over one TCP
connection per pair. There is no other shared state in the slot layer, so a
handler is atomic and what interleaves is processes and messages. Executed
commands leave through a channel (`committed_commands_tx`), the log here.

The failure model is the code's: no process crashes and recovers, nothing is
persisted, nothing is lost, duplicated or reordered on a connection, nothing is
timed out or retried (`round_state.rs:271-273` says so). Faults only shrink the set of
live replicas before the run. The specifications therefore have no crash or
loss, and the difficult behaviours are orders of arrival between channels.

**One slot of KCensus.** A proposer accepts its own command and sends it along
its schedule. A process accepts the first command it hears of, notes what it
received, and each time it has all messages that the next state of the schedule
depends on, advances to it and emits that state's messages. When the proposer's
leader reaches its last state without having seen a second proposer it decides
(fast path). A process that sees two proposers *freezes*: it stops learning,
promises the highest leader it knows, and from then on sends its census with
every `Spread`. A leader that has a majority of promises for itself adopts what
the census obliges it to, or else a batch of all queued commands, and runs
Paxos phase 2 with its own id as the ballot (fallback). Losing commands stay queued,
and the first leader proposes them again.

**The leader-based modes** share the main loop. In Paxos a proposer prepares a
round of its own (a slot's rounds are ordered by their leaders' ids), adopts
the value accepted in the highest round among a majority of promises, and has it
accepted. In Pando the promises go to a *delegate*, which asks for the
votes in the leader's name. Multi-Paxos starts each slot in the round of one leader,
which asks for votes at once; with three phases the votes also go to the
*committer* of the command's requester, which decides by itself. EPaxos over
slots pre-accepts: a proposer decides on enough answers that agree with
it, and otherwise deduces from a majority of them what may have been decided. Who
may not propose, or finds anything under way, forwards its command to everyone,
and `get_leader` names the process that will propose it.

**Reads** of the slot layer take no slot. A process asks every replica for the first
slot that it has not voted in, holds the answers that name a slot it has not
reached itself, and serves the read once a majority, itself included if it had not
voted, has been counted. A shard without command, read or held message is put to
sleep: its log position and its counter of reads are kept, and its memory serves another.

**The dependency layer** orders nothing but conflicts. An instance (a
command or a batch of one client's) is numbered by the process that coordinates it, and
depends on a prefix of every process's instances: its `DepSet`. Under EPaxos the
coordinator pre-accepts with what it has seen, others add what they have seen, and
it commits at once when a fast quorum agrees with it, or has the union of a majority
accepted first. Under SwiftPaxos everyone answers with what it has seen, one leader
says what is accepted, and each process counts by itself the
fast votes that equal the leader's and the acceptances. Committed instances
are executed once what they depend on is, strongly connected ones in the order of
their uids. A read asks a majority what they have seen of its key.

What makes all of it correct: one decision per slot whatever path takes it; the
fallback proposes what may have been decided on the fast path; every view in a
census is one its owner did hold; promises and votes do not go back; a command
is executed once; the code's assertions hold; everything submitted is executed.
Of reads: they see what anyone had executed before they began, and are served. Of the
dependency layer: an instance commits alike everywhere, two that conflict
name each other one way at least, and all processes execute conflicting
commands in one order.

## 2. The modules

| Module | Models | Contents |
|---|---|---|
| `Topology` | `topology.rs` | constants and their assumption, `Majority` |
| `CommandBatch` | `consensus/message.rs`, uids of `consensus.rs` | commands and batches as uids |
| `Requirements` | `propagation.rs:163-226` | quorum sizes, valid and compatible requirements |
| `PropagationGraph` | `propagation.rs:17-144` | a plan as the constant `Graph`, its queries, what a plan must satisfy, how knowledge spreads along it |
| `KCensusPlan` | `propagation.rs:231-308, 787-1423` | the planner: the plan of a given topology |
| `NodeState` | `node_state.rs` | one report: order, freeze, promise, vote, implied view |
| `RoundState` | `round_state.rs` | the census of one slot on one process |
| `SlotShard` | `consensus.rs`, `multi_sink.rs` | what the algorithms share: queue, batches, log, channels |
| `KCensusShard` | `kcensus.rs`, `consensus.rs` | the behaviour: handlers and the main loop on every process |
| `SlotProperties`, `KCensusProperties` | | what any algorithm, and KCensus in particular, must guarantee |
| `ReplicatedLog` | | the abstract specification: one log, executed in order everywhere |
| `KCensusReports` | | no part of the system: the reports each process ever held of itself, in which the invariant of the proofs is stated |
| `KCensusWarnings` | | no part of the system: the invariant about who was told that a slot is not fast |
| `MCKCensus`, `MCKCensusSeparated` | `configs`-like topologies | small topologies and workloads for TLC; the second assumes `GraphSeparates` |
| `PaxosRoundState` | `paxos_family/round_state.rs`, `message.rs` | a round of the leader-based modes on one process |
| `PaxosFamily` | `paxos_family.rs`, `consensus.rs` | the behaviour of the leader-based modes |
| `PaxosProperties` | | what they must guarantee |
| `LeaderPlans` | `propagation.rs:310-545` | their planners: leaders, committers, delegates |
| `MCPaxosFamily` | `configs`-like topologies | their instances for TLC |
| `SlotVotes` | what reads use of `kcensus.rs` and `paxos_family.rs` (`get_my_v`, commit) | the abstract algorithm that reads run over |
| `ShardPool` | `consensus/shard_pool.rs` | the pool of any kind of shard: wake, sleep, grow |
| `SlotReads` | `consensus/read_tracker.rs`, reads in `consensus.rs` | the behaviour: reads, votes and commits on the shards of a pool |
| `MCSlotReads` | | its instances for TLC |
| `DepSets` | `deps/dep_set.rs` | ids, `DepSet`, `Executed` |
| `DepExecution` | `deps/execution.rs` | what is executed next, cycles, Tarjan's algorithm |
| `DepExecutor` | an agreement that keeps its promises | the behaviour of one process that learns of commits in any order; the order they must be executed in |
| `DepInstance` | `deps/instance.rs` | an instance, its phase and votes |
| `DepReadTracker` | `deps/read_tracker.rs` | reads of the dependency layer |
| `DepShard` | `deps.rs`, acknowledgements of `multi_sink.rs` | the behaviour: handlers of a shard on every process, under EPaxos and SwiftPaxos |
| `DepProperties` | | what it must guarantee |
| `GenericBroadcast` | | the abstract specification: conflicting commands in one order everywhere |
| `MCDepExecutor`, `MCDepShard` | | instances for TLC |
| `KCensusProofs`, `KCensusReportProofs`, `KCensusAgreementProofs`, `KCensusWarnProofs` | | theorems about `KCensusShard` |
| `PaxosStepProofs`, `PaxosProofs` | | theorems about `PaxosFamily` |
| `SlotReadsProofs` | | theorems about `ShardPool` and `SlotReads` |
| `DepProofs` | | theorems about `DepShard` |

**The slot layer** has two systems, `KCensusShard` and `PaxosFamily`, on a common base:
`SlotShard` declares the variables `shard`, `net` and `pending`, and what both
do with a queue, a log and a channel. `NodeState`, `RoundState` and
`PaxosRoundState` are operators on values, as the Rust structs are methods on values.
`SlotProperties` speaks only of logs, so that `Agreement`, `ExecutedOnce` and the
refinement are literally the same statements of both.

Reads are composed with them through a contract. `SlotVotes` says what a
read may count on: a process votes in its current slot, keeps its vote until it
commits the slot, and commits it only after a majority has voted in it or left it.
`SlotReads` has exactly the steps of `SlotVotes` for the algorithm, and
`ImplementsVotes` (`slot <- length of the log, voted <- get_my_v is set`) is checked and
proved of KCensus and of the leader-based modes: what is shown of reads over `SlotVotes` is
so shown over each of them. Every step of `SlotReads` wakes the shard it is about, and
tries to put it to sleep at its end, as the main loop does; `ShardPool` is
instantiated with the slot layer's `WakeUp`, `FallAsleep` and `CanSleep`, the methods
of the `PooledShard` trait.

**The dependency layer** is one system, `DepShard`: `Handle` is the arms of
`process_message`, and a step of a process is `Submit` (a client's command, or
with batching any number of those queued), `SubmitARead`, `ReceiveFrom` or
`FlushAcks`, with the execution, the reads served and the sleep that follow. A handler that
releases held messages, or takes a bundle apart, leaves the rest in `queue` and `bundle`, where
the code has loops, and `Continue` delivers one of them. A handler
shares nothing with those of other processes, so none begins before it is at its end (`Free`): what others
do meanwhile commutes with it. How a run is set up, the protocol included, is picked in
`Init` from `Setups`, so that one run checks them all and one set of properties speaks
of both protocols. How it is chosen what to execute is the parameter `ExecutionOf` of `DepShard`,
which the run gives `Execution` of `DepExecution`, and about which the
proofs say what they assume. `DepExecutor` takes `DepExecution` out of its surroundings and
gives it more instances, with any dependencies that `ConflictsVisible` allows.

**State.** `shard[p]` is the `ConsensusShard` of `p` with the same field names.
`slot` is the length of `log`, which stands for what went down
`committed_commands_tx`. `queued_commands` is a set of uids: a uid determines
its value, so a batch's uid carries its slot and members. `net[p][q]` is the
connection from `p` to `q`. `pending[p]` is what `p`'s client has still to
submit. `decided` and `fallbacks` record what leaders decided and what their
censuses obliged them to, for the properties (`accepts`, in `PaxosFamily`, what
leaders asked votes for); no guard reads them.

**Actions.** `Receive`, `ClientCommand`, `ProcessHeld` and `Repropose` are the
steps of `Consensus::run`: a message, a command, one held message that became
ready, the end of the body. `scan` is the program counter between them: 0 in
`select!`, `i > 0` when the held messages from `i` on are to be examined. Every
message goes through `Process`, whose disjuncts are the arms of
`full_process_message` and `process_message`, sends, commits and reproposals
included. `PaxosFamily` has the same four, with its own
handlers and its own `ready_to_process` exception for other leaders' rounds. Splitting the loop at `scan` adds interleavings with other
processes' steps only; they append to channels and take from them, and see
nothing of the shard.

**Assertions.** An `assert!` or `unwrap` on the way of a handler is an operator
named `...Asserts`; when it is false the process sets `panicked` and stops
(`debug_assert!` included): at the assertion, where going on would make what follows
meaningless, as in the first half of a `Spread` and in a proposal. `NoPanic` says it never happens; the inductive proofs
use the assertions the way the code does, as what holds after them.

**Abstractions.** Values and wire formats; `last_v`, which only checks that two
processes' logs agree; `waited_for` of the report; `my_queued_commands`, empty in
KCensus since proposals can be forwarded; the order of `Vec proposers`, replaced by
a set, with `adopt`'s choice among several made nondeterministic (the run
`three_proposals` shows that there can be a choice, and a wrong one); the order in which a client's command and a message
are served, which is left open where the code prefers messages. A `Spread`
that is handled in one step sends one message for every edge; sends are in
the order of the schedule. A `PaxosRound` is written
as its leader: a process proposes only from the starting round of a slot, so
`round_group` is always 0. `fast_answers` is a set of answers, of which the
counters and scores of the code are functions. `AddLink` follows the path that the code's
Bellman-Ford library would choose except between relays that tie.

In `SlotReads` the algorithm's own messages are left out, and the answers held are a
set, as no replica answers a request twice; read messages
between two processes are in order among themselves, and their order with the
algorithm's is left open. Answers held for a slot are counted in the step that
commits it, where the code counts one, serves, and goes on: a read is served in either case
at the end of the handler. A value stands for a round under way, which
begins with it.

In `DepShard` an id is the pair of a process and its counter, of which a uid is
an encoding; `parked_accepts`, the endorsers and the union of pre-accepts, which the code keeps
up to date, are operators on what they are computed from; the graph of
`execution.rs` lives within one step. A key's `conflicts` are kept through a sleep as the
executed prefix, which is what waking up restores, with an assertion that it is all
that was seen (`can_sleep`). Acknowledgements held back may be flushed at any
time: the code does so when its inputs are empty, which is up to the network. All shards are
alike and share nothing but connections, so there is one; `batch_commands`
lets a client's queue of commands make one instance, as the pipelined client loop does. `log`, `decided` and `missed` are history and no
guard reads them.

**Plans.** The protocol modules take any plan that satisfies the assumptions of
`PropagationGraph`: `GraphWellFormed` and `GraphMessages`, its shape; `GraphRequirements`, that final
knowledge is valid and pairwise compatible, which the planner asserts
(`propagation.rs:1398-1404`); and `GraphKnowledge`, what the layout of a schedule
makes everyone know (`propagation.rs:1173-1390`): it starts from nothing, a state knows of
others only what the messages it waited for knew, and when a leader is at its end it
has heard that the others are too, but for those that take no part in the commit and
whose whole schedule is one message (`OneStep`). For TLC, `MCKCensus`
computes the plan with `KCensusPlan`, so the runs check plans that the
planner's own rules produce for their topology, and TLC evaluates all of this on each.
`GraphSeparates` is not assumed. It says of any two commands that one's proposer is in the quorum
of the other, or else a majority of the replicas can tell, from what the plan makes
them know when they freeze, which of the two cannot have been decided (`Settles`). The
planner does not check it: it holds of every plan of the planner that we computed for four
processes or fewer, `core`'s among them (`MCKCensusSeparated`), fails for some with five,
and fails for the one of `three_proposals`, as it must. Likewise `PaxosFamily` takes any leaders, committers
and delegates that are live replicas, and `MCPaxosFamily` computes them with `LeaderPlans`.

## 3. The runs

Workload `Wabc` says how many commands each client submits.

| Run | Module | Instance | Checks | States |
|---|---|---|---|---|
| `core` | `MCKCensusSeparated` | 3 replicas, best paths relayed through 0, leftovers proposed by 2, W111 | `TypeOK Agreement NoPanic ReplicasReportFast AdoptsFastDecision NoViewAhead PromisesKept ImplementsVotes ImplementsReplicatedLog` | 75,512 |
| `resubmission` | `MCKCensus` | 4 replicas of which 1 faulty, and a non-voting proposer led by 1, W1002, fair | `ExecutedOnce IdleIsClear EveryCommandExecuted` | 226,506 |
| `three_proposals` | `MCKCensus` | 3 replicas and 3 non-voting proposers, W000111 | `Agreement`, violated | |
| `census_without_conflict` | `MCKCensus` | 4 replicas on a line, W0110 | `ExplicitMeansConflict`, violated | |
| `pando` | `MCPaxosFamily` | Pando, 4 replicas on a line, W1100 | `TypeOK LaterRoundsKeepDecision RoundsKept ImplementsVotes` | 272,436 |
| `epaxos` | `MCPaxosFamily` | EPaxos, 3 replicas, unequal triangle, W111 | `Agreement ReplicasReportFast IdleIsClear ImplementsVotes` | 562,584 |
| `multi_paxos_3p` | `MCPaxosFamily` | Multi-Paxos with three phases, the same, fair | `NoPanic ImplementsReplicatedLog ImplementsVotes EveryCommandExecuted` | 150,605 |
| `third_phase` | `MCPaxosFamily` | three phases, 3 replicas and a non-voting requester nearest to 1, W0101 | `CommitterHasCommand`, violated | |
| `reads` | `MCSlotReads` | 3 replicas, 2 shards on pools of 1, a write and 2 reads of one, a read of the other, fair | `TypeOK ReplicaReadsLinearizable PhysicalShardsApart FreeShardsPristine EveryReadServed` | 454,695 |
| `observer_read` | `MCSlotReads` | 3 replicas and a non-voting reader, a write, a read | `ReadsLinearizable`, violated | |
| `dep_execution` | `MCDepExecutor` | 5 instances of 3 processes, 2 keys | `ConflictsInOrder OnlyCommitsMissing OnlyExecutedSkipped` | 22,319 |
| `deps` | `MCDepShard` | 3 replicas and a non-voter, 6 set-ups, fair | `TypeOK NoPanic ConflictsVisible SwiftPaxosAcyclic ReadsLinearizable EverythingServed ImplementsGenericBroadcast` | 238,539 |

What each shows:

- `core` is the protocol under full contention. All three clients may submit at
  any moment, so every pair of proposals may conflict, a third may arrive in
  any phase, fast decisions race fallbacks, and leftovers are proposed
  again, batched, in the next slots. Two of the three pairs have no good direct link, so
  schedules have more states, a view is known by hearsay, and implied views
  (`build_remote_state`) name processes that never sent anything.
- `resubmission` has a client that submits again while its first command is at
  any stage: the same queue holds singles, members of batches and batches. The
  client's process does not vote and has another process lead, so proposer,
  voter and leader are three roles. Every
  live replica is needed, so the messages of the schedule alone must bring the
  highest leader its majority of freezes. Liveness here
  means that no held message and no leftover command is forgotten.
- `pando` has a leader whose promises are counted by a delegate and one that counts them
  itself, as every leader does in Paxos: a lower round decides before, while or after
  a higher one is prepared, commits overtake votes, and a command that lost is
  forwarded and proposed by whoever `get_leader` names. It takes four replicas: among three
  a delegate and the leader it hears from are already a majority, and no promise is
  ever awaited.
- `epaxos` has three conflicting pre-accepts with a fast quorum of two: every
  way the answers of three processes can be split between three proposals.
- `multi_paxos_3p` has a leader that decides by its count and requesters that decide
  by theirs, in either order, the next slot being under way meanwhile. It forwards and batches
  more than any other run, hence the refinement and liveness here.
- `reads` has a write that is voted for, decided and committed at any moment of
  two reads of its shard: the reader's own vote before or after it asks, answers
  held for a slot, and answers of the first read after the shard slept and
  began another. A second logical shard wants the only physical one of each pool.
- `dep_execution` commits five instances in any order, with every choice of
  dependencies that shows conflicting instances to each other one way at least: cycles of two to
  five, within and between processes' logs, that close at any commit. The reference is the
  transitive closure of the dependencies. `OnlyExecutedSkipped` says of what is marked executed, a
  prefix of each process's instances and some beyond it, that it was executed: what
  the proofs assume of execution.
- `deps` has six small set-ups, each aimed at one way the layer is used: an instance
  of two keys that meets a command handed over by a process that does not vote; a client's two
  commands in one instance or two; a write and a read of others; SwiftPaxos' leader
  ordering two proposals, one of which comes from outside its fixed quorum; a
  proposer that does not vote, while a replica reads; two instances whose
  acknowledgements travel in a bundle. All replicas' messages interleave freely.
- Deadlock is checked where the specification is `Spec` and the clients' work ends
  in `Terminated`, so that those runs too show that the system stops only when
  everything is executed. It is off where the run ends when all is done and a liveness
  property says so, and in `dep_execution`, which ends when all is committed.
- The violations are the findings of section 6. `three_proposals` has the constraint
  `Steered`, which keeps TLC on the behaviours in which the interesting messages
  come first; a constraint only leaves behaviours out, so what is violated under it is violated
  without it.

**Bounds.** Of the slot layer the only one is `Workload`: the number of commands each client
submits. Slots, batches, uids and messages are bounded by it, since a slot
decides at least one command and a batch is only made of queued ones. Three
commands on three processes is the smallest workload in which a third proposal meets a
conflict of two others, and in which losers form a batch; two of one client is
the smallest in which a proposer's second command overlaps its first. Three
replicas is the smallest system with a majority that is not everyone; four is
used where a proposer's acceptors can all vote without it. No symmetry is
used: process ids are ballots and are ordered. Reads are bounded by `Writes` and `Reads`:
with one write a read can miss it, wait for it, or begin during it, and with two reads an
answer can be late. The dependency layer is bounded by `Setups`: two instances are
the smallest conflict, and three replicas and a bystander the smallest system with a quorum
that leaves someone out. Cycles longer than two instances can make are the business of
`dep_execution`, whose bound is `Instances`. `AckBatchLimit` is 2 instead of the
code's 17, so that a bundle leaves by its size as well as by a flush.

**Fairness.** `FairSpec` adds that while some process has something to do
(`CanStep`), something happens: weak fairness of `Next`, the weakest there is, with its enabling
condition written out, because TLC does not get through `ENABLED` of handlers of this size.
The runtime polls a task that has something to read, TCP delivers what was sent, a
client submits. Nothing is assumed about who goes first, or which channel it serves. No
more is needed, since nothing repeats: each step takes something in. `SlotReads` assumes besides that a
slot somebody voted in is voted in and committed by all, which is
`EveryCommandExecuted` of the algorithms; nobody has to begin one, so that a read may
not wait for a write.

**Mutants.** Each checked property has an operator (commented `Mutant:`) that replaces one
definition with what a plausible mistake would make of it, and under which TLC
finds the property violated: the wrong slot in a batch, a promise that does not
end the fast path, a lower promise overwriting a higher one, an implied view
that counts processes not yet reached, adopting only votes or only fast values,
members of a batch left in the queue, a round not cleared, an insistent proposer,
a held message passed over, a voted slot called readable, a physical shard freed under its
logical number, dependencies echoed instead of extended, the slow path that forgets what
others have seen, a cycle executed as it was visited, and so on.

## 4. The proofs

`tlapm` checks all of it. Of KCensus, for every topology, plan, workload and first
leader that satisfies the assumptions `TopologyAssumption`,
`GraphAssumption`, `KnowledgeAssumption` and `ShardAssumption` (the first three theorems do not use
`KnowledgeAssumption`):

- The lemmas `...Type` of `KCensusProofs`: every operator on a report and on a
  round returns a value of its
  type. The facts with content are that a plan's final state and a vote of
  the highest round exist (`CHOOSE` is never arbitrary), from the bounded sets
  of process ids, and that a process that is walked along a schedule without a
  conflict has accepted (`AcceptedUnlessConflict`).
- `TypeCorrect`: `Spec => []TypeOK`. `TypeOK` is not inductive: a
  `PaxosAccept` or `Spread` is forwarded by its receiver along edges of the plan
  that start at `dest`, so handlers are well typed only on messages meant for
  the process that handles them. `Typed` adds that each message in flight to `p`
  or held by `p` is addressed to `p`, and that its id belongs to the
  schedule; it is proved inductive action by action.
- `IdleShardIsClear`: `Spec => []IdleIsClear`. Stated alone it is not inductive
  either: the argument is `RoundsHaveCommands`, that a process with any trace of
  a round has a command in its queue. A handler touches the round only
  after the message's command is here, and the queue shrinks only in
  `CommitSlot`, which clears the round. That is why a shard may be put to
  sleep by looking at its queues.
- `PromisesAreKept`: `Spec => PromisesKept`. `KeepsPromise` is
  reflexive and transitive, each operation of `NodeState` keeps it
  or is guarded by one of the code's assertions, a merge never touches one's own
  entry unless `assert_ne!(pid, self.my_pid)` fails, which stops the process before, and each
  action is a sequence of those operations or a commit. It needs `Typed` only.
- `NoViewIsAhead`: `Spec => []NoViewAhead`; `KCensusImplementsVotes`:
  `Spec => ImplementsVotes`; and, if `GraphSeparates`, `SlotsAgree`:
  `Spec => []Agreement`, and `FastDecisionsAreAdopted`: `Spec => []AdoptsFastDecision`. The
  four share one invariant, below.

The processes forget: a census keeps the last report of each, and a decided slot nothing.
So the invariant `Explained` (`KCensusAgreementProofs`) says that *there are*
reports `H[n][q]`, all that `q` ever was in slot `n`, that explain the state:

- The reports of one process are a chain (`Precedes`), which its own entry ends, so that
  any view of `q` that is among them is not ahead of `q`. Each view in a census, in a
  message, or implied by the plan for a message without one, is among them
  (`RoundOK`, `MsgOK`). For implied views this needs the plan: a process that walks to a
  state has received what the state waits for, and what it will make others
  believe of a third process is what one of those messages said of it (`LearnsFromMessages`,
  `Plain`, `ImpliedReports`).
- Each report is `Justified` by others: a vote by the leader's own vote, a place in a
  schedule by its proposer's acceptance, the earlier places and whoever was witnessed.
- A leader's vote in its own round is `Safe`: no lower round can still choose anything else
  (the Paxos argument, on what each replica may yet do, `MayVote`). If `GraphSeparates`, it is
  `FastSafe` too: every command is either the one voted for, or `Dead`: some
  report keeps it from ever meeting its requirements. `AdoptionSafe` is where this
  comes from: a command that `adopt` rules out is dead, and of any two that compete, the
  majority that froze for the leader contains someone who `Settles` which one is.
- A decision can be read off the reports (`Decided`): everyone that matters at the end of the schedule
  (`Full`; `EndIsFull` gets it from `LeaderKnowsTheEnd` when the leader gets to its
  own end), or a majority of votes for a leader's. `DecisionsAgree` then concerns
  reports only: two fast decisions share a member of their quorums,
  each of which is a majority, and the rest is `FastSafe` and `Safe`.

All of it is stable when a process adds reports at the end of its own chain (`Extends`),
which is what each step does: the lemmas `...Explained` follow the handlers, and say which reports
a step adds. `KCensusReportProofs` has the facts about reports alone. The
refinement needs no hypothesis on separation: a decision of either kind was reported by a majority,
and a report that names a command is followed only by such in its slot. As for
hypotheses: without `GraphSeparates` the last two statements are false
(`three_proposals`); with it, TLC checks both on `core`.

- `ReplicasReportSlow` (`KCensusWarnProofs`): if `GraphSeparates`,
  `Spec => []ReplicasReportFast`, and more: no replica logs as fast, for whomever it executes it, a slot
  that was not decided so. A replica infers this from what it saw, so the argument is
  about what it must have seen. The invariant `Warned` (`KCensusWarnings`), beside `Explained`, says that
  a leader that voted in its own round has called every other replica to
  (`CallsAll`): the replica has left the fast path or the slot, or holds the `PaxosAccept` back, or it is
  on its way; and that no `Commit` of a slow slot is ahead of that `PaxosAccept`, on the connection
  (`ComesInOrder`) or in the queue of held messages (`HeldInOrder`).

  What could go wrong is the queue. It is looked at from `scan` on, in order, only after a value
  or a commit, so a `PaxosAccept` that became ready behind the scan would be passed by
  its `Commit`, which is taken from the connection directly. `HeldBack` says that none is ready there.
  It is not true as it stands: a value that comes with a message that must itself wait is stored (`StoreRemoteCommand`), and no
  scan follows. Such a message is of a later slot, in which its maker proposed the
  value (`NewIn`), having committed something else in this one (`Overtaken`). By `DecisionsAgree` the slot then does not decide what
  that `PaxosAccept` names (`NotOvertaken`), and no `Commit` of it comes. This is
  where `GraphSeparates` is used. A command stored by its own process readies nothing, as nobody has named it
  yet (`Made`, `StillNotReady`).

Of reads and pools, for any processes, shards, pool size, writes and reads that satisfy
`TopologyAssumption` and `ReadsAssumption`:

- `ShardsCoverOnce` and `FreeShardsClean`: `Spec => []PhysicalShardsApart` and
  `Spec => []FreeShardsPristine`, each of which needs the other: a pool stays shared
  without overlap because what wakes up is on the free list, and what is on it
  is clean because only a shard that `can_sleep` gets there. `PoolWell` also says that the
  physical shard a logical one is served by is numbered for it. The lemmas of
  `SlotReadsProofs` on pools follow `Claim`, `Wake`, the update and `TrySleep`, and end in
  `ServeLogical`: to the rest of the process, serving a shard changes that
  logical shard alone, awake or not. Nothing after it speaks of physical shards.
- `ReadsTyped`: `Spec => []TypeOK`, from the same invariant.
- `ReadsSeeEarlierWrites`: `Spec => []ReplicaReadsLinearizable`. The invariant `ReadsInv`
  says of every read under way (`ReadInOrder`) that there are a majority `M`, which had
  voted in or left the last slot committed when it was submitted, and a set `A` of replicas
  counted so far, as large as the read's counter; that the answer of each replica is
  in one place only, asked for, in flight, held or counted (`OneAnswer`), so that a
  counter does count different replicas; that the answers of `M` name slots that
  take the reader far enough (`AnswersReach`); and that the reader is there already
  if one of `M` was counted. When the counter reaches a majority, `A` meets `M`. The rest of
  `ReadsInv` is what keeps this: ids are not used again, even by a shard that slept, which is why
  an answer to an older read disturbs none (`IdsKnown`); a slot is left only after a
  majority has voted in it (`SlotsDecided`). A process that does not vote has no place in
  `A`, and the finding about such reads is where the proof stops.

Of the leader-based modes, for every mode, processes, leaders, committers, delegates and
workload that satisfy `TopologyAssumption`, `PaxosFamilyAssumption` and
`WorkloadAssumption`:

- `TypeCorrect`: `Spec => []TypeOK`, handler by handler.
- `PaxosAgreement` and `LaterRoundsKeep`: `Spec => []Agreement` and
  `Spec => []LaterRoundsKeepDecision`. The invariant speaks of `A`, the messages ever
  sent: `Inv` is `\E A : Holds(A)`, where `Traffic` says that what is in flight or
  held is in `A`, and `Good` is about `A` and the rounds. Its first part is
  Paxos: a message says what its sender was asked, promised, voted or decided; votes
  (`VotesKept`) and promises (`VowsKept`) outlive the slot they were made in; a leader asks
  for one value in a round (`OneValue`); and `Safe`: a value that is asked for in a round is the one
  of every lower round that a majority voted in, or can still vote in. A decided slot is `Locked` at a
  majority, which meets the majority of promises of any later leader. Its
  second part is the fast path of EPaxos, `Fast`: a replica gives one answer in
  the starting round, a proposer's requests have one value (`Words`), and
  whoever collects answers that differ can tell the only proposal that may have been decided
  by answers alone (`FastAsked`, `FastAlone`), since a fast quorum and its
  majority meet in answers it has.
- A handler is many small changes in one step. Each is followed by itself, as a
  change of `A`, of one round, or of both that keeps `Good` (`GotoGood`, `PromptGood`,
  `PromiseGood`, `VoteGood`, `AnswerGood`, `SendGood`, `CommitGood`, `DecideGood`,
  `DecideFastGood`, `AdoptGood`, `LeadOnGood`), and a handler is a chain of them. It
  is also shown to `Advance`: nobody but `p` moves, `p` never back within a slot, and
  otherwise to exactly the next slot with a clear round.
- `RoundsNeverGoBack` (`Spec => RoundsKept`), `IdleRoundIsClear`
  (`Spec => []IdleIsClear`) and `PaxosImplementsVotes` (`Spec => ImplementsVotes`)
  follow. The last is the refinement on which reads stand: initial states
  map to initial states and each step to a vote, a commit or a stutter, the commit
  being allowed because `Locked` gives the majority that `SlotVotes` asks for. With
  `ReadsSeeEarlierWrites`, a replica's reads over Paxos, Multi-Paxos, Pando and EPaxos
  are linearizable in every instance.

Of the dependency layer, for every set of processes, set-up (either protocol, with or without
batching, a fixed quorum or any), commands, keys and size of bundles that satisfy
`TopologyAssumption` and `DepShardAssumption`, and for every `ExecutionOf`:

- `CommitsConflictVisibly`: `Spec => []ConflictsVisible`, and `SwiftPaxosCommitsNoCycle`:
  `Spec => []SwiftPaxosAcyclic`.
- `DepReadsLinearizable`: `Spec => []ReadsLinearizable`, and `DepTypeCorrect`:
  `Spec => []TypeOK`, if `ExecutionSound`: of what is committed, execution runs some, and marks as executed
  no more than what it ran and what was executed before. TLC checks this of `Execution` as
  `OnlyExecutedSkipped`, in any order of commits; that it does so for every input is induction over
  the steps of Tarjan's algorithm. No more is assumed: not that what it runs is ready, nor in which order.

Instances are forgotten once executed, and so are votes. So the invariant, `Inv`, says that *there is*
a history `h` that explains the state (`HistoryTells`): which instances were proposed, who has noted which
(`noted`), what each would have each depend on (`votes`), what was decided (`chosen`), and how far each has
come in the others' instances (`heard`); and of reads, what had been noted when they were asked
and whose answers were counted.

- `WellHistory` is what a history satisfies by itself. A process votes once on an instance, when it first
  hears of it, and names all that it had noted about its keys: of two conflicting instances that it votes
  on it names one with the other (`VotesVisible`), and under SwiftPaxos, where it names nothing else,
  not each with the other (`VotesAcyclic`). What is decided is `Backed`: a majority has noted the instance,
  and the dependencies hold what each of it voted for (EPaxos), or are what the leader voted for
  (SwiftPaxos). A `DepSet` names a prefix, so that these statements need proposals to arrive in order:
  `heard` does not go beyond what is still in flight (`ChannelOK`).
- `Local` is what a process knows of it: what its instances say was voted, noted or chosen (`InstanceOK`),
  also what it holds for later (`Holding`), and its conflicts name all it has noted (`Noting`). `NetOK` says the same of
  messages, `NetOnce` that a read is asked, being answered, or counted, in one place.
- Each handler is followed with the history it leaves: `VoteKeepsHistory`, `ChoiceKeepsHistory`,
  `ReadKeepsHistory` and `AnswerKeepsHistory` add to it, and the lemmas `...Fine` say
  what each function of the code makes of a process for which all that is so. What others know
  is not disturbed, since histories grow (`OthersKept`, `NetStep`).
- The first theorem is then about `h` alone (`ChosenVisible`). The majorities of two decisions meet in a process
  that voted on both; whether it is the fast path, the slow one or an early commit only matters
  for `Backed`. Under SwiftPaxos that process is the leader.
- Of a read `ReadOK` says that whoever was counted had noted, when it was asked, what the union of answers names;
  what anyone had executed by then was chosen, hence noted by a majority, by the leader too under SwiftPaxos
  (`ExecutedSeen`). When a majority was counted, or is bounded by the leader's answer, one of
  them names the write (`ServedMissesNothing`).

The lemmas `...Type`, `...Moves`, `...Good`, `...Explained` and `...Fine` follow the handlers one for one, so a change
in a handler breaks the lemma of that handler.

**Only model-checked.** Of KCensus, `ExecutedOnce`, `NoPanic`
and `ImplementsReplicatedLog`. For the last, a decided value's commands must have been submitted, and
executed once, which the invariant does not say yet. Of the leader-based modes, `NoPanic`, which is false with three phases and a
non-voting requester, the reports and `ImplementsReplicatedLog`.
Of the dependency layer, `NoPanic`, two of whose assertions need that execution misses nothing (`complete`, and
that an idle shard has executed all it has seen), and `ImplementsGenericBroadcast`, whose order is the
executor's.
The liveness properties need fairness and ENABLED, which the prover does not
handle. Execution is recursive (Tarjan's algorithm), so what `DepExecution` and `DepExecutor` do stays with
TLC: `ConflictsInOrder`, `OnlyCommitsMissing` and `OnlyExecutedSkipped`. What the planner computes is by recursion over paths and choices, also out of
its reach; proofs take any plan with the assumed shape instead.

## 5. Not modelled, and the plan

Not modelled:

- the SwiftPaxos mode over slots, whose clients count answers;
- whether a read, or a command of the dependency layer, was fast, and `waited_for`;
- a read in a system of one replica, which `insert` does not test for its quorum;
- several shards of the dependency layer at once: they meet only in the bundles of
  acknowledgements, which are then about several;
- the planners of SwiftPaxos and of the Min-effort bound, and the branch-and-bound of KCensus's;
- set-up and clean-up (`Done`, the deadline of an experiment), connections, the artificial
  delay, the clients' load, the Cassandra front end, `graph_bench`, scripts: none has a part in
  what is ordered.

A message that would be a no-op for a sleeping shard is, in the KCensus and Paxos
modules, one that `StaleMessage` answers with nothing; for reads it is explicit in `SlotReads`.

In order:

1. `NoPanic` of `DepShard`: that a parked `Accept` of SwiftPaxos' leader waits for one that is parked
   too needs the order in which the leader voted, which the history could keep.
2. The SwiftPaxos mode in `PaxosFamily`, whose proofs its handlers then extend.
3. Larger set-ups of `DepShard`: three conflicting instances, and reads with two writes.
4. A run for the planner alone: schedules of other shapes, even sizes, and the
   branch-and-bound against `BestChoice`.
5. Proofs about KCensus: those parts of `NoPanic` that say a leader at its end can commit,
   of which `Explained` says most; a test on plans that is weaker than `GraphSeparates` and
   still enough, or an `adopt` that needs none.
6. `ExecutedOnce` and `ImplementsReplicatedLog` of both, and `ReplicasReportFast` of EPaxos over
   slots; sleep as a refinement.

## 6. Findings

- **An assertion that can fail** (`kcensus.rs:173`, run
  `census_without_conflict`). A `Spread` with an explicit census is asserted to
  reveal a conflict. A fallback vote erases the proposer a process had accepted from
  (`node_state.rs:190`), so a census sent after every acceptor of one proposer has
  voted names only the other one. If it is the first thing a process that follows
  that other proposer hears of the conflict, the process panics. In the trace, on four
  replicas in a line, the clients of 1 and 2 submit:
  1. 2 proposes its command and 1 accepts it. 1's client command comes too late for
     a proposal in this slot, so 1 only spreads its value; 0, the first leader,
     proposes it as a leftover, and 3 accepts 0's proposal.
  2. 3 receives 2's proposal too, freezes, promises 2 and sends it its census. With
     1's view and its own, 2 has a majority: it starts the fallback and votes,
     and 1 votes on its `PaxosAccept`. Nobody is seen to follow 2 any more.
  3. 0's proposal went on to 2 (directly and through 1), which relays it with an explicit
     census; 1 adds its own vote and relays it to 0. In that census 0 and 3 follow
     0, 1 and 2 follow nobody.
  4. It reaches 0 before any of the three messages that 2 has sent to 0. 0 has heard of
     proposer 0 alone and has not voted: no conflict, and the assertion fails.
- **A committer without the command** (`paxos_family.rs:300`, run
  `third_phase`). With three phases the committer of a process that does not vote
  counts the votes for its command. The command reaches it from the requester, the
  leader's `Accept`, without the command, from the leader, and `ready_to_process`
  does not wait for a value in another leader's round (`consensus.rs:515`). When the `Accept`
  comes first, the leader's vote and its own are a majority of three, and
  `remove_command` panics with "Removing command that does not exist". The plan
  makes the order unlikely by choosing a committer near the requester.
- **A fallback that adopts the wrong command** (`round_state.rs:341`, run
  `three_proposals`). "Is there a command that could still have met its requirements
  before the freeze? If so it is the only safe candidate" (`round_state.rs:303-305`): a frozen
  process that follows another proposer `c` rules `b` out only if what it knows in its state
  of `c`'s schedule meets `b`'s quorum. In state 0 the plan lets everyone but
  `c` know nothing (`propagation.rs:1174-1178`). A member of `b`'s quorum that has accepted
  `c`'s command and waits for a late message of `c`'s schedule then leaves `b` adoptable,
  although it will never follow `b`. With a third command around, two are adoptable, and `adopt` takes
  the first it heard of. In the run, 0 and 1 accept 4's command, which 0 decides; 2, in state 0 of
  3's schedule, hears 5's command, leads the fallback with 1's promise, adopts
  5's and decides it. `consensus.rs:496` asserts that this cannot be ("last_v should be
  the same in shard {} for slot {}"). It takes three commands in one slot and messages
  of one schedule out of order; a search over small topologies found no such plan with
  fewer than six processes.
- **A stale read of a process that does not vote** (`read_tracker.rs:82`, run
  `observer_read`). A read counts its own process among the majority when that process has not
  voted in its slot, and a process that does not vote never has. With three
  replicas one answer then serves the read, and the replica that gave it may be the
  one that has not voted in a slot that the other two have decided and executed.
  `consensus.rs:559` promises "one round trip to a majority". The dependency
  layer counts its own process only if it is a replica (`deps.rs:414`).

Three more were met on the way, in reports that no run checks: a non-voting process ignores
`PaxosAccept` (`kcensus.rs:263`), so that it calls `fast` what the fallback decided; a
`PaxosAccept` does not prove that the fast route failed, as `command.rs:28-30` argues, since a leader
that has not heard of a fast decision may decide the same command again
(`ReplicasReportFast` is the converse, which does hold); and the dependency layer
reports a forwarded command at its coordinator's instead of its requester's
(`deps.rs:939-943`), where `command.rs:15-16` says otherwise.
