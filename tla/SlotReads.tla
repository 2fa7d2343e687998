------------------------------ MODULE SlotReads ------------------------------
(***************************************************************************)
(* Reads of the slot layer, and the shards they keep awake.  A read takes   *)
(* no slot: it asks every replica for its next readable slot, past the one   *)
(* it voted in, and is served once a majority has answered with slots that   *)
(* its own process has reached.                                             *)
(*                                                                         *)
(* The algorithm that orders the slots is SlotVotes, which KCensusShard and  *)
(* PaxosFamily implement: here a process votes in a slot and commits it.     *)
(* Its messages are left out, and with them their order among the requests   *)
(* and responses that share their connections.                              *)
(***************************************************************************)
EXTENDS Topology, SequencesExt

CONSTANTS
  Shard,      \* the logical shards of every process
  PoolSize,   \* physical shards built before the run
  Writes,     \* Writes[sh]: how many slots of sh the clients' writes fill
  Reads       \* Reads[p][sh]: how many reads of sh p's client submits

ASSUME ReadsAssumption ==
  /\ IsFiniteSet(Shard)
  /\ PoolSize \in 1 .. Cardinality(Shard)
  /\ Writes \in [Shard -> Nat]
  /\ Reads \in [Proc -> [Shard -> Nat]]

VARIABLES
  pool,       \* pool[p]: the ShardPool of p
  net,        \* net[p][q]: ReadRequests and ReadResponses from p to q, in flight
  unread,     \* unread[p][sh]: reads p's client has still to submit
  served      \* history: the reads served

vars == <<pool, net, unread, served>>

-----------------------------------------------------------------------------
(* Messages *)

ReadRequest  == [type : {"ReadRequest"}, shard : Shard, id : Nat]
ReadResponse == [type : {"ReadResponse"}, shard : Shard, id : Nat, next_readable_slot : Nat,
                 from : Proc]    \* history: whose answer it is

\* m goes from p to those in D; the first message from p to q is taken out.
Push(chan, p, D, m) == [chan EXCEPT ![p] = [q \in Proc |-> IF q \in D THEN Append(@[q], m) ELSE @[q]]]
Pop(p, q)           == [net EXCEPT ![p][q] = Tail(@)]

-----------------------------------------------------------------------------
(* A physical shard, as far as reads go: where it is in the log, whether it   *)
(* has a value for that slot, its ReadTracker and the responses it holds, a   *)
(* set because no replica answers a request twice and none has a turn.        *)

ReadOnlyCommand ==
  [ready_count : Nat, local_ready : BOOLEAN,
   since : Nat]    \* history: how many slots some process had committed

IsPhysicalShard(s) ==
  /\ s.shard_id \in Shard
  /\ s.slot \in Nat
  /\ s.voted \in BOOLEAN
  /\ s.next_id \in Nat
  /\ DOMAIN s.reads \subseteq Nat
  /\ \A id \in DOMAIN s.reads : s.reads[id] \in ReadOnlyCommand
  /\ s.queued_messages \subseteq ReadResponse

NewPhysicalShard ==
  [shard_id |-> CHOOSE sh \in Shard : TRUE, slot |-> 0, voted |-> FALSE, next_id |-> 0,
   reads |-> <<>>, queued_messages |-> {}]

SleepingShard    == [slot : Nat, next_id : Nat]
NewSleepingShard == [slot |-> 0, next_id |-> 0]

WakeUp(s, sh, kept) ==
  [s EXCEPT !.shard_id = sh, !.slot = kept.slot, !.next_id = kept.next_id]

\* Mutant: the ids of reads start over with every sleep.
FallAsleepForgettingIds(s) == [slot |-> s.slot, next_id |-> 0]

FallAsleep(s) == [slot |-> s.slot, next_id |-> s.next_id]

\* Mutant: a read waits without keeping its shard awake.
CanSleepWhileReading(s) == ~s.voted /\ s.queued_messages = {}

\* A round is under way at least as long as the process has a value for it.
CanSleep(s) == ~s.voted /\ s.queued_messages = {} /\ DOMAIN s.reads = {}

\* Nothing of the last logical shard it served is left in it.
IsPristine(s) == ~s.voted /\ s.queued_messages = {} /\ DOMAIN s.reads = {}

Pool == INSTANCE ShardPool WITH
          NewShard <- NewPhysicalShard, InitialSleeping <- NewSleepingShard

Serve(p, sh, s) == pool' = [pool EXCEPT ![p] = Pool!Serve(@, sh, s)]
Awake(p, sh)    == Pool!Awake(pool[p], sh)

\* A logical shard, awake or asleep.
Logical(p, sh) ==
  IF Pool!IsActive(pool[p], sh) THEN Pool!ActiveShard(pool[p], sh)
  ELSE WakeUp(NewPhysicalShard, sh, pool[p].sleeping[sh])

\* p has voted in slot n of sh, or left it.
VotedIn(p, sh, n) ==
  \/ Logical(p, sh).slot > n
  \/ Logical(p, sh).slot = n /\ Logical(p, sh).voted

\* The slots of sh that some process has committed.
Committed(sh) == {n \in 0 .. Writes[sh] : \E p \in Proc : Logical(p, sh).slot = n}
LastCommitted(sh) == CHOOSE n \in Committed(sh) : \A m \in Committed(sh) : m <= n

-----------------------------------------------------------------------------
(* The ReadTracker *)

InsertRead(s, since) ==
  [s EXCEPT
     !.reads = [id \in DOMAIN @ \cup {s.next_id} |->
                  IF id # s.next_id THEN @[id]
                  ELSE [ready_count |-> IF s.voted THEN 0 ELSE 1,
                        local_ready |-> ~s.voted, since |-> since]],
     !.next_id = @ + 1]

\* Every read counts one more of its answers in `heard', and its own process if local.
Counted(s, heard, local) ==
  [id \in DOMAIN s.reads |->
     LET roc == s.reads[id]
     IN  [roc EXCEPT
            !.ready_count = @ + Cardinality({m \in heard : m.id = id})
                              + IF local /\ ~roc.local_ready THEN 1 ELSE 0,
            !.local_ready = @ \/ local]]

HaveQuorum(reads) == {id \in DOMAIN reads : reads[id].ready_count >= Majority}

\* p's shard counts the answers heard; the reads that have a majority are served
\* to the client, which has by then executed all that this shard committed.
CountAnswers(p, s, heard, local) ==
  LET counted == Counted(s, heard, local)
      done    == {id \in HaveQuorum(counted) : local \/ \E m \in heard : m.id = id}
  IN  /\ Serve(p, s.shard_id, [s EXCEPT !.reads = Restrict(counted, DOMAIN counted \ done)])
      /\ served' = served \cup {[pid |-> p, shard |-> s.shard_id, id |-> id,
                                 since |-> counted[id].since, slot |-> s.slot] : id \in done}

-----------------------------------------------------------------------------
(* The steps of p *)

\* The client of p submits a read.
StartRead(p, sh) ==
  /\ unread[p][sh] > 0
  /\ LET s == Awake(p, sh)
     IN  /\ Serve(p, sh, InsertRead(s, LastCommitted(sh)))
         /\ net' = Push(net, p, AliveReplicas \ {p},
                        [type |-> "ReadRequest", shard |-> s.shard_id, id |-> s.next_id])
  /\ unread' = [unread EXCEPT ![p][sh] = @ - 1]
  /\ UNCHANGED served

\* Mutant: a slot that the process voted in counts as readable.
CurrentSlot(s) == s.slot

\* Mutant: a reader waits for one more slot than it needs.
SlotAfter(s) == s.slot + 1

\* The first slot that s may not have voted in: all decided ones are before it.
NextReadable(s) == s.slot + IF s.voted THEN 1 ELSE 0

\* A request is answered at once, by a shard woken up for it if need be.
AnswerRequest(p, q) ==
  /\ net[q][p] # <<>>
  /\ LET m == Head(net[q][p])
         s == Awake(p, m.shard)
     IN  /\ m.type = "ReadRequest"
         /\ Serve(p, m.shard, s)
         /\ net' = Push(Pop(q, p), p, {q},
                        [type |-> "ReadResponse", shard |-> s.shard_id, id |-> m.id,
                         next_readable_slot |-> NextReadable(s), from |-> p])
  /\ UNCHANGED <<unread, served>>

\* A response wakes nobody up: a sleeping shard has no read.
IsNoopForSleepingShard(p, m) == m.type = "ReadResponse" /\ ~Pool!IsActive(pool[p], m.shard)

\* A response that names a slot not reached yet is held.
ReceiveAnswer(p, q) ==
  /\ net[q][p] # <<>>
  /\ LET m     == Head(net[q][p])
         noop  == IsNoopForSleepingShard(p, m)
         s     == Awake(p, m.shard)
         ready == m.next_readable_slot <= s.slot
     IN  /\ m.type = "ReadResponse"
         /\ \/ /\ noop
               /\ UNCHANGED <<pool, served>>
            \/ /\ ~noop /\ ~ready
               /\ Serve(p, m.shard, [s EXCEPT !.queued_messages = @ \cup {m}])
               /\ UNCHANGED served
            \/ /\ ~noop /\ ready
               /\ CountAnswers(p, s, {m}, FALSE)
  /\ net' = Pop(q, p)
  /\ UNCHANGED unread

\* p has no value yet for its current slot.
CanVote(p, sh) == Logical(p, sh).slot < Writes[sh] /\ ~Logical(p, sh).voted

Vote(p, sh) ==
  /\ CanVote(p, sh)
  /\ Serve(p, sh, [Awake(p, sh) EXCEPT !.voted = TRUE])
  /\ UNCHANGED <<net, unread, served>>

\* p's current slot is decided, possibly by p.
CanCommit(p, sh) ==
  /\ Logical(p, sh).slot < Writes[sh]
  /\ Cardinality({q \in AliveReplicas :
       q = p \/ VotedIn(q, sh, Logical(p, sh).slot)}) >= Majority

\* p commits its current slot.  Its reads are ready here from now on, and the
\* responses held for the slot p comes to are counted.
CommitSlot(p, sh) ==
  /\ CanCommit(p, sh)
  /\ LET s     == [Awake(p, sh) EXCEPT !.slot = @ + 1, !.voted = FALSE]
         heard == {m \in s.queued_messages : m.next_readable_slot <= s.slot}
     IN  CountAnswers(p, [s EXCEPT !.queued_messages = @ \ heard], heard, TRUE)
  /\ UNCHANGED <<net, unread>>

\* Another process has already voted in p's current slot, or left it.
CanFollow(p, sh) ==
  /\ CanVote(p, sh)
  /\ \E q \in Proc : VotedIn(q, sh, Logical(p, sh).slot)

-----------------------------------------------------------------------------
Init ==
  /\ pool = [p \in Proc |-> Pool!NewPool(PoolSize)]
  /\ net = [p \in Proc |-> [q \in Proc |-> <<>>]]
  /\ unread = Reads
  /\ served = {}

Step(p) ==
  \/ \E sh \in Shard : StartRead(p, sh) \/ Vote(p, sh) \/ CommitSlot(p, sh)
  \/ \E q \in Proc : AnswerRequest(p, q) \/ ReceiveAnswer(p, q)

Next == \E p \in Proc : Step(p)

Spec == Init /\ [][Next]_vars

\* What must go on: clients submit, messages arrive, and the algorithms bring a
\* slot that somebody voted in to its end everywhere.
CanProgress(p) ==
  \/ \E sh \in Shard : unread[p][sh] > 0 \/ CanFollow(p, sh) \/ CanCommit(p, sh)
  \/ \E q \in Proc : net[q][p] # <<>>

\* While something must go on, something happens.  No more is needed, as every
\* step is one of finitely many; who takes it, and which, is left open.
Fairness == []<>(\A p \in Proc : ~CanProgress(p)) \/ []<><<TRUE>>_vars

FairSpec == Spec /\ Fairness

-----------------------------------------------------------------------------
(* Properties *)

IsPool(l) ==
  /\ l.sleeping \in [Shard -> SleepingShard]
  /\ \A i \in DOMAIN l.shards : IsPhysicalShard(l.shards[i])
  /\ DOMAIN l.active \subseteq Shard
  /\ \A sh \in DOMAIN l.active : l.active[sh] \in DOMAIN l.shards
  /\ l.free \in Seq(DOMAIN l.shards)

TypeOK ==
  /\ DOMAIN pool = Proc
  /\ \A p \in Proc : IsPool(pool[p])
  /\ net \in [Proc -> [Proc -> Seq(ReadRequest \cup ReadResponse)]]
  /\ unread \in [Proc -> [Shard -> Nat]]
  /\ served \subseteq [pid : Proc, shard : Shard, id : Nat, since : Nat, slot : Nat]

\* A read is linearizable when it sees every write that any process had executed
\* before the read was submitted.
Linearizable(read) == read.slot >= read.since

\* Every read of a replica sees what was executed before it, although slots are
\* voted in and committed between its request, the answers and their counting,
\* and although answers to older reads arrive late, at shards that slept.
ReplicaReadsLinearizable == \A read \in served : read.pid \in AliveReplicas => Linearizable(read)

\* The same of every process: "A read costs one round trip to a majority".
ReadsLinearizable == \A read \in served : Linearizable(read)

\* The physical shards of a process are shared without overlap or loss.
PhysicalShardsApart == \A p \in Proc : Pool!CoversOnce(pool[p])

\* A physical shard that is handed out holds nothing of the last shard it served
\* (the assertions of wake_up).
FreeShardsPristine ==
  \A p \in Proc : \A i \in DOMAIN pool[p].free : IsPristine(pool[p].shards[pool[p].free[i]])

\* Every read is served, even if nobody writes any more.
ServedTo(p, sh) == {read \in served : read.pid = p /\ read.shard = sh}
EveryReadServed ==
  <>(\A p \in Proc : \A sh \in Shard : Cardinality(ServedTo(p, sh)) = Reads[p][sh])
=============================================================================
