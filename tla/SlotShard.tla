----------------------------- MODULE SlotShard -----------------------------
(***************************************************************************)
(* What the algorithms of the slot layer share (ConsensusShard): the       *)
(* queue of commands, batches, the log, the channels.  A shard is a record  *)
(* with at least the fields queued_commands, next_uid, log, panicked; the   *)
(* rest of it, and the handlers, are the algorithm's.                       *)
(***************************************************************************)
EXTENDS CommandBatch, SequencesExt

CONSTANT Workload     \* Workload[p]: how many commands p's client submits

ASSUME WorkloadAssumption == Workload \in [Proc -> Nat]

VARIABLES
  shard,      \* shard[p]: the ConsensusShard of p
  net,        \* net[p][q]: messages from p to q, in flight
  pending     \* pending[p]: commands p's client has still to submit

-----------------------------------------------------------------------------
(* Channels *)

\* What an action sends: a sequence for every destination.
Nothing       == [d \in Proc |-> <<>>]
Then(o1, o2)  == [d \in Proc |-> o1[d] \o o2[d]]
ToOthers(p, D, m) == [d \in Proc |-> IF d \in D \ {p} THEN <<m>> ELSE <<>>]
Send(chan, p, out) == [chan EXCEPT ![p] = Then(@, out)]

\* p's shard becomes s; chan is what is in flight before p sends out.
Become(p, s, chan, out) ==
  /\ shard' = [shard EXCEPT ![p] = s]
  /\ net' = Send(chan, p, out)

-----------------------------------------------------------------------------
(* The queue and the log *)

Slot(s)    == Len(s.log)
Running(p) == ~shard[p].panicked

\* A batch of the commands queued here; none when fewer than two wait.
QueuedSingles(s) == {v \in s.queued_commands : ~IsBatch(v)}
CanBatch(s)      == \E v, w \in QueuedSingles(s) : v # w
\* Mutant: name the last decided slot instead of the one under way.
BatchOfLastSlot(s, p) == NewBatch(p, s.next_uid, Slot(s) - 1, QueuedSingles(s))
BatchOf(s, p)    == NewBatch(p, s.next_uid, Slot(s), QueuedSingles(s))

StoreNewCommand(s, v) ==
  [s EXCEPT !.queued_commands = @ \cup {v}, !.next_uid = @ + 1]

\* Committing removes v and its members from the queue: they must be there.
CommitAsserts(s, v) == {v} \cup v.members \subseteq s.queued_commands

\* A failed assertion stops the process.
Panic(s, ok) == [s EXCEPT !.panicked = s.panicked \/ ~ok]
=============================================================================
