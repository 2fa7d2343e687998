------------------------- MODULE KCensusProperties -------------------------
(***************************************************************************)
(* What KCensusShard is meant to guarantee.                                 *)
(***************************************************************************)
EXTENDS KCensusShard, SlotProperties

Round(p) == shard[p].round_state

-----------------------------------------------------------------------------
(* Safety of adoption *)

\* A leader whose fallback falls in a slot that some leader decides on the fast
\* path, before or after, is obliged by its census to propose that decision.
AdoptsFastDecision ==
  \A f \in fallbacks : \A d \in decided :
    d.fast /\ d.slot = f.slot => f.choices = {d.v}

-----------------------------------------------------------------------------
(* Soundness of the census *)

\* The views of q held by the processes in its slot, or under way in a message.
ViewsOf(q) ==
  {Round(p).node_states[q] : p \in {x \in Proc : Slot(shard[x]) = Slot(shard[q])}}
  \cup UNION {{Incoming(net[s][d][i])[q] :
                 i \in {j \in DOMAIN net[s][d] :
                          net[s][d][j].type = "Spread" /\ net[s][d][j].slot = Slot(shard[q])}} :
              s, d \in Proc}

\* Nothing a process believes of another, or is about to be told, is ahead of
\* what the other has done: neither a view carried in a message, nor the view
\* the plan implies for a message that carries none (build_remote_state).
NoViewAhead ==
  \A q \in Proc : \A view \in ViewsOf(q) : ~Newer(view, Mine(Round(q), q))

\* From n to o, the promised leader and the last vote do not go down, what was
\* accepted changes only by a later vote, and once frozen, so does what is known.
KeepsPromise(n, o) ==
  /\ o.prepared_for >= n.prepared_for
  /\ o.accept_round >= n.accept_round
  /\ o.accept_round = n.accept_round =>
       /\ n.v # NoV => o.v = n.v /\ o.k_proposer = n.k_proposer
       /\ IsFrozen(n) => o.k_state = n.k_state

\* Within a slot a process keeps its promises, however often and in whatever
\* order it is asked to freeze, to prepare and to accept (NodeState's claim that
\* "every field is monotone within a round").
PromisesKept ==
  [][\A p \in Proc :
       Slot(shard'[p]) = Slot(shard[p]) =>
       KeepsPromise(Mine(Round(p), p), Mine(Round(p)', p))]_vars

\* A shard may be put to sleep, which drops its round, once nothing is under
\* way and nothing is queued: at that point the round holds nothing to drop.
IdleIsClear ==
  \A p \in Proc :
    shard[p].scan = 0 /\ Idle(shard[p]) => Round(p) = ClearRound

\* What the slot layer's reads need of a shard: a vote is kept until its slot is
\* committed, and a majority voted in a slot, or left it, before anyone commits it.
SlotVoting ==
  INSTANCE SlotVotes WITH
    slot  <- [p \in Proc |-> Slot(shard[p])],
    voted <- [p \in Proc |-> MyV(shard[p], p) # NoV]

ImplementsVotes == SlotVoting!Spec

\* The message that p will receive next from q.
NextFrom(p, q) == Head(net[q][p])

\* "assert!(!explicit_remote_states && ...)": a process that is handed a census
\* (which only a process in conflict sends) finds a conflict in it.
ExplicitMeansConflict ==
  \A p, q \in Proc :
    ( /\ shard[p].scan = 0 /\ net[q][p] # <<>>
      /\ NextFrom(p, q).type = "Spread" /\ NextFrom(p, q).explicit
      /\ NextFrom(p, q).slot = Slot(shard[p])
      /\ ReadyToProcess(StoreRemoteCommand(shard[p], NextFrom(p, q)), NextFrom(p, q)) ) =>
    HasConflict(Informed(Round(p), p, NextFrom(p, q)), p)

-----------------------------------------------------------------------------
(* The commit report *)

\* Slot i - 1 of p's log, reported as fast to a client of p; decided as such.
ReportedFast(p, i) == Log(p)[i].fast /\ \E c \in Commands(Log(p)[i].v) : c.pid = p
DecidedFast(i)     == \E d \in decided : d.slot = i - 1 /\ d.fast

\* Replicas infer whether their command took the fast route from the messages
\* they saw: a report of `fast' is never wrong.
ReplicasReportFast ==
  \A p \in AliveReplicas : \A i \in DOMAIN Log(p) : ReportedFast(p, i) => DecidedFast(i)
=============================================================================
