-------------------------- MODULE PaxosProperties --------------------------
(***************************************************************************)
(* What PaxosFamily is meant to guarantee, beyond SlotProperties.           *)
(***************************************************************************)
EXTENDS PaxosFamily, SlotProperties

Round(p) == shard[p].round_state

\* Once a slot is decided in some round, on whichever path, no leader of a
\* higher round asks for votes for anything else, although it may have started
\* before and learn of the decision only from the promises it gets.
LaterRoundsKeepDecision ==
  \A d \in decided : \A a \in accepts :
    a.slot = d.slot /\ a.round > d.round => a.v = d.v

\* Within a slot, a replica's round and the round of its last vote never go
\* back, and a vote is for the round it was cast in or an earlier one.
RoundKept(p) ==
  Slot(shard'[p]) = Slot(shard[p]) =>
    LET r == Round(p)
        n == Round(p)'
    IN  /\ n.round >= r.round
        /\ n.max_rv.accept_round >= r.max_rv.accept_round
        /\ n.max_rv.accept_round <= n.round
        /\ n.max_rv.accept_round = r.max_rv.accept_round =>
             n.max_rv.v = r.max_rv.v \/ r.max_rv.accept_round = None

RoundsKept == [][\A p \in AliveReplicas : RoundKept(p)]_vars

\* A shard may be put to sleep, which drops its round, once nothing is under
\* way and nothing is queued: the round holds nothing to drop.
IdleIsClear ==
  \A p \in Proc :
    shard[p].scan = 0 /\ Idle(shard[p]) => Round(p) = ClearRound

\* What the slot layer's reads need of a shard: a vote is kept until its slot is
\* committed, and a majority voted in a slot, or left it, before anyone commits it.
SlotVoting ==
  INSTANCE SlotVotes WITH
    slot  <- [p \in Proc |-> Slot(shard[p])],
    voted <- [p \in Proc |-> Round(p).max_rv # NoRV]

ImplementsVotes == SlotVoting!Spec

-----------------------------------------------------------------------------
(* The commit report *)

\* Slot i - 1 of p's log, reported as fast to a client of p; decided as such.
ReportedFast(p, i) == Log(p)[i].fast /\ \E c \in Commands(Log(p)[i].v) : c.pid = p
DecidedFast(i)     == \E d \in decided : d.slot = i - 1 /\ d.fast

\* A replica that reports a command as fast saw it decided by its proposer's
\* answers alone: an Accept of the slot would have told it otherwise.
ReplicasReportFast ==
  \A p \in AliveReplicas : \A i \in DOMAIN Log(p) : ReportedFast(p, i) => DecidedFast(i)

-----------------------------------------------------------------------------
(* The third phase *)

\* "Removing command that does not exist": whoever decides a slot by counting
\* votes holds the command it decides.
CommitterHasCommand ==
  \A p, q \in Proc :
    ( /\ Running(p) /\ shard[p].scan = 0 /\ net[q][p] # <<>>
      /\ LET m == Head(net[q][p])
         IN  /\ m.type = "Accept" /\ Concerns(p, m, shard[p])
             /\ Mode = "MultiPaxos3P" /\ GetCommitter(m.v) = p
             /\ ~CarriesValue(m)
             /\ PaxosCanCommit(ReceiveAccept(InRound(shard[p], m.round).round_state,
                                             p, m.src, m.round, m.v)) ) =>
    Head(net[q][p]).v \in shard[p].queued_commands
=============================================================================
