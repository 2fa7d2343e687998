---------------------------- MODULE DepProperties ----------------------------
(***************************************************************************)
(* What the dependency layer is meant to guarantee.                         *)
(***************************************************************************)
EXTENDS DepShard

Held(s)  == (UNION {ToSet(s.deferred[id]) : id \in DOMAIN s.deferred})
              \cup ToSet(s.queue) \cup ToSet(s.bundle)
Msgs(s)  == {h.msg : h \in Held(s)} \cup ToSet(s.pending_fast) \cup ToSet(s.pending_slow)

IsInstance(i) ==
  /\ i.leader \in AliveReplicas
  /\ i.commands \in Seq(Cmd)
  /\ i.deps \in DepSet
  /\ i.phase \in {PreAccepted, Accepted, Committed}
  /\ DOMAIN i.preaccepts \subseteq AliveReplicas
  /\ \A r \in DOMAIN i.preaccepts : i.preaccepts[r] \in DepSet
  /\ i.accept_acked \subseteq AliveReplicas
  /\ i.coordinator_deps \in DepSet \cup {NoDepSet}

TypeOK ==
  /\ setup \in Setups
  /\ DOMAIN shard = Proc
  /\ \A p \in Proc :
       /\ shard[p].conflicts \in [Key -> DepSet]
       /\ shard[p].executed.watermark \in DepSet
       /\ shard[p].executed.ahead \subseteq Id
       /\ DOMAIN shard[p].instances \subseteq Id
       /\ \A id \in DOMAIN shard[p].instances : IsInstance(shard[p].instances[id])
       /\ \A m \in Msgs(shard[p]) : m.id \in Id
       /\ shard[p].out = Nothing

\* None of the assertions the code makes on its way can fail: what an Accept names
\* is accepted or parked, an ack repeats a proposal that has arrived, and an idle
\* shard has executed all it has seen.
NoPanic == \A p \in Proc : ~shard[p].panicked

\* What is committed at one process or another, as pairs of an instance and its commit.
CommittedAnywhere == UNION {{<<id, shard[p].decided[id]>> : id \in DOMAIN shard[p].decided} : p \in Proc}

\* Everyone commits an instance with the same dependencies, and of two instances that
\* conflict one names the other: by the votes that reached its own decision, however
\* late it heard of the other.
ConflictsVisible ==
  \A x, y \in CommittedAnywhere :
    /\ x[1] = y[1] => x[2] = y[2]
    /\ x[1] # y[1] /\ x[2].keys \cap y[2].keys # {} =>
         Includes(x[2].deps, y[1]) \/ Includes(y[2].deps, x[1])

\* SwiftPaxos has no cycles: no two instances name each other.
SwiftPaxosAcyclic ==
  EPaxos \/ \A x, y \in CommittedAnywhere :
              x[1] # y[1] => ~(Includes(x[2].deps, y[1]) /\ Includes(y[2].deps, x[1]))

\* A read sees every write that some process had executed before it was submitted.
ReadsLinearizable == \A p \in Proc : shard[p].missed = {}

AllCommands == UNION {ToSet(setup.commands[p]) : p \in Proc}

\* Whatever is submitted is executed by every process, and every read is served.
EverythingServed ==
  <>(\A p \in Proc : /\ ExecutedBy(shard[p]) = AllCommands
                     /\ unread[p] = <<>> /\ shard[p].reads = <<>>)

Broadcast ==
  INSTANCE GenericBroadcast WITH
    submitted <- AllCommands \ UNION {ToSet(unsent[p]) : p \in Proc},
    delivered <- [p \in Proc |-> FlattenSeq(shard[p].log)]

\* The processes implement generic broadcast: they execute what was submitted, each
\* command once, and conflicting ones in one order.
ImplementsGenericBroadcast == Broadcast!Spec
=============================================================================
