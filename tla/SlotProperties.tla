--------------------------- MODULE SlotProperties ---------------------------
(***************************************************************************)
(* What every algorithm of the slot layer is meant to guarantee, in terms   *)
(* of the shards' logs.                                                     *)
(***************************************************************************)
EXTENDS SlotShard

Log(p) == shard[p].log

-----------------------------------------------------------------------------
(* Safety of the log *)

\* Two processes never decide a slot differently, whether they learn it on the
\* fast path, from the fallback, or from a Commit message.
Agreement ==
  \A p, q \in Proc : \A i \in DOMAIN Log(p) \cap DOMAIN Log(q) :
    Log(p)[i].v = Log(q)[i].v

\* No command is executed twice, although the same command may be proposed,
\* batched and proposed again by several processes and in several slots.
ExecutedOnce ==
  \A p \in Proc : \A i, j \in DOMAIN Log(p) :
    i # j => Commands(Log(p)[i].v) \cap Commands(Log(p)[j].v) = {}

\* None of the assertions the code makes on its way can fail.
NoPanic == \A p \in Proc : ~shard[p].panicked

-----------------------------------------------------------------------------
(* Liveness *)

\* The commands of q's client that p has executed.
ExecutedFor(p, q) ==
  {c \in UNION {Commands(Log(p)[i].v) : i \in DOMAIN Log(p)} : c.pid = q}

\* Whatever conflicts, every command a client submits is eventually executed by
\* every process.
EveryCommandExecuted ==
  <>(\A p, q \in Proc : Cardinality(ExecutedFor(p, q)) = Workload[q])

-----------------------------------------------------------------------------
(* Refinement *)

AbstractLog(p) == [i \in DOMAIN Log(p) |-> Commands(Log(p)[i].v)]
Longest == CHOOSE p \in Proc : \A q \in Proc : Slot(shard[q]) <= Slot(shard[p])

\* A uid counts the batches of its process too, at most one per slot.
TotalWorkload == LET w == [p \in Proc |-> Workload[p]] IN FoldFunction(+, 0, w)
AllCommands   == {NewCommand(p, k) : p \in Proc, k \in 0 .. 2 * TotalWorkload}

Replicated ==
  INSTANCE ReplicatedLog WITH
    Cmd       <- AllCommands,
    submitted <- (UNION {QueuedSingles(shard[p]) : p \in Proc})
                   \cup UNION {UNION {AbstractLog(p)[i] : i \in DOMAIN Log(p)} : p \in Proc},
    chosen    <- AbstractLog(Longest),
    executed  <- [p \in Proc |-> AbstractLog(p)]

\* The shards implement one replicated log.
ImplementsReplicatedLog == Replicated!Spec
=============================================================================
