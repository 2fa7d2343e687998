------------------------------ MODULE ShardPool ------------------------------
(***************************************************************************)
(* The physical shards of one process, each serving one logical shard at a  *)
(* time.  A logical shard that has nothing left to do is compressed into a   *)
(* small record and its physical shard freed for another; a message or a     *)
(* command wakes it up.  What a shard is, how it is compressed and when it   *)
(* may sleep is the ordering layer's (the PooledShard trait).                *)
(***************************************************************************)
EXTENDS Naturals, SequencesExt

CONSTANTS
  Shard,             \* the logical shards
  NewShard,          \* a physical shard as it is built
  InitialSleeping,   \* a logical shard that was never awake
  WakeUp(_, _, _),   \* physical shard, logical shard, what was kept of it
  FallAsleep(_),     \* what is kept of a physical shard
  CanSleep(_)        \* nothing left to do

\* free is a stack: the lowest indices are handed out first.
NewPool(size) ==
  [sleeping |-> [sh \in Shard |-> InitialSleeping],
   shards   |-> [i \in 1 .. size |-> NewShard],
   active   |-> <<>>,
   free     |-> [i \in 1 .. size |-> size + 1 - i]]

IsActive(pool, sh)    == sh \in DOMAIN pool.active
ActiveShard(pool, sh) == pool.shards[pool.active[sh]]

\* Mutant: the physical shard claimed stays on the free list.
ClaimKeepingFree(pool) ==
  IF pool.free # <<>>
  THEN [index |-> Last(pool.free), pool |-> pool]
  ELSE [index |-> Len(pool.shards) + 1, pool |-> [pool EXCEPT !.shards = Append(@, NewShard)]]

\* A physical shard to serve one more logical shard: the last one freed, or, when
\* more are awake than the pool was sized for, a new one.
Claim(pool) ==
  IF pool.free # <<>>
  THEN [index |-> Last(pool.free), pool |-> [pool EXCEPT !.free = Front(@)]]
  ELSE [index |-> Len(pool.shards) + 1, pool |-> [pool EXCEPT !.shards = Append(@, NewShard)]]

Wake(pool, sh) ==
  IF IsActive(pool, sh) THEN pool
  ELSE LET claim == Claim(pool)
       IN  [claim.pool EXCEPT
              !.shards[claim.index] = WakeUp(@, sh, pool.sleeping[sh]),
              !.active = [lg \in DOMAIN @ \cup {sh} |-> IF lg = sh THEN claim.index ELSE @[lg]]]

\* Mutant: the number of the logical shard is freed.
FreeLogical(pool, sh) ==
  IF ~IsActive(pool, sh) \/ ~CanSleep(ActiveShard(pool, sh)) THEN pool
  ELSE [pool EXCEPT
          !.sleeping[sh] = FallAsleep(ActiveShard(pool, sh)),
          !.active = Restrict(@, DOMAIN @ \ {sh}),
          !.free = Append(@, sh)]

TrySleep(pool, sh) ==
  IF ~IsActive(pool, sh) \/ ~CanSleep(ActiveShard(pool, sh)) THEN pool
  ELSE [pool EXCEPT
          !.sleeping[sh] = FallAsleep(ActiveShard(pool, sh)),
          !.active = Restrict(@, DOMAIN @ \ {sh}),
          !.free = Append(@, pool.active[sh])]

\* The logical shard sh is served by a physical shard that becomes s, and then
\* released if that leaves it nothing to do.
Serve(pool, sh, s) ==
  LET awake == Wake(pool, sh)
  IN  TrySleep([awake EXCEPT !.shards[awake.active[sh]] = s], sh)

Awake(pool, sh) == ActiveShard(Wake(pool, sh), sh)

-----------------------------------------------------------------------------
\* "Together, active and free cover each index of shards exactly once": no
\* physical shard serves two logical shards, and none is lost.
CoversOnce(pool) ==
  /\ \A i, j \in DOMAIN pool.free : pool.free[i] = pool.free[j] => i = j
  /\ \A sh, tw \in DOMAIN pool.active : pool.active[sh] = pool.active[tw] => sh = tw
  /\ \A sh \in DOMAIN pool.active : \A i \in DOMAIN pool.free : pool.active[sh] # pool.free[i]
  /\ DOMAIN pool.shards =
       {pool.free[i] : i \in DOMAIN pool.free} \cup {pool.active[sh] : sh \in DOMAIN pool.active}
=============================================================================
