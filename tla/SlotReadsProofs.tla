--------------------------- MODULE SlotReadsProofs ---------------------------
(***************************************************************************)
(* What holds of the pools and of the reads of SlotReads for every number   *)
(* of processes, shards, physical shards, writes and reads.                 *)
(***************************************************************************)
EXTENDS SlotReads, FiniteSetTheorems, WellFoundedInduction, TLAPS

-----------------------------------------------------------------------------
(* The shape of a pool, and what each of its operations keeps of it *)

IsPoolRecord(l) ==
  /\ l = [sleeping |-> l.sleeping, shards |-> l.shards, active |-> l.active, free |-> l.free]
  /\ Len(l.shards) \in Nat
  /\ l.shards = [i \in 1 .. Len(l.shards) |-> l.shards[i]]
  /\ l.active = [sh \in DOMAIN l.active |-> l.active[sh]]
  /\ l.free \in Seq(Nat)

\* A physical shard is a value of its type, and nothing more; it holds finitely many messages.
IsShard(s) ==
  /\ s = [shard_id |-> s.shard_id, slot |-> s.slot, voted |-> s.voted, next_id |-> s.next_id,
          reads |-> s.reads, queued_messages |-> s.queued_messages]
  /\ s.reads = [id \in DOMAIN s.reads |-> s.reads[id]]
  /\ IsPhysicalShard(s)
  /\ IsFiniteSet(s.queued_messages)

ShardsWell(l) ==
  /\ l.sleeping \in [Shard -> SleepingShard]
  /\ DOMAIN l.active \subseteq Shard
  /\ \A i \in DOMAIN l.shards : IsShard(l.shards[i])
  /\ \A sh \in DOMAIN l.active : l.shards[l.active[sh]].shard_id = sh

FreeIsPristine(l) == \A i \in DOMAIN l.free : IsPristine(l.shards[l.free[i]])

PoolWell(l) == IsPoolRecord(l) /\ Pool!CoversOnce(l) /\ FreeIsPristine(l) /\ ShardsWell(l)

\* What sh is to the rest of the process, awake or asleep.
LogicalIn(l, sh) ==
  IF Pool!IsActive(l, sh) THEN Pool!ActiveShard(l, sh)
  ELSE WakeUp(NewPhysicalShard, sh, l.sleeping[sh])

\* A function on 1 .. n is a sequence of length n.
LEMMA SequenceLength ==
  ASSUME NEW f, NEW n \in Nat, DOMAIN f = 1 .. n, f = [i \in DOMAIN f |-> f[i]]
  PROVE  Len(f) = n
OBVIOUS

\* A shard with nothing but its place in the log.
Quiet(sh, slot, next_id) ==
  [shard_id |-> sh, slot |-> slot, voted |-> FALSE, next_id |-> next_id,
   reads |-> <<>>, queued_messages |-> {}]

LEMMA QuietIsShard ==
  ASSUME NEW sh \in Shard, NEW slot \in Nat, NEW next_id \in Nat
  PROVE  IsShard(Quiet(sh, slot, next_id)) /\ IsPristine(Quiet(sh, slot, next_id))
<1>1. DOMAIN <<>> = {} /\ <<>> = [id \in DOMAIN <<>> |-> <<>>[id]]
  OBVIOUS
<1> QED BY <1>1, FS_EmptySet DEF Quiet, IsShard, IsPhysicalShard, IsPristine

LEMMA NewShardIsQuiet == \E sh \in Shard : NewPhysicalShard = Quiet(sh, 0, 0)
<1>1. Shard # {}
  <2>1. 1 <= Cardinality(Shard)
    BY ReadsAssumption, FS_CardinalityType
  <2> QED BY <2>1, FS_EmptySet
<1> QED BY <1>1 DEF NewPhysicalShard, Quiet

\* A logical shard wakes up the same in every physical one that is pristine.
LEMMA WakeUpIsQuiet ==
  ASSUME NEW s, IsShard(s), IsPristine(s), NEW sh \in Shard, NEW kept \in SleepingShard
  PROVE  /\ WakeUp(s, sh, kept) = Quiet(sh, kept.slot, kept.next_id)
         /\ IsShard(WakeUp(s, sh, kept))
<1>1. kept.slot \in Nat /\ kept.next_id \in Nat
  BY DEF SleepingShard
<1>2. s.reads = <<>>
  BY DEF IsShard, IsPristine
<1>3. WakeUp(s, sh, kept) = Quiet(sh, kept.slot, kept.next_id)
  <2>1. PICK a, b, c, d, e, f :
          s = [shard_id |-> a, slot |-> b, voted |-> c, next_id |-> d,
               reads |-> e, queued_messages |-> f]
    BY DEF IsShard
  <2>2. c = FALSE /\ e = <<>> /\ f = {}
    BY <1>2, <2>1 DEF IsShard, IsPhysicalShard, IsPristine
  <2>3. WakeUp(s, sh, kept) =
          [shard_id |-> sh, slot |-> kept.slot, voted |-> c, next_id |-> kept.next_id,
           reads |-> e, queued_messages |-> f]
    <3>1. WakeUp(s, sh, kept) =
            [[[s EXCEPT !.shard_id = sh] EXCEPT !.slot = kept.slot] EXCEPT !.next_id = kept.next_id]
      BY DEF WakeUp
    <3>2. [s EXCEPT !.shard_id = sh] =
            [shard_id |-> sh, slot |-> b, voted |-> c, next_id |-> d,
             reads |-> e, queued_messages |-> f]
      BY <2>1
    <3> QED BY <3>1, <3>2
  <2> QED BY <2>2, <2>3 DEF Quiet
<1> QED BY <1>1, <1>3, QuietIsShard

\* A pool as it is built: everything is free and nothing was ever used.
LEMMA NewPoolWell ==
  ASSUME NEW size \in Nat
  PROVE  PoolWell(Pool!NewPool(size))
<1> DEFINE l == Pool!NewPool(size)
<1>1. /\ l.sleeping = [sh \in Shard |-> NewSleepingShard]
      /\ l.shards = [i \in 1 .. size |-> NewPhysicalShard]
      /\ l.active = <<>>
      /\ l.free = [i \in 1 .. size |-> size + 1 - i]
      /\ l = [sleeping |-> l.sleeping, shards |-> l.shards,
              active |-> l.active, free |-> l.free]
  BY DEF Pool!NewPool
<1> HIDE DEF l
<1>2. IsPristine(NewPhysicalShard) /\ IsShard(NewPhysicalShard)
  BY NewShardIsQuiet, QuietIsShard
<1>3. Len(l.shards) = size
  BY <1>1
<1>4. l.free \in Seq(Nat)
  <2>1. \A i \in 1 .. size : size + 1 - i \in Nat
    OBVIOUS
  <2>2. l.free \in [1 .. size -> Nat]
    BY <1>1, <2>1
  <2> QED BY <2>2
<1>5. IsPoolRecord(l)
  BY <1>1, <1>3, <1>4 DEF IsPoolRecord
<1>6. DOMAIN l.active = {}
  BY <1>1
<1>7. /\ DOMAIN l.free = 1 .. size
      /\ \A i \in 1 .. size : l.free[i] \in 1 .. size
      /\ \A i, j \in 1 .. size : l.free[i] = l.free[j] => i = j
      /\ \A i \in 1 .. size : size + 1 - i \in 1 .. size /\ l.free[size + 1 - i] = i
  BY <1>1
<1>8. Pool!CoversOnce(l)
  <2>1. DOMAIN l.shards = {l.free[i] : i \in DOMAIN l.free}
    BY <1>1, <1>7
  <2> QED BY <1>6, <1>7, <2>1 DEF Pool!CoversOnce
<1>9. FreeIsPristine(l)
  BY <1>1, <1>2, <1>7 DEF FreeIsPristine
<1>10. ShardsWell(l)
  BY <1>1, <1>2, <1>6 DEF ShardsWell, SleepingShard, NewSleepingShard
<1> QED BY <1>5, <1>8, <1>9, <1>10 DEF PoolWell, l

\* Waking a logical shard up hands out a physical one that was free or is new.
LEMMA WakeWell ==
  ASSUME NEW l, PoolWell(l), NEW sh \in Shard
  PROVE  /\ PoolWell(Pool!Wake(l, sh))
         /\ Pool!IsActive(Pool!Wake(l, sh), sh)
         /\ \A tw \in Shard : LogicalIn(Pool!Wake(l, sh), tw) = LogicalIn(l, tw)
<1>1. CASE Pool!IsActive(l, sh)
  BY <1>1 DEF Pool!Wake
<1>2. CASE ~Pool!IsActive(l, sh)
  <2> DEFINE c == Pool!Claim(l)
             k == c.index
             w == Pool!Wake(l, sh)
  <2>1. /\ IsPoolRecord(c.pool)
        /\ c.pool.active = l.active /\ c.pool.sleeping = l.sleeping
        /\ \A i \in DOMAIN c.pool.free :
             /\ c.pool.free[i] # k
             /\ c.pool.free[i] \in DOMAIN c.pool.shards
             /\ IsPristine(c.pool.shards[c.pool.free[i]])
        /\ \A i, j \in DOMAIN c.pool.free : c.pool.free[i] = c.pool.free[j] => i = j
        /\ \A s \in DOMAIN l.active :
             /\ l.active[s] # k
             /\ l.active[s] \in DOMAIN c.pool.shards
             /\ \A i \in DOMAIN c.pool.free : l.active[s] # c.pool.free[i]
        /\ DOMAIN c.pool.shards =
             {k} \cup {c.pool.free[i] : i \in DOMAIN c.pool.free}
                 \cup {l.active[s] : s \in DOMAIN l.active}
        /\ IsPristine(c.pool.shards[k])
        /\ \A i \in DOMAIN c.pool.shards : IsShard(c.pool.shards[i])
        /\ \A s \in DOMAIN l.active : c.pool.shards[l.active[s]] = l.shards[l.active[s]]
    <3>1. CASE l.free # <<>>
      <4> DEFINE n == Len(l.free)
      <4>1. n \in Nat \ {0} /\ DOMAIN l.free = 1 .. n
        BY <3>1 DEF PoolWell, IsPoolRecord
      <4>2. k = l.free[n] /\ c.pool = [l EXCEPT !.free = SubSeq(l.free, 1, n - 1)]
        BY <3>1 DEF Pool!Claim, Pool!Front, Pool!Last
      <4>3. /\ c.pool.free \in Seq(Nat)
            /\ DOMAIN c.pool.free = 1 .. n - 1
            /\ \A i \in 1 .. n - 1 : c.pool.free[i] = l.free[i]
        BY <4>1, <4>2 DEF PoolWell, IsPoolRecord
      <4>4. /\ c.pool.shards = l.shards
            /\ c.pool.active = l.active
            /\ c.pool.sleeping = l.sleeping
        BY <4>2 DEF PoolWell, IsPoolRecord
      <4>5. IsPoolRecord(c.pool)
        BY <4>2, <4>3, <4>4 DEF PoolWell, IsPoolRecord
      <4>6. \A i \in 1 .. n : l.free[i] = k => i = n
        BY <4>1, <4>2 DEF PoolWell, Pool!CoversOnce
      <4>7. DOMAIN c.pool.shards =
              {k} \cup {c.pool.free[i] : i \in DOMAIN c.pool.free}
                  \cup {l.active[s] : s \in DOMAIN l.active}
        <5>1. {l.free[i] : i \in 1 .. n} = {k} \cup {l.free[i] : i \in 1 .. n - 1}
          BY <4>1, <4>2
        <5>2. {l.free[i] : i \in 1 .. n - 1} = {c.pool.free[i] : i \in 1 .. n - 1}
          BY <4>3
        <5>3. DOMAIN l.shards = {l.free[i] : i \in 1 .. n} \cup {l.active[s] : s \in DOMAIN l.active}
          BY <4>1 DEF PoolWell, Pool!CoversOnce
        <5> QED BY <4>3, <4>4, <5>1, <5>2, <5>3
      <4> HIDE DEF c, n
      <4>8. \A i \in 1 .. n - 1 :
              /\ i \in DOMAIN l.free
              /\ l.free[i] # k
              /\ l.free[i] \in DOMAIN l.shards
        BY <4>1, <4>6 DEF PoolWell, Pool!CoversOnce
      <4>9. \A i \in DOMAIN c.pool.free :
              /\ c.pool.free[i] # k
              /\ c.pool.free[i] \in DOMAIN c.pool.shards
              /\ IsPristine(c.pool.shards[c.pool.free[i]])
        BY <4>3, <4>4, <4>8 DEF PoolWell, FreeIsPristine
      <4>10. \A i, j \in DOMAIN c.pool.free : c.pool.free[i] = c.pool.free[j] => i = j
        BY <4>3, <4>8 DEF PoolWell, Pool!CoversOnce
      <4>11. \A s \in DOMAIN l.active :
               /\ l.active[s] # k
               /\ l.active[s] \in DOMAIN c.pool.shards
               /\ \A i \in DOMAIN c.pool.free : l.active[s] # c.pool.free[i]
        <5>1. \A s \in DOMAIN l.active : \A i \in 1 .. n : l.active[s] # l.free[i]
          BY <4>1 DEF PoolWell, Pool!CoversOnce
        <5>2. \A s \in DOMAIN l.active : l.active[s] \in DOMAIN l.shards
          BY DEF PoolWell, Pool!CoversOnce
        <5>3. n \in 1 .. n /\ \A i \in 1 .. n - 1 : i \in 1 .. n
          BY <4>1
        <5> QED BY <4>2, <4>3, <4>4, <5>1, <5>2, <5>3
      <4>12. IsPristine(c.pool.shards[k])
        BY <4>1, <4>2, <4>4 DEF PoolWell, FreeIsPristine
      <4>13. \A i \in DOMAIN c.pool.shards : IsShard(c.pool.shards[i])
        BY <4>4 DEF PoolWell, ShardsWell
      <4> QED BY <4>4, <4>5, <4>7, <4>9, <4>10, <4>11, <4>12, <4>13
    <3>2. CASE l.free = <<>>
      <4> DEFINE n == Len(l.shards)
      <4>1. n \in Nat /\ DOMAIN l.shards = 1 .. n
        BY DEF PoolWell, IsPoolRecord
      <4>2. k = n + 1 /\ c.pool = [l EXCEPT !.shards = Append(l.shards, NewPhysicalShard)]
        BY <3>2 DEF Pool!Claim
      <4>3. c.pool.shards =
              [i \in 1 .. n + 1 |-> IF i <= n THEN l.shards[i] ELSE NewPhysicalShard]
        <5>1. l.shards \in Seq({l.shards[i] : i \in 1 .. n})
          BY <4>1 DEF PoolWell, IsPoolRecord
        <5> QED BY <4>1, <4>2, <5>1 DEF PoolWell, IsPoolRecord
      <4>4. /\ c.pool.active = l.active
            /\ c.pool.sleeping = l.sleeping
            /\ c.pool.free = <<>>
        BY <3>2, <4>2 DEF PoolWell, IsPoolRecord
      <4>5. IsPoolRecord(c.pool)
        <5>1. /\ c.pool.shards = [i \in DOMAIN c.pool.shards |-> c.pool.shards[i]]
              /\ n + 1 \in Nat /\ DOMAIN c.pool.shards = 1 .. n + 1
          BY <4>1, <4>3
        <5>2. Len(c.pool.shards) = n + 1
          BY <5>1, SequenceLength
        <5>3. c.pool = [sleeping |-> c.pool.sleeping, shards |-> c.pool.shards,
                        active |-> c.pool.active, free |-> c.pool.free]
          BY <4>2 DEF PoolWell, IsPoolRecord
        <5>4. c.pool.free \in Seq(Nat)
          BY <4>4
        <5>5. c.pool.active = [s \in DOMAIN c.pool.active |-> c.pool.active[s]]
          BY <4>4 DEF PoolWell, IsPoolRecord
        <5> HIDE DEF c, n
        <5> QED BY <5>1, <5>2, <5>3, <5>4, <5>5 DEF IsPoolRecord
      <4> HIDE DEF c, n
      <4>6. DOMAIN l.free = {} /\ DOMAIN c.pool.free = {}
        BY <3>2, <4>4
      <4>7. DOMAIN l.shards = {l.active[s] : s \in DOMAIN l.active}
        BY <4>6 DEF PoolWell, Pool!CoversOnce
      <4>8. DOMAIN c.pool.shards = {k} \cup DOMAIN l.shards /\ k \notin DOMAIN l.shards
        BY <4>1, <4>2, <4>3
      <4>9. IsPristine(NewPhysicalShard) /\ IsShard(NewPhysicalShard)
        BY NewShardIsQuiet, QuietIsShard
      <4>10. c.pool.shards[k] = NewPhysicalShard
        BY <4>1, <4>2, <4>3
      <4>11. \A i \in DOMAIN l.shards : c.pool.shards[i] = l.shards[i]
        BY <4>1, <4>3
      <4>12. \A i \in DOMAIN l.shards : IsShard(l.shards[i])
        BY DEF PoolWell, ShardsWell
      <4>13. \A s \in DOMAIN l.active : l.active[s] \in DOMAIN l.shards
        BY <4>7
      <4>14. \A i \in DOMAIN c.pool.shards : IsShard(c.pool.shards[i])
        BY <4>8, <4>9, <4>10, <4>11, <4>12
      <4>15. \A s \in DOMAIN l.active : c.pool.shards[l.active[s]] = l.shards[l.active[s]]
        BY <4>11, <4>13
      <4> QED BY <4>4, <4>5, <4>6, <4>7, <4>8, <4>9, <4>10, <4>13, <4>14, <4>15
    <3> QED BY <3>1, <3>2
  <2>2. /\ w.sleeping = l.sleeping
        /\ w.free = c.pool.free
        /\ w.active = [s \in DOMAIN l.active \cup {sh} |->
                          IF s = sh THEN k ELSE l.active[s]]
        /\ w.shards = [c.pool.shards EXCEPT
                          ![k] = WakeUp(c.pool.shards[k], sh, l.sleeping[sh])]
        /\ w = [sleeping |-> w.sleeping, shards |-> w.shards,
                active |-> w.active, free |-> w.free]
    BY <1>2, <2>1 DEF Pool!Wake, IsPoolRecord
  <2> HIDE DEF c, w
  <2>3. IsPoolRecord(w)
    <3>1. DOMAIN w.shards = DOMAIN c.pool.shards /\ w.shards = [i \in DOMAIN w.shards |-> w.shards[i]]
      BY <2>2
    <3>2. Len(c.pool.shards) \in Nat /\ DOMAIN c.pool.shards = 1 .. Len(c.pool.shards)
      BY <2>1 DEF IsPoolRecord
    <3>3. Len(w.shards) = Len(c.pool.shards)
      BY <3>1, <3>2, SequenceLength
    <3>4. w.active = [s \in DOMAIN w.active |-> w.active[s]]
      BY <2>2
    <3>5. w.free \in Seq(Nat)
      BY <2>1, <2>2 DEF IsPoolRecord
    <3> QED BY <2>2, <3>1, <3>2, <3>3, <3>4, <3>5 DEF IsPoolRecord
  <2>4. Pool!CoversOnce(w)
    <3>1. /\ DOMAIN w.active = DOMAIN l.active \cup {sh}
          /\ w.active[sh] = k
          /\ \A s \in DOMAIN l.active : s # sh /\ w.active[s] = l.active[s]
      BY <1>2, <2>2 DEF Pool!IsActive
    <3>2. {w.active[s] : s \in DOMAIN w.active} = {k} \cup {l.active[s] : s \in DOMAIN l.active}
      BY <3>1
    <3>3. DOMAIN w.shards = DOMAIN c.pool.shards
      BY <2>2
    <3>4. \A s, t \in DOMAIN w.active : w.active[s] = w.active[t] => s = t
      BY <2>1, <3>1 DEF Pool!CoversOnce, PoolWell
    <3>5. \A s \in DOMAIN w.active : \A i \in DOMAIN w.free : w.active[s] # w.free[i]
      BY <2>1, <2>2, <3>1
    <3>6. \A i, j \in DOMAIN w.free : w.free[i] = w.free[j] => i = j
      BY <2>1, <2>2
    <3>7. DOMAIN w.shards =
            {w.free[i] : i \in DOMAIN w.free} \cup {w.active[s] : s \in DOMAIN w.active}
      <4>1. {w.free[i] : i \in DOMAIN w.free} = {c.pool.free[i] : i \in DOMAIN c.pool.free}
        BY <2>2
      <4> QED BY <2>1, <3>2, <3>3, <4>1
    <3> QED BY <3>4, <3>5, <3>6, <3>7 DEF Pool!CoversOnce
  <2>5. FreeIsPristine(w)
    BY <2>1, <2>2 DEF FreeIsPristine
  <2>6. l.sleeping[sh] \in SleepingShard
    BY DEF PoolWell, ShardsWell
  <2>7. k \in DOMAIN c.pool.shards /\ IsShard(c.pool.shards[k]) /\ IsPristine(c.pool.shards[k])
    BY <2>1
  <2>8. /\ w.shards[k] = Quiet(sh, l.sleeping[sh].slot, l.sleeping[sh].next_id)
        /\ IsShard(w.shards[k])
    <3>1. w.shards[k] = WakeUp(c.pool.shards[k], sh, l.sleeping[sh])
      BY <2>2, <2>7
    <3> QED BY <2>6, <2>7, <3>1, WakeUpIsQuiet
  <2>9. /\ w.active[sh] = k
        /\ \A s \in DOMAIN l.active :
             /\ s # sh
             /\ w.active[s] = l.active[s]
             /\ w.shards[w.active[s]] = l.shards[l.active[s]]
    BY <1>2, <2>1, <2>2 DEF Pool!IsActive
  <2>10. ShardsWell(w)
    <3>1. \A i \in DOMAIN w.shards : IsShard(w.shards[i])
      BY <2>1, <2>2, <2>8
    <3>2. w.shards[k].shard_id = sh
      BY <2>8 DEF Quiet
    <3>3. DOMAIN w.active = DOMAIN l.active \cup {sh}
      BY <2>2
    <3> QED BY <2>2, <2>9, <3>1, <3>2, <3>3 DEF PoolWell, ShardsWell
  <2>11. ASSUME NEW tw \in Shard
         PROVE  LogicalIn(w, tw) = LogicalIn(l, tw)
    <3>1. CASE tw = sh
      <4>1. LogicalIn(w, tw) = w.shards[k]
        BY <2>2, <2>9, <3>1 DEF LogicalIn, Pool!IsActive, Pool!ActiveShard
      <4>2. LogicalIn(l, tw) = WakeUp(NewPhysicalShard, sh, l.sleeping[sh])
        BY <1>2, <3>1 DEF LogicalIn
      <4>3. LogicalIn(l, tw) = Quiet(sh, l.sleeping[sh].slot, l.sleeping[sh].next_id)
        BY <2>6, <4>2, NewShardIsQuiet, QuietIsShard, WakeUpIsQuiet
      <4> QED BY <2>8, <4>1, <4>3
    <3>2. CASE tw # sh /\ tw \in DOMAIN l.active
      BY <2>2, <2>9, <3>2 DEF LogicalIn, Pool!IsActive, Pool!ActiveShard
    <3>3. CASE tw # sh /\ tw \notin DOMAIN l.active
      BY <2>2, <3>3 DEF LogicalIn, Pool!IsActive
    <3> QED BY <3>1, <3>2, <3>3
  <2>12. sh \in DOMAIN w.active
    BY <2>2
  <2> QED BY <2>3, <2>4, <2>5, <2>10, <2>11, <2>12 DEF PoolWell, Pool!IsActive, w
<1> QED BY <1>1, <1>2

\* Whatever the handler makes of the shard it serves.
LEMMA UpdateWell ==
  ASSUME NEW l, PoolWell(l), NEW sh, Pool!IsActive(l, sh),
         NEW s, IsShard(s), s.shard_id = sh
  PROVE  LET u == [l EXCEPT !.shards[l.active[sh]] = s]
         IN  /\ PoolWell(u)
             /\ LogicalIn(u, sh) = s
             /\ \A tw \in Shard : tw # sh => LogicalIn(u, tw) = LogicalIn(l, tw)
<1> DEFINE u == [l EXCEPT !.shards[l.active[sh]] = s]
<1>1. /\ u.active = l.active
      /\ u.free = l.free
      /\ u.sleeping = l.sleeping
      /\ u.shards = [l.shards EXCEPT ![l.active[sh]] = s]
      /\ u = [sleeping |-> u.sleeping, shards |-> u.shards,
              active |-> u.active, free |-> u.free]
  <2>1. PICK a, b, c, d : l = [sleeping |-> a, shards |-> b, active |-> c, free |-> d]
    BY DEF PoolWell, IsPoolRecord
  <2>2. u = [sleeping |-> a, shards |-> [b EXCEPT ![c[sh]] = s], active |-> c, free |-> d]
    BY <2>1
  <2> HIDE DEF u
  <2> QED BY <2>1, <2>2
<1> HIDE DEF u
<1>2. /\ DOMAIN u.shards = DOMAIN l.shards
      /\ u.shards = [i \in DOMAIN u.shards |-> u.shards[i]]
  BY <1>1
<1>3. Len(l.shards) \in Nat /\ DOMAIN l.shards = 1 .. Len(l.shards)
  BY DEF PoolWell, IsPoolRecord
<1>4. Len(u.shards) = Len(l.shards)
  BY <1>2, <1>3, SequenceLength
<1>5. IsPoolRecord(u)
  BY <1>1, <1>2, <1>3, <1>4 DEF PoolWell, IsPoolRecord
<1>6. Pool!CoversOnce(u)
  BY <1>1, <1>2 DEF PoolWell, Pool!CoversOnce
<1>7. FreeIsPristine(u)
  <2>1. \A i \in DOMAIN l.free : l.free[i] # l.active[sh] /\ l.free[i] \in DOMAIN l.shards
    BY DEF PoolWell, Pool!CoversOnce, Pool!IsActive
  <2> QED BY <1>1, <2>1 DEF PoolWell, FreeIsPristine
<1>8. sh \in DOMAIN l.active /\ l.active[sh] \in DOMAIN l.shards
  BY DEF PoolWell, Pool!CoversOnce, Pool!IsActive
<1>9. u.shards[l.active[sh]] = s
  BY <1>1, <1>8
<1>10. \A tw \in DOMAIN l.active : tw # sh =>
         u.shards[l.active[tw]] = l.shards[l.active[tw]]
  BY <1>1, <1>8 DEF PoolWell, Pool!CoversOnce
<1>11. \A i \in DOMAIN l.shards : IsShard(u.shards[i])
  BY <1>1, <1>8, <1>9 DEF PoolWell, ShardsWell
<1>12. ShardsWell(u)
  BY <1>1, <1>2, <1>8, <1>9, <1>10, <1>11 DEF PoolWell, ShardsWell
<1>13. LogicalIn(u, sh) = s
  BY <1>1, <1>8, <1>9 DEF LogicalIn, Pool!IsActive, Pool!ActiveShard
<1>14. \A tw \in Shard : tw # sh => LogicalIn(u, tw) = LogicalIn(l, tw)
  BY <1>1, <1>10 DEF LogicalIn, Pool!IsActive, Pool!ActiveShard
<1> QED BY <1>5, <1>6, <1>7, <1>12, <1>13, <1>14 DEF PoolWell, u

\* A shard that is put to sleep has nothing left, and gives back its physical one.
LEMMA TrySleepWell ==
  ASSUME NEW l, PoolWell(l), NEW sh \in Shard
  PROVE  /\ PoolWell(Pool!TrySleep(l, sh))
         /\ \A tw \in Shard : LogicalIn(Pool!TrySleep(l, sh), tw) = LogicalIn(l, tw)
<1>1. CASE ~Pool!IsActive(l, sh) \/ ~CanSleep(Pool!ActiveShard(l, sh))
  BY <1>1 DEF Pool!TrySleep
<1>2. CASE Pool!IsActive(l, sh) /\ CanSleep(Pool!ActiveShard(l, sh))
  <2> DEFINE z == Pool!TrySleep(l, sh)
             k == l.active[sh]
             n == Len(l.free)
  <2>1. /\ z.shards = l.shards
        /\ z.sleeping = [l.sleeping EXCEPT ![sh] = FallAsleep(l.shards[k])]
        /\ z.active = [s \in DOMAIN l.active \ {sh} |-> l.active[s]]
        /\ z.free = Append(l.free, k)
        /\ z = [sleeping |-> z.sleeping, shards |-> z.shards,
                active |-> z.active, free |-> z.free]
    BY <1>2 DEF Pool!TrySleep, Pool!Restrict, Pool!ActiveShard, PoolWell, IsPoolRecord
  <2>2. k \in DOMAIN l.shards /\ k \in Nat /\ sh \in DOMAIN l.active
    <3>1. sh \in DOMAIN l.active
      BY <1>2 DEF Pool!IsActive
    <3>2. k \in DOMAIN l.shards
      BY <3>1 DEF PoolWell, Pool!CoversOnce
    <3>3. DOMAIN l.shards \subseteq Nat
      BY DEF PoolWell, IsPoolRecord
    <3> QED BY <3>1, <3>2, <3>3
  <2>3. /\ n \in Nat
        /\ DOMAIN l.free = 1 .. n
        /\ DOMAIN z.free = 1 .. n + 1
        /\ z.free[n + 1] = k
        /\ \A i \in 1 .. n : z.free[i] = l.free[i]
        /\ z.free \in Seq(Nat)
    BY <2>1, <2>2 DEF PoolWell, IsPoolRecord
  <2>4. IsPristine(l.shards[k])
    BY <1>2 DEF CanSleep, IsPristine, Pool!ActiveShard
  <2> HIDE DEF z, k, n
  <2>5. \A i \in DOMAIN z.free : i = n + 1 \/ i \in 1 .. n
    BY <2>3
  <2>6. IsPoolRecord(z)
    BY <2>1, <2>3 DEF PoolWell, IsPoolRecord
  <2>7. Pool!CoversOnce(z)
    <3>1. \A i \in 1 .. n : l.free[i] # k
      BY <2>2, <2>3 DEF PoolWell, Pool!CoversOnce, k
    <3>2. \A i, j \in DOMAIN z.free : z.free[i] = z.free[j] => i = j
      BY <2>3, <2>5, <3>1 DEF PoolWell, Pool!CoversOnce
    <3>3. \A s \in DOMAIN z.active : s \in DOMAIN l.active /\ z.active[s] = l.active[s] /\ l.active[s] # k
      BY <2>1, <2>2 DEF PoolWell, Pool!CoversOnce, k
    <3>4. \A s, t \in DOMAIN z.active : z.active[s] = z.active[t] => s = t
      BY <3>3 DEF PoolWell, Pool!CoversOnce
    <3>5. \A s \in DOMAIN z.active : \A i \in DOMAIN z.free : z.active[s] # z.free[i]
      BY <2>3, <2>5, <3>3 DEF PoolWell, Pool!CoversOnce
    <3>6. {z.free[i] : i \in DOMAIN z.free} = {k} \cup {l.free[i] : i \in 1 .. n}
      <4>1. \A i \in DOMAIN z.free : z.free[i] \in {k} \cup {l.free[j] : j \in 1 .. n}
        BY <2>3, <2>5
      <4>2. \A j \in 1 .. n : j \in DOMAIN z.free /\ z.free[j] = l.free[j]
        BY <2>3
      <4>3. n + 1 \in DOMAIN z.free /\ z.free[n + 1] = k
        BY <2>3
      <4> QED BY <4>1, <4>2, <4>3
    <3>7. {k} \cup {z.active[s] : s \in DOMAIN z.active} = {l.active[s] : s \in DOMAIN l.active}
      <4>1. \A s \in DOMAIN l.active : s = sh \/ s \in DOMAIN z.active
        BY <2>1
      <4>2. k \in {l.active[s] : s \in DOMAIN l.active}
        BY <2>2 DEF k
      <4> QED BY <3>3, <4>1, <4>2 DEF k
    <3>8. DOMAIN l.shards = {l.free[i] : i \in 1 .. n} \cup {l.active[s] : s \in DOMAIN l.active}
      BY <2>3 DEF PoolWell, Pool!CoversOnce
    <3>9. DOMAIN z.shards =
            {z.free[i] : i \in DOMAIN z.free} \cup {z.active[s] : s \in DOMAIN z.active}
      BY <2>1, <3>6, <3>7, <3>8
    <3> QED BY <3>2, <3>4, <3>5, <3>9 DEF Pool!CoversOnce
  <2>8. FreeIsPristine(z)
    BY <2>1, <2>3, <2>4, <2>5 DEF PoolWell, FreeIsPristine
  <2>9. /\ IsShard(l.shards[k])
        /\ l.shards[k].shard_id = sh
        /\ l.shards[k].slot \in Nat
        /\ l.shards[k].next_id \in Nat
    BY <2>2 DEF PoolWell, ShardsWell, IsShard, IsPhysicalShard, k
  <2>10. FallAsleep(l.shards[k]) \in SleepingShard
    BY <2>9 DEF FallAsleep, SleepingShard
  <2>11. ShardsWell(z)
    BY <2>1, <2>10 DEF PoolWell, ShardsWell
  <2>12. l.shards[k] = Quiet(sh, l.shards[k].slot, l.shards[k].next_id)
    <3>1. l.shards[k].reads = <<>>
      BY <2>4, <2>9 DEF IsShard, IsPristine
    <3>2. l.shards[k].voted = FALSE /\ l.shards[k].queued_messages = {}
      BY <2>4, <2>9 DEF IsShard, IsPhysicalShard, IsPristine
    <3> QED BY <2>9, <3>1, <3>2 DEF IsShard, Quiet
  <2>13. ASSUME NEW tw \in Shard
         PROVE  LogicalIn(z, tw) = LogicalIn(l, tw)
    <3>1. CASE tw = sh
      <4> DEFINE kept == FallAsleep(l.shards[k])
      <4>1. LogicalIn(z, tw) = WakeUp(NewPhysicalShard, sh, kept)
        BY <2>1, <3>1 DEF LogicalIn, Pool!IsActive, PoolWell, ShardsWell
      <4>2. LogicalIn(l, tw) = l.shards[k]
        BY <2>2, <3>1 DEF LogicalIn, Pool!IsActive, Pool!ActiveShard, k
      <4>3. kept.slot = l.shards[k].slot /\ kept.next_id = l.shards[k].next_id
        BY DEF FallAsleep
      <4> HIDE DEF kept
      <4>4. WakeUp(NewPhysicalShard, sh, kept) = Quiet(sh, kept.slot, kept.next_id)
        BY <2>10, NewShardIsQuiet, QuietIsShard, WakeUpIsQuiet DEF kept
      <4> QED BY <2>12, <4>1, <4>2, <4>3, <4>4
    <3>2. CASE tw # sh /\ tw \in DOMAIN l.active
      BY <2>1, <3>2 DEF LogicalIn, Pool!IsActive, Pool!ActiveShard
    <3>3. CASE tw # sh /\ tw \notin DOMAIN l.active
      BY <2>1, <3>3 DEF LogicalIn, Pool!IsActive
    <3> QED BY <3>1, <3>2, <3>3
  <2> QED BY <2>6, <2>7, <2>8, <2>11, <2>13 DEF PoolWell, z
<1> QED BY <1>1, <1>2

LEMMA LogicalInType ==
  ASSUME NEW l, PoolWell(l), NEW sh \in Shard
  PROVE  /\ IsShard(LogicalIn(l, sh))
         /\ LogicalIn(l, sh).shard_id = sh
<1>1. CASE sh \in DOMAIN l.active
  <2>1. LogicalIn(l, sh) = l.shards[l.active[sh]]
    BY <1>1 DEF LogicalIn, Pool!IsActive, Pool!ActiveShard
  <2> QED BY <1>1, <2>1 DEF PoolWell, ShardsWell, Pool!CoversOnce
<1>2. CASE sh \notin DOMAIN l.active
  <2>1. LogicalIn(l, sh) = WakeUp(NewPhysicalShard, sh, l.sleeping[sh])
    BY <1>2 DEF LogicalIn, Pool!IsActive
  <2>2. l.sleeping[sh] \in SleepingShard
    BY DEF PoolWell, ShardsWell
  <2>3. IsShard(NewPhysicalShard) /\ IsPristine(NewPhysicalShard)
    BY NewShardIsQuiet, QuietIsShard
  <2> QED BY <2>1, <2>2, <2>3, WakeUpIsQuiet DEF Quiet
<1> QED BY <1>1, <1>2

LEMMA ServeWell ==
  ASSUME NEW l, PoolWell(l), NEW sh \in Shard, NEW s, IsShard(s), s.shard_id = sh
  PROVE  /\ PoolWell(Pool!Serve(l, sh, s))
         /\ LogicalIn(Pool!Serve(l, sh, s), sh) = s
         /\ \A tw \in Shard : tw # sh => LogicalIn(Pool!Serve(l, sh, s), tw) = LogicalIn(l, tw)
<1> DEFINE w == Pool!Wake(l, sh)
           u == [w EXCEPT !.shards[w.active[sh]] = s]
<1>1. /\ PoolWell(w)
      /\ Pool!IsActive(w, sh)
      /\ \A tw \in Shard : LogicalIn(w, tw) = LogicalIn(l, tw)
  BY WakeWell
<1>2. Pool!Serve(l, sh, s) = Pool!TrySleep(u, sh)
  BY DEF Pool!Serve
<1> HIDE DEF w
<1>3. /\ PoolWell(u)
      /\ LogicalIn(u, sh) = s
      /\ \A tw \in Shard : tw # sh => LogicalIn(u, tw) = LogicalIn(w, tw)
  BY <1>1, UpdateWell
<1> HIDE DEF u
<1>4. /\ PoolWell(Pool!TrySleep(u, sh))
      /\ \A tw \in Shard : LogicalIn(Pool!TrySleep(u, sh), tw) = LogicalIn(u, tw)
  BY <1>3, TrySleepWell
<1> QED BY <1>1, <1>2, <1>3, <1>4

-----------------------------------------------------------------------------
(* The pools of all processes *)

PoolsWell ==
  /\ pool = [p \in Proc |-> pool[p]]
  /\ \A p \in Proc : PoolWell(pool[p])

\* A handler works on the logical shard, whichever physical one it wakes up in.
LEMMA AwakeIsLogical ==
  ASSUME PoolsWell, NEW p \in Proc, NEW sh \in Shard
  PROVE  /\ Awake(p, sh) = Logical(p, sh)
         /\ IsShard(Logical(p, sh))
         /\ Logical(p, sh).shard_id = sh
<1> DEFINE w == Pool!Wake(pool[p], sh)
<1>1. Pool!IsActive(w, sh) /\ LogicalIn(w, sh) = LogicalIn(pool[p], sh)
  BY WakeWell DEF PoolsWell
<1>2. Awake(p, sh) = Pool!ActiveShard(w, sh)
  BY DEF Awake, Pool!Awake
<1>3. Logical(p, sh) = LogicalIn(pool[p], sh)
  BY DEF Logical, LogicalIn
<1> HIDE DEF w
<1>4. Awake(p, sh) = LogicalIn(pool[p], sh)
  BY <1>1, <1>2 DEF LogicalIn
<1>5. PoolWell(pool[p])
  BY DEF PoolsWell
<1> QED BY <1>3, <1>4, <1>5, LogicalInType

LEMMA LogicalType ==
  ASSUME NEW s, IsShard(s)
  PROVE  /\ s.slot \in Nat
         /\ s.voted \in BOOLEAN
         /\ s.next_id \in Nat
         /\ DOMAIN s.reads \subseteq Nat
         /\ \A id \in DOMAIN s.reads : s.reads[id] \in ReadOnlyCommand
         /\ s.queued_messages \subseteq ReadResponse
         /\ IsFiniteSet(s.queued_messages)
BY DEF IsShard, IsPhysicalShard

LEMMA LogicalTypeNext ==
  ASSUME PoolsWell', NEW p \in Proc, NEW sh \in Shard
  PROVE  IsShard(Logical(p, sh)')
<1>1. Logical(p, sh)' = LogicalIn(pool'[p], sh)
  BY DEF Logical, LogicalIn
<1>2. PoolWell(pool'[p])
  BY DEF PoolsWell
<1> QED BY <1>1, <1>2, LogicalInType

\* What a step does to the logical shards, the pools aside.
LEMMA ServeLogical ==
  ASSUME PoolsWell, NEW p \in Proc, NEW sh \in Shard,
         NEW s, IsShard(s), s.shard_id = sh, Serve(p, sh, s)
  PROVE  /\ PoolsWell'
         /\ Logical(p, sh)' = s
         /\ \A q \in Proc : \A tw \in Shard :
              q # p \/ tw # sh => Logical(q, tw)' = Logical(q, tw)
<1> DEFINE l == Pool!Serve(pool[p], sh, s)
<1>1. pool' = [pool EXCEPT ![p] = l]
  BY DEF Serve
<1>2. /\ PoolWell(l)
      /\ LogicalIn(l, sh) = s
      /\ \A tw \in Shard : tw # sh => LogicalIn(l, tw) = LogicalIn(pool[p], tw)
  BY ServeWell DEF PoolsWell
<1> HIDE DEF l
<1>3. /\ pool' = [q \in Proc |-> pool'[q]]
      /\ pool'[p] = l
      /\ \A q \in Proc : q # p => pool'[q] = pool[q]
  BY <1>1 DEF PoolsWell
<1>4. PoolsWell'
  BY <1>2, <1>3 DEF PoolsWell
<1>5. \A q \in Proc : \A tw \in Shard :
        /\ Logical(q, tw) = LogicalIn(pool[q], tw)
        /\ Logical(q, tw)' = LogicalIn(pool'[q], tw)
  BY DEF Logical, LogicalIn
<1> QED BY <1>2, <1>3, <1>4, <1>5

\* All processes start with nothing read, voted for or decided.
LEMMA InitLogical ==
  ASSUME Init
  PROVE  /\ PoolsWell
         /\ \A p \in Proc : \A sh \in Shard : Logical(p, sh) = Quiet(sh, 0, 0)
<1>1. PoolSize \in Nat
  BY ReadsAssumption, FS_CardinalityType
<1>2. pool = [p \in Proc |-> Pool!NewPool(PoolSize)]
  BY DEF Init
<1>3. PoolsWell
  BY <1>1, <1>2, NewPoolWell DEF PoolsWell
<1>4. ASSUME NEW p \in Proc, NEW sh \in Shard
      PROVE  Logical(p, sh) = Quiet(sh, 0, 0)
  <2>1. /\ ~Pool!IsActive(pool[p], sh)
        /\ pool[p].sleeping[sh] = NewSleepingShard
    BY <1>2 DEF Pool!IsActive, Pool!NewPool
  <2>2. NewSleepingShard \in SleepingShard /\ NewSleepingShard.slot = 0 /\ NewSleepingShard.next_id = 0
    BY DEF NewSleepingShard, SleepingShard
  <2>3. WakeUp(NewPhysicalShard, sh, NewSleepingShard) = Quiet(sh, 0, 0)
    BY <2>2, NewShardIsQuiet, QuietIsShard, WakeUpIsQuiet
  <2> QED BY <2>1, <2>3 DEF Logical
<1> QED BY <1>3, <1>4

-----------------------------------------------------------------------------
(* The invariant of reads *)

Requests(sh, id) == [type : {"ReadRequest"}, shard : {sh}, id : {id}]
Responses(sh, id, q) ==
  [type : {"ReadResponse"}, shard : {sh}, id : {id}, next_readable_slot : Nat, from : {q}]

At(chan, T)     == {i \in DOMAIN chan : chan[i] \in T}
Once(chan, T)   == \A i, j \in At(chan, T) : i = j
Absent(chan, T) == At(chan, T) = {}

\* The answer of q to read id of p, which is asked for in the channel out or is in the
\* channel in, held, or counted in A: at most one of these, and at most once.
OneAnswer(out, in, held, A, sh, id, q) ==
  /\ Once(out, Requests(sh, id))
  /\ Once(in, Responses(sh, id, q))
  /\ \A m, n \in {h \in held : h.id = id /\ h.from = q} : m = n
  /\ Absent(out, Requests(sh, id)) \/ Absent(in, Responses(sh, id, q))
  /\ ({h \in held : h.id = id /\ h.from = q} # {} \/ q \in A) =>
       Absent(out, Requests(sh, id)) /\ Absent(in, Responses(sh, id, q))
  /\ q \in A => {h \in held : h.id = id /\ h.from = q} = {}

\* What q answers, or has answered, to read id takes the reader to slot n.
AnswersReach(in, held, sh, id, q, n) ==
  /\ \A i \in At(in, Responses(sh, id, q)) : in[i].next_readable_slot >= n
  /\ \A m \in held : m.id = id /\ m.from = q => m.next_readable_slot >= n

\* The read roc is counted for the replicas A.  When it was submitted, the
\* majority M had voted in or left the last slot that anyone had committed.
ReadInOrder(p, sh, id, M, A) ==
  LET s   == Logical(p, sh)
      roc == s.reads[id]
  IN  /\ roc.ready_count = Cardinality(A)
      /\ p \in A <=> roc.local_ready
      /\ roc.since > 0 => Cardinality(M) >= Majority
      /\ roc.since > 0 => \A q \in M : VotedIn(q, sh, roc.since - 1)
      /\ A \cap M # {} => s.slot >= roc.since
      /\ \A q \in AliveReplicas \ {p} :
           /\ OneAnswer(net[p][q], net[q][p], s.queued_messages, A, sh, id, q)
           /\ q \in M => AnswersReach(net[q][p], s.queued_messages, sh, id, q, roc.since)

ReadsInOrder ==
  \A p \in AliveReplicas : \A sh \in Shard : \A id \in DOMAIN Logical(p, sh).reads :
    \E M, A \in SUBSET AliveReplicas : ReadInOrder(p, sh, id, M, A)

\* Ids are not used again, and only other replicas are asked.
KnownIn(p, s) ==
  /\ \A id \in DOMAIN s.reads : id < s.next_id
  /\ \A m \in s.queued_messages : m.id < s.next_id /\ m.from \in AliveReplicas \ {p}

\* What may be on its way from p to q.
Routed(p, q) ==
  {m \in ReadRequest : q \in AliveReplicas \ {p} /\ m.id < Logical(p, m.shard).next_id}
  \cup
  {m \in ReadResponse : /\ m.from = p /\ p \in AliveReplicas \ {q}
                        /\ m.id < Logical(q, m.shard).next_id}

IdsKnown ==
  /\ \A p \in Proc : \A sh \in Shard : KnownIn(p, Logical(p, sh))
  /\ \A p, q \in Proc : net[p][q] \in Seq(Routed(p, q))

\* Who voted in slot n of sh, or left it.
Voters(sh, n) == {q \in AliveReplicas : VotedIn(q, sh, n)}

SlotsDecided ==
  \A p \in Proc : \A sh \in Shard :
    /\ Logical(p, sh).slot <= Writes[sh]
    /\ Logical(p, sh).slot > 0 => Cardinality(Voters(sh, Logical(p, sh).slot - 1)) >= Majority

Message == ReadRequest \cup ReadResponse

VariablesTyped ==
  /\ net \in [Proc -> [Proc -> Seq(Message)]]
  /\ unread \in [Proc -> [Shard -> Nat]]
  /\ served \subseteq [pid : Proc, shard : Shard, id : Nat, since : Nat, slot : Nat]

ReadsInv ==
  /\ PoolsWell
  /\ VariablesTyped
  /\ IdsKnown
  /\ SlotsDecided
  /\ ReadsInOrder
  /\ ReplicaReadsLinearizable

-----------------------------------------------------------------------------
(* Channels *)

\* What a channel may do to the messages of T without disturbing their read.
Fewer(new, old, T) ==
  /\ Once(old, T) => Once(new, T)
  /\ Absent(old, T) => Absent(new, T)
  /\ \A n \in Nat : (\A i \in At(old, T) : old[i].next_readable_slot >= n)
                     => (\A i \in At(new, T) : new[i].next_readable_slot >= n)

LEMMA SameIsFewer == ASSUME NEW c, NEW T PROVE Fewer(c, c, T)
BY DEF Fewer

LEMMA AppendAt ==
  ASSUME NEW S, NEW c \in Seq(S), NEW m \in S, NEW T
  PROVE  /\ m \notin T => At(Append(c, m), T) = At(c, T)
         /\ m \in T => At(Append(c, m), T) = At(c, T) \cup {Len(c) + 1}
         /\ \A i \in At(c, T) : Append(c, m)[i] = c[i]
         /\ Append(c, m)[Len(c) + 1] = m
<1>1. /\ Len(c) \in Nat
      /\ DOMAIN c = 1 .. Len(c)
      /\ DOMAIN Append(c, m) = 1 .. Len(c) + 1
      /\ \A i \in 1 .. Len(c) : Append(c, m)[i] = c[i]
      /\ Append(c, m)[Len(c) + 1] = m
  OBVIOUS
<1>2. \A i \in 1 .. Len(c) + 1 : i \in 1 .. Len(c) \/ i = Len(c) + 1
  BY <1>1
<1> QED BY <1>1, <1>2 DEF At

\* Other messages change nothing.
LEMMA AppendIsFewer ==
  ASSUME NEW S, NEW c \in Seq(S), NEW m \in S, NEW T, m \notin T
  PROVE  Fewer(Append(c, m), c, T)
<1>1. At(Append(c, m), T) = At(c, T)
  BY AppendAt
<1>2. \A i \in At(c, T) : Append(c, m)[i] = c[i]
  BY DEF At
<1> QED BY <1>1, <1>2 DEF Fewer, Once, Absent

\* The first message of its kind is the only one.
LEMMA AppendOnce ==
  ASSUME NEW S, NEW c \in Seq(S), NEW m \in S, NEW T, Absent(c, T)
  PROVE  /\ Once(Append(c, m), T)
         /\ \A i \in At(Append(c, m), T) : Append(c, m)[i] = m
BY AppendAt DEF Once, Absent

LEMMA TailAt ==
  ASSUME NEW S, NEW c \in Seq(S), c # <<>>, NEW T
  PROVE  /\ \A i \in At(Tail(c), T) : i + 1 \in At(c, T) /\ i + 1 # 1 /\ Tail(c)[i] = c[i + 1]
         /\ Head(c) \in T => 1 \in At(c, T)
         /\ Head(c) = c[1]
<1>1. /\ Len(c) \in Nat /\ Len(c) > 0
      /\ DOMAIN c = 1 .. Len(c)
      /\ DOMAIN Tail(c) = 1 .. Len(c) - 1
      /\ \A i \in 1 .. Len(c) - 1 : Tail(c)[i] = c[i + 1]
      /\ Head(c) = c[1]
  OBVIOUS
<1>2. \A i \in 1 .. Len(c) - 1 : i + 1 \in 1 .. Len(c) /\ i + 1 # 1
  BY <1>1
<1> QED BY <1>1, <1>2 DEF At

LEMMA TailIsFewer ==
  ASSUME NEW S, NEW c \in Seq(S), c # <<>>, NEW T
  PROVE  Fewer(Tail(c), c, T)
<1>1. \A i, j \in At(Tail(c), T) : i + 1 = j + 1 => i = j
  <2>1. At(Tail(c), T) \subseteq Int
    BY DEF At
  <2> QED BY <2>1
<1> DEFINE d == Tail(c)
<1>2. \A i \in At(d, T) : i + 1 \in At(c, T) /\ d[i] = c[i + 1]
  BY TailAt
<1> HIDE DEF d
<1>3. Absent(c, T) => Absent(d, T)
  BY <1>2 DEF Absent
<1>4. Once(c, T) => Once(d, T)
  BY <1>1, <1>2 DEF Once, d
<1>5. ASSUME NEW n \in Nat, \A i \in At(c, T) : c[i].next_readable_slot >= n
      PROVE  \A i \in At(d, T) : d[i].next_readable_slot >= n
  BY <1>2, <1>5
<1> QED BY <1>3, <1>4, <1>5 DEF Fewer, d

\* The only message of its kind has been taken out.
LEMMA TailAbsent ==
  ASSUME NEW S, NEW c \in Seq(S), c # <<>>, NEW T, Head(c) \in T, Once(c, T)
  PROVE  Absent(Tail(c), T)
BY TailAt DEF Once, Absent

-----------------------------------------------------------------------------
(* Counting *)

LEMMA ReplicasFinite ==
  /\ IsFiniteSet(AliveReplicas)
  /\ Cardinality(AliveReplicas) \in Nat
  /\ Cardinality(AliveReplicas) <= NbReplicas
  /\ NbReplicas \in Nat
  /\ Majority \in Nat
  /\ 2 * Majority > NbReplicas
<1>1. IsFiniteSet(Proc)
  BY TopologyAssumption, FS_Interval
<1>2. IsFiniteSet(AliveReplicas)
  BY <1>1, TopologyAssumption, FS_Subset
<1> QED BY <1>2, TopologyAssumption, FS_CardinalityType DEF Majority

\* Two majorities meet.
LEMMA MajoritiesMeet ==
  ASSUME NEW A \in SUBSET AliveReplicas, NEW M \in SUBSET AliveReplicas,
         Cardinality(A) >= Majority, Cardinality(M) >= Majority
  PROVE  A \cap M # {}
<1>1. Cardinality(A) \in Nat /\ Cardinality(M) \in Nat
  BY ReplicasFinite, FS_Subset, FS_CardinalityType
<1>2. Cardinality(A) + Cardinality(M) > Cardinality(AliveReplicas)
  BY <1>1, ReplicasFinite
<1> QED BY <1>2, ReplicasFinite, FS_MajoritiesIntersect

\* As many answers as replicas they are from.
LEMMA CountFroms ==
  ASSUME NEW H, \A m \in H : m.from \in AliveReplicas,
         \A m, n \in H : m.from = n.from => m = n
  PROVE  /\ {m.from : m \in H} \in SUBSET AliveReplicas
         /\ IsFiniteSet({m.from : m \in H})
         /\ Cardinality({m.from : m \in H}) = Cardinality(H)
         /\ Cardinality(H) \in Nat
<1> DEFINE F == {m.from : m \in H}
           f == [m \in H |-> m.from]
<1>1. F \in SUBSET AliveReplicas
  OBVIOUS
<1>2. IsFiniteSet(F)
  BY <1>1, ReplicasFinite, FS_Subset
<1>3. f \in Injection(H, F) /\ f \in Surjection(H, F)
  <2>1. f \in [H -> F]
    OBVIOUS
  <2>2. \A m, n \in H : f[m] = f[n] => m = n
    OBVIOUS
  <2>3. \A x \in F : \E m \in H : f[m] = x
    OBVIOUS
  <2> HIDE DEF f, F
  <2> QED BY <2>1, <2>2, <2>3 DEF Injection, IsInjective, Surjection
<1>4. IsFiniteSet(H) /\ Cardinality(H) = Cardinality(F)
  BY <1>2, <1>3, FS_Injection
<1> QED BY <1>1, <1>2, <1>4, FS_CardinalityType

-----------------------------------------------------------------------------
(* Shards, channels and votes from one state to the next *)

Grows(s, t) == t.slot > s.slot \/ (t.slot = s.slot /\ (s.voted => t.voted))

LEMMA VotedInGrows ==
  ASSUME PoolsWell, PoolsWell', NEW q \in Proc, NEW sh \in Shard, NEW n \in Int,
         Grows(Logical(q, sh), Logical(q, sh)'), VotedIn(q, sh, n)
  PROVE  VotedIn(q, sh, n)'
<1>1. Logical(q, sh).slot \in Nat
  BY AwakeIsLogical, LogicalType
<1>2. Logical(q, sh)'.slot \in Nat
  BY LogicalTypeNext, LogicalType
<1> QED BY <1>1, <1>2 DEF VotedIn, Grows

\* A majority that voted in a slot, or left it, stays one.
LEMMA VotersStay ==
  ASSUME PoolsWell, PoolsWell', NEW sh \in Shard, NEW n \in Int,
         \A q \in Proc : Grows(Logical(q, sh), Logical(q, sh)'),
         Cardinality(Voters(sh, n)) >= Majority
  PROVE  Cardinality(Voters(sh, n)') >= Majority
<1>1. Voters(sh, n) \subseteq Voters(sh, n)'
  BY VotedInGrows, TopologyAssumption DEF Voters
<1>2. Voters(sh, n)' \subseteq AliveReplicas
  BY DEF Voters
<1>3. IsFiniteSet(Voters(sh, n)')
  BY <1>2, ReplicasFinite, FS_Subset
<1>4. IsFiniteSet(Voters(sh, n)) /\ Cardinality(Voters(sh, n)) <= Cardinality(Voters(sh, n)')
  BY <1>1, <1>3, FS_Subset
<1>5. Cardinality(Voters(sh, n)) \in Nat /\ Cardinality(Voters(sh, n)') \in Nat
  BY <1>3, <1>4, FS_CardinalityType
<1> QED BY <1>4, <1>5, ReplicasFinite

\* Slots stay decided, and are decided one by one.
LEMMA SlotsStayDecided ==
  ASSUME PoolsWell, PoolsWell', SlotsDecided,
         \A q \in Proc : \A sh \in Shard :
           /\ Grows(Logical(q, sh), Logical(q, sh)')
           /\ \A n \in Nat : n = Logical(q, sh).slot =>
                \/ Logical(q, sh)'.slot = n
                \/ /\ Logical(q, sh)'.slot = n + 1
                   /\ n < Writes[sh]
                   /\ Cardinality(Voters(sh, n)') >= Majority
  PROVE  SlotsDecided'
<1> SUFFICES ASSUME NEW p \in Proc, NEW sh \in Shard
             PROVE  /\ Logical(p, sh)'.slot <= Writes[sh]
                    /\ Logical(p, sh)'.slot > 0 =>
                         Cardinality(Voters(sh, Logical(p, sh).slot - 1)') >= Majority
  BY DEF SlotsDecided
<1>1. PICK n \in Nat : n = Logical(p, sh).slot
  BY AwakeIsLogical, LogicalType
<1>2. Writes[sh] \in Nat /\ n <= Writes[sh]
  BY <1>1, ReadsAssumption DEF SlotsDecided
<1>3. CASE Logical(p, sh)'.slot = n
  <2>1. ASSUME n > 0
        PROVE  Cardinality(Voters(sh, n - 1)') >= Majority
    <3>1. Cardinality(Voters(sh, n - 1)) >= Majority
      BY <1>1, <2>1 DEF SlotsDecided
    <3> QED BY <3>1, VotersStay
  <2> QED BY <1>2, <1>3, <2>1
<1>4. CASE /\ Logical(p, sh)'.slot = n + 1
           /\ n < Writes[sh]
           /\ Cardinality(Voters(sh, n)') >= Majority
  <2>1. Voters(sh, n)' = Voters(sh, Logical(p, sh).slot - 1)'
    BY <1>4 DEF Voters
  <2> QED BY <1>2, <1>4, <2>1
<1> QED BY <1>1, <1>3, <1>4

-----------------------------------------------------------------------------
(* A read from one state to the next *)

\* Channels and shards that do nothing for a read leave its answers where they are.
LEMMA AnswerKept ==
  ASSUME NEW out, NEW in, NEW held, NEW A, NEW sh, NEW id, NEW q,
         OneAnswer(out, in, held, A, sh, id, q),
         NEW out2, NEW in2, NEW held2,
         Fewer(out2, out, Requests(sh, id)), Fewer(in2, in, Responses(sh, id, q)),
         \A m \in held2 : m.id = id /\ m.from = q => m \in held
  PROVE  OneAnswer(out2, in2, held2, A, sh, id, q)
<1>1. {h \in held2 : h.id = id /\ h.from = q} \subseteq {h \in held : h.id = id /\ h.from = q}
  OBVIOUS
<1> QED BY <1>1 DEF OneAnswer, Fewer

LEMMA ReachKept ==
  ASSUME NEW in, NEW held, NEW sh, NEW id, NEW q, NEW n \in Nat,
         AnswersReach(in, held, sh, id, q, n),
         NEW in2, NEW held2,
         Fewer(in2, in, Responses(sh, id, q)),
         \A m \in held2 : m.id = id /\ m.from = q => m \in held
  PROVE  AnswersReach(in2, held2, sh, id, q, n)
BY DEF AnswersReach, Fewer

\* A read is still in order when its answers and what is counted of them are.
LEMMA ReadInOrderNext ==
  ASSUME PoolsWell, PoolsWell',
         NEW p \in AliveReplicas, NEW sh \in Shard, NEW id \in DOMAIN Logical(p, sh).reads,
         NEW M \in SUBSET AliveReplicas, NEW A \in SUBSET AliveReplicas,
         ReadInOrder(p, sh, id, M, A),
         \A q \in Proc : Grows(Logical(q, sh), Logical(q, sh)'),
         NEW B \in SUBSET AliveReplicas, NEW t, t = Logical(p, sh)',
         NEW c, c = Logical(p, sh).reads[id].since,
         t.reads[id].since = c,
         t.reads[id].ready_count = Cardinality(B),
         p \in B <=> t.reads[id].local_ready,
         B \cap M # {} => t.slot >= c,
         \A q \in AliveReplicas \ {p} :
           /\ OneAnswer(net'[p][q], net'[q][p], t.queued_messages, B, sh, id, q)
           /\ q \in M => AnswersReach(net'[q][p], t.queued_messages, sh, id, q, c)
  PROVE  ReadInOrder(p, sh, id, M, B)'
<1>1. p \in Proc
  BY TopologyAssumption
<1>2. c \in Nat
  BY <1>1, AwakeIsLogical, LogicalType DEF ReadOnlyCommand
<1>3. c > 0 => Cardinality(M) >= Majority /\ \A q \in M : VotedIn(q, sh, c - 1)
  BY DEF ReadInOrder
<1>4. c > 0 => \A q \in M : VotedIn(q, sh, c - 1)'
  BY <1>2, <1>3, VotedInGrows, TopologyAssumption
<1>5. PICK n : n = c - 1
  OBVIOUS
<1>6. c > 0 => \A q \in M : VotedIn(q, sh, n)'
  BY <1>4, <1>5
<1>7. c > 0 => \A q \in M : VotedIn(q, sh, t.reads[id].since - 1)'
  BY <1>5, <1>6 DEF VotedIn
<1> QED BY <1>3, <1>7 DEF ReadInOrder

LEMMA ReadKept ==
  ASSUME PoolsWell, PoolsWell',
         NEW p \in AliveReplicas, NEW sh \in Shard, NEW id \in DOMAIN Logical(p, sh).reads,
         NEW M \in SUBSET AliveReplicas, NEW A \in SUBSET AliveReplicas,
         ReadInOrder(p, sh, id, M, A),
         \A q \in Proc : Grows(Logical(q, sh), Logical(q, sh)'),
         Logical(p, sh)'.reads[id] = Logical(p, sh).reads[id],
         \A m \in Logical(p, sh)'.queued_messages :
           m.id = id => m \in Logical(p, sh).queued_messages,
         \A q \in AliveReplicas \ {p} :
           /\ Fewer(net'[p][q], net[p][q], Requests(sh, id))
           /\ Fewer(net'[q][p], net[q][p], Responses(sh, id, q))
  PROVE  ReadInOrder(p, sh, id, M, A)'
<1>1. p \in Proc
  BY TopologyAssumption
<1>2. PICK t, c : t = Logical(p, sh)' /\ c = Logical(p, sh).reads[id].since
  OBVIOUS
<1>3. c \in Nat /\ Logical(p, sh).slot \in Nat /\ t.slot \in Nat /\ t.slot >= Logical(p, sh).slot
  BY <1>1, <1>2, AwakeIsLogical, LogicalTypeNext, LogicalType DEF ReadOnlyCommand, Grows
<1>4. \A q \in AliveReplicas \ {p} :
        /\ OneAnswer(net'[p][q], net'[q][p], t.queued_messages, A, sh, id, q)
        /\ q \in M => AnswersReach(net'[q][p], t.queued_messages, sh, id, q, c)
  <2> TAKE q \in AliveReplicas \ {p}
  <2>1. /\ OneAnswer(net[p][q], net[q][p], Logical(p, sh).queued_messages, A, sh, id, q)
        /\ q \in M => AnswersReach(net[q][p], Logical(p, sh).queued_messages, sh, id, q, c)
    BY <1>2 DEF ReadInOrder
  <2>2. /\ Fewer(net'[p][q], net[p][q], Requests(sh, id))
        /\ Fewer(net'[q][p], net[q][p], Responses(sh, id, q))
    OBVIOUS
  <2>3. \A m \in t.queued_messages : m.id = id => m \in Logical(p, sh).queued_messages
    BY <1>2
  <2>4. OneAnswer(net'[p][q], net'[q][p], t.queued_messages, A, sh, id, q)
    BY <2>1, <2>2, <2>3, AnswerKept
  <2>5. ASSUME q \in M
        PROVE  AnswersReach(net'[q][p], t.queued_messages, sh, id, q, c)
    <3>1. AnswersReach(net[q][p], Logical(p, sh).queued_messages, sh, id, q, c)
      BY <2>1, <2>5
    <3> QED BY <1>3, <2>2, <2>3, <3>1, ReachKept
  <2> QED BY <2>4, <2>5
<1>5. A \cap M # {} => t.slot >= c
  BY <1>2, <1>3 DEF ReadInOrder
<1>6. t.reads[id].since = c /\ t.reads[id].ready_count = Cardinality(A)
  BY <1>2 DEF ReadInOrder
<1>7. p \in A <=> t.reads[id].local_ready
  BY <1>2 DEF ReadInOrder
<1> QED BY <1>2, <1>4, <1>5, <1>6, <1>7, ReadInOrderNext

-----------------------------------------------------------------------------
(* What every step has in common *)

\* A step of p on sh makes t of it.
LEMMA ServeStep ==
  ASSUME PoolsWell, IdsKnown, NEW p \in Proc, NEW sh \in Shard,
         NEW t, IsShard(t), t.shard_id = sh, Serve(p, sh, t),
         Grows(Logical(p, sh), t), t.next_id >= Logical(p, sh).next_id, KnownIn(p, t)
  PROVE  /\ PoolsWell'
         /\ Logical(p, sh)' = t
         /\ \A q \in Proc : \A tw \in Shard :
              /\ q # p \/ tw # sh => Logical(q, tw)' = Logical(q, tw)
              /\ Grows(Logical(q, tw), Logical(q, tw)')
              /\ KnownIn(q, Logical(q, tw)')
         /\ \A a, b \in Proc : Routed(a, b) \subseteq Routed(a, b)'
<1>1. /\ PoolsWell'
      /\ Logical(p, sh)' = t
      /\ \A q \in Proc : \A tw \in Shard :
           q # p \/ tw # sh => Logical(q, tw)' = Logical(q, tw)
  BY ServeLogical
<1>2. \A q \in Proc : \A tw \in Shard : Grows(Logical(q, tw), Logical(q, tw)')
  BY <1>1 DEF Grows
<1>3. \A q \in Proc : \A tw \in Shard : KnownIn(q, Logical(q, tw)')
  BY <1>1 DEF IdsKnown
<1>4. \A q \in Proc : \A tw \in Shard :
        /\ Logical(q, tw).next_id \in Nat /\ Logical(q, tw)'.next_id \in Nat
        /\ Logical(q, tw)'.next_id >= Logical(q, tw).next_id
  BY <1>1, AwakeIsLogical, LogicalTypeNext, LogicalType
<1>5. ASSUME NEW a \in Proc, NEW b \in Proc
      PROVE  Routed(a, b) \subseteq Routed(a, b)'
  <2>1. \A m \in ReadRequest : m.shard \in Shard /\ m.id \in Nat
    BY DEF ReadRequest
  <2>2. \A m \in ReadResponse : m.shard \in Shard /\ m.id \in Nat
    BY DEF ReadResponse
  <2> QED BY <1>4, <2>1, <2>2 DEF Routed
<1> QED BY <1>1, <1>2, <1>3, <1>5

LEMMA PushNet ==
  ASSUME NEW chan \in [Proc -> [Proc -> Seq(Message)]],
         NEW p \in Proc, NEW D, NEW m \in Message
  PROVE  /\ Push(chan, p, D, m) \in [Proc -> [Proc -> Seq(Message)]]
         /\ \A b \in Proc : b \in D => Push(chan, p, D, m)[p][b] = Append(chan[p][b], m)
         /\ \A a, b \in Proc : a # p \/ b \notin D => Push(chan, p, D, m)[a][b] = chan[a][b]
BY DEF Push

LEMMA PopNet ==
  ASSUME net \in [Proc -> [Proc -> Seq(Message)]],
         NEW q \in Proc, NEW p \in Proc, net[q][p] # <<>>
  PROVE  /\ Pop(q, p) \in [Proc -> [Proc -> Seq(Message)]]
         /\ Pop(q, p)[q][p] = Tail(net[q][p])
         /\ \A a, b \in Proc : a # q \/ b # p => Pop(q, p)[a][b] = net[a][b]
BY DEF Pop

\* The messages known to be in flight are still known, wherever they are.
LEMMA RoutedStay ==
  ASSUME IdsKnown, \A a, b \in Proc : Routed(a, b) \subseteq Routed(a, b)',
         NEW a \in Proc, NEW b \in Proc
  PROVE  /\ net[a][b] \in Seq(Routed(a, b)')
         /\ net[a][b] # <<>> => Tail(net[a][b]) \in Seq(Routed(a, b)')
         /\ \A m \in Routed(a, b)' : Append(net[a][b], m) \in Seq(Routed(a, b)')
<1>1. net[a][b] \in Seq(Routed(a, b)')
  <2>1. net[a][b] \in Seq(Routed(a, b)) /\ Routed(a, b) \subseteq Routed(a, b)'
    BY DEF IdsKnown
  <2> QED BY <2>1
<1> QED BY <1>1

\* A shard with a value.
LEMMA VotedFields ==
  ASSUME NEW s, IsShard(s),
         NEW t, t = [s EXCEPT !.voted = TRUE]
  PROVE  /\ t.slot = s.slot /\ t.voted = TRUE /\ t.next_id = s.next_id
         /\ t.reads = s.reads /\ t.queued_messages = s.queued_messages
         /\ t.shard_id = s.shard_id /\ IsShard(t)
<1>1. PICK a, b, c, d, e, f :
        s = [shard_id |-> a, slot |-> b, voted |-> c, next_id |-> d,
             reads |-> e, queued_messages |-> f]
  BY DEF IsShard
<1>2. [s EXCEPT !.voted = TRUE] =
        [shard_id |-> a, slot |-> b, voted |-> TRUE, next_id |-> d,
         reads |-> e, queued_messages |-> f]
  <2>1. \A v : [s EXCEPT !.voted = v] =
               [shard_id |-> a, slot |-> b, voted |-> v, next_id |-> d,
                reads |-> e, queued_messages |-> f]
    BY <1>1
  <2> QED BY <2>1
<1> QED BY <1>1, <1>2, LogicalType DEF IsShard, IsPhysicalShard

\* A shard in its next slot.
LEMMA CommittedFields ==
  ASSUME NEW s, IsShard(s),
         NEW t, t = [s EXCEPT !.slot = @ + 1, !.voted = FALSE]
  PROVE  /\ t.slot = s.slot + 1 /\ t.voted = FALSE /\ t.next_id = s.next_id
         /\ t.reads = s.reads /\ t.queued_messages = s.queued_messages
         /\ t.shard_id = s.shard_id /\ IsShard(t)
<1>1. PICK a, b, c, d, e, f :
        s = [shard_id |-> a, slot |-> b, voted |-> c, next_id |-> d,
             reads |-> e, queued_messages |-> f]
  BY DEF IsShard
<1>2. [s EXCEPT !.slot = @ + 1, !.voted = FALSE] =
        [shard_id |-> a, slot |-> b + 1, voted |-> FALSE, next_id |-> d,
         reads |-> e, queued_messages |-> f]
  <2>1. PICK u : u = [s EXCEPT !.slot = @ + 1]
    OBVIOUS
  <2>2. u = [shard_id |-> a, slot |-> b + 1, voted |-> c, next_id |-> d,
             reads |-> e, queued_messages |-> f]
    BY <1>1, <2>1
  <2>3. \A v : [u EXCEPT !.voted = v] =
               [shard_id |-> a, slot |-> b + 1, voted |-> v, next_id |-> d,
                reads |-> e, queued_messages |-> f]
    BY <2>2
  <2>4. [s EXCEPT !.slot = @ + 1, !.voted = FALSE] = [u EXCEPT !.voted = FALSE]
    BY <2>1
  <2> QED BY <2>3, <2>4
<1> QED BY <1>1, <1>2, LogicalType DEF IsShard, IsPhysicalShard

\* A shard with other held messages.
LEMMA HeldFields ==
  ASSUME NEW s, IsShard(s),
         NEW h, h \subseteq ReadResponse, IsFiniteSet(h),
         NEW t, t = [s EXCEPT !.queued_messages = h]
  PROVE  /\ t.slot = s.slot /\ t.voted = s.voted /\ t.next_id = s.next_id
         /\ t.reads = s.reads /\ t.queued_messages = h
         /\ t.shard_id = s.shard_id /\ IsShard(t)
<1>1. PICK a, b, c, d, e, f :
        s = [shard_id |-> a, slot |-> b, voted |-> c, next_id |-> d,
             reads |-> e, queued_messages |-> f]
  BY DEF IsShard
<1>2. [s EXCEPT !.queued_messages = h] =
        [shard_id |-> a, slot |-> b, voted |-> c, next_id |-> d,
         reads |-> e, queued_messages |-> h]
  BY <1>1
<1> QED BY <1>1, <1>2, LogicalType DEF IsShard, IsPhysicalShard

\* A shard with other reads.
LEMMA ReadsFields ==
  ASSUME NEW s, IsShard(s),
         NEW reads, reads = [id \in DOMAIN reads |-> reads[id]], DOMAIN reads \subseteq Nat,
         \A id \in DOMAIN reads : reads[id] \in ReadOnlyCommand,
         NEW t, t = [s EXCEPT !.reads = reads]
  PROVE  /\ t.slot = s.slot /\ t.voted = s.voted /\ t.next_id = s.next_id
         /\ t.reads = reads /\ t.queued_messages = s.queued_messages
         /\ t.shard_id = s.shard_id /\ IsShard(t)
<1>1. PICK a, b, c, d, e, f :
        s = [shard_id |-> a, slot |-> b, voted |-> c, next_id |-> d,
             reads |-> e, queued_messages |-> f]
  BY DEF IsShard
<1>2. [s EXCEPT !.reads = reads] =
        [shard_id |-> a, slot |-> b, voted |-> c, next_id |-> d,
         reads |-> reads, queued_messages |-> f]
  BY <1>1
<1> QED BY <1>1, <1>2, LogicalType DEF IsShard, IsPhysicalShard

-----------------------------------------------------------------------------
(* Votes *)

LEMMA VoteStep ==
  ASSUME ReadsInv, NEW p \in Proc, NEW sh \in Shard, Vote(p, sh)
  PROVE  ReadsInv'
<1> DEFINE s == Logical(p, sh)
           t == [s EXCEPT !.voted = TRUE]
<1>1. /\ Awake(p, sh) = s /\ IsShard(s) /\ s.shard_id = sh
      /\ KnownIn(p, s)
  BY AwakeIsLogical DEF ReadsInv, IdsKnown
<1>2. Serve(p, sh, t) /\ UNCHANGED <<net, unread, served>>
  BY <1>1 DEF Vote
<1>3. /\ t.slot = s.slot /\ t.voted = TRUE /\ t.next_id = s.next_id /\ t.reads = s.reads
      /\ t.queued_messages = s.queued_messages /\ t.shard_id = sh
      /\ IsShard(t)
  BY <1>1, VotedFields
<1> HIDE DEF s, t
<1>4. Grows(s, t) /\ t.next_id >= s.next_id /\ KnownIn(p, t)
  BY <1>1, <1>3, LogicalType DEF Grows, KnownIn
<1>5. /\ PoolsWell'
      /\ Logical(p, sh)' = t
      /\ \A q \in Proc : \A tw \in Shard :
           /\ q # p \/ tw # sh => Logical(q, tw)' = Logical(q, tw)
           /\ Grows(Logical(q, tw), Logical(q, tw)')
           /\ KnownIn(q, Logical(q, tw)')
      /\ \A a, b \in Proc : Routed(a, b) \subseteq Routed(a, b)'
  BY <1>2, <1>3, <1>4, ServeStep DEF ReadsInv, s
<1>6. \A q \in Proc : \A tw \in Shard :
        /\ Logical(q, tw)'.slot = Logical(q, tw).slot
        /\ Logical(q, tw)'.reads = Logical(q, tw).reads
        /\ Logical(q, tw)'.queued_messages = Logical(q, tw).queued_messages
  BY <1>3, <1>5 DEF s
<1>7. VariablesTyped'
  BY <1>2 DEF ReadsInv, VariablesTyped
<1>8. IdsKnown'
  <2>1. \A a, b \in Proc : net'[a][b] \in Seq(Routed(a, b)')
    BY <1>2, <1>5, RoutedStay DEF ReadsInv
  <2> QED BY <1>5, <2>1 DEF IdsKnown
<1>9. SlotsDecided'
  BY <1>5, <1>6, SlotsStayDecided DEF ReadsInv
<1>10. ReadsInOrder'
  <2> SUFFICES ASSUME NEW o \in AliveReplicas, NEW tw \in Shard,
                      NEW id \in DOMAIN Logical(o, tw)'.reads
               PROVE  \E M, A \in SUBSET AliveReplicas : ReadInOrder(o, tw, id, M, A)'
    BY DEF ReadsInOrder
  <2>1. o \in Proc /\ id \in DOMAIN Logical(o, tw).reads
    BY <1>6, TopologyAssumption
  <2>2. PICK M, A \in SUBSET AliveReplicas : ReadInOrder(o, tw, id, M, A)
    BY <2>1 DEF ReadsInv, ReadsInOrder
  <2>3. ReadInOrder(o, tw, id, M, A)'
    BY <1>2, <1>5, <1>6, <2>1, <2>2, ReadKept, SameIsFewer DEF ReadsInv
  <2> QED BY <2>3
<1>11. ReplicaReadsLinearizable'
  BY <1>2 DEF ReadsInv, ReplicaReadsLinearizable, Linearizable
<1> QED BY <1>5, <1>7, <1>8, <1>9, <1>10, <1>11 DEF ReadsInv

-----------------------------------------------------------------------------
(* Submitting a read *)

\* Some slot is committed by some process, and none beyond the last.
LEMMA LastCommittedIsCommitted ==
  ASSUME PoolsWell, SlotsDecided, NEW sh \in Shard
  PROVE  /\ LastCommitted(sh) \in Nat
         /\ \E p \in Proc : Logical(p, sh).slot = LastCommitted(sh)
<1> DEFINE S == Committed(sh)
           D == {k \in Nat : Writes[sh] - k \in S}
<1>1. Writes[sh] \in Nat
  BY ReadsAssumption
<1>2. S \subseteq 0 .. Writes[sh] /\ S # {}
  <2>1. PICK p \in Proc : TRUE
    <3>1. Cardinality(Proc) \in Nat \ {0} /\ Proc = 0 .. Cardinality(Proc) - 1
      BY TopologyAssumption
    <3>2. PICK n \in Nat \ {0} : n = Cardinality(Proc)
      BY <3>1
    <3>3. 0 \in 0 .. n - 1
      BY <3>2
    <3> QED BY <3>1, <3>2, <3>3
  <2>2. Logical(p, sh).slot \in 0 .. Writes[sh]
    BY <1>1, AwakeIsLogical, LogicalType DEF SlotsDecided
  <2> QED BY <2>2 DEF Committed
<1>3. D \subseteq Nat /\ D # {}
  <2>1. PICK x \in S : TRUE
    BY <1>2
  <2>2. Writes[sh] - x \in Nat /\ Writes[sh] - (Writes[sh] - x) = x
    BY <1>1, <1>2
  <2> QED BY <2>1, <2>2
<1> HIDE DEF D
<1>4. PICK k \in D : \A j \in D : k <= j
  <2>1. PICK k \in D : \A j \in D : <<j, k>> \notin OpToRel(<, Nat)
    BY <1>3, NatLessThanWellFounded, WFMin
  <2>2. \A j \in D : ~(j < k)
    BY <1>3, <2>1 DEF OpToRel
  <2>3. \A j \in D : j \in Nat
    BY <1>3
  <2> QED BY <2>2, <2>3
<1>5. Writes[sh] - k \in S
  BY DEF D
<1>6. ASSUME NEW y \in S
      PROVE  y <= Writes[sh] - k
  <2>1. Writes[sh] - y \in D
    <3>1. Writes[sh] - y \in Nat /\ Writes[sh] - (Writes[sh] - y) = y
      BY <1>1, <1>2
    <3> QED BY <3>1 DEF D
  <2>2. k <= Writes[sh] - y
    BY <1>4, <2>1
  <2> QED BY <1>1, <1>2, <1>3, <2>2
<1>7. LastCommitted(sh) \in S
  BY <1>5, <1>6 DEF LastCommitted
<1> QED BY <1>1, <1>2, <1>7 DEF Committed

\* A message that goes out is nothing to the reads it is not about.
LEMMA PushedIsFewer ==
  ASSUME NEW chan \in [Proc -> [Proc -> Seq(Message)]],
         NEW p \in Proc, NEW D, NEW m \in Message,
         NEW a \in Proc, NEW b \in Proc, NEW T, a # p \/ m \notin T
  PROVE  Fewer(Push(chan, p, D, m)[a][b], chan[a][b], T)
<1>1. CASE a # p \/ b \notin D
  <2>1. Push(chan, p, D, m)[a][b] = chan[a][b]
    BY <1>1 DEF Push
  <2> QED BY <2>1, SameIsFewer
<1>2. CASE a = p /\ b \in D
  <2>1. Push(chan, p, D, m)[a][b] = Append(chan[a][b], m)
    BY <1>2 DEF Push
  <2>2. chan[a][b] \in Seq(Message)
    OBVIOUS
  <2> QED BY <1>2, <2>1, <2>2, AppendIsFewer
<1> QED BY <1>1, <1>2

\* A read of its own process: counted at once unless its shard has a vote out.
LEMMA InsertReadFields ==
  ASSUME NEW s, IsShard(s), NEW since \in Nat, NEW t, t = InsertRead(s, since)
  PROVE  /\ t.slot = s.slot /\ t.voted = s.voted /\ t.next_id = s.next_id + 1
         /\ t.queued_messages = s.queued_messages
         /\ t.shard_id = s.shard_id /\ IsShard(t)
         /\ DOMAIN t.reads = DOMAIN s.reads \cup {s.next_id}
         /\ \A id \in DOMAIN s.reads : id # s.next_id => t.reads[id] = s.reads[id]
         /\ t.reads[s.next_id].since = since
         /\ ~s.voted => t.reads[s.next_id].ready_count = 1 /\ t.reads[s.next_id].local_ready
         /\ s.voted => t.reads[s.next_id].ready_count = 0 /\ ~t.reads[s.next_id].local_ready
<1>1. /\ s.next_id \in Nat /\ DOMAIN s.reads \subseteq Nat /\ s.voted \in BOOLEAN
      /\ \A id \in DOMAIN s.reads : s.reads[id] \in ReadOnlyCommand
  BY LogicalType
<1>2. PICK roc : roc = [ready_count |-> IF s.voted THEN 0 ELSE 1,
                        local_ready |-> ~s.voted, since |-> since]
  OBVIOUS
<1>3. /\ roc \in ReadOnlyCommand
      /\ roc.since = since
      /\ ~s.voted => roc.ready_count = 1 /\ roc.local_ready
      /\ s.voted => roc.ready_count = 0 /\ ~roc.local_ready
  <2>1. CASE s.voted = TRUE
    <3>1. roc = [ready_count |-> 0, local_ready |-> FALSE, since |-> since]
      BY <1>2, <2>1
    <3> QED BY <2>1, <3>1 DEF ReadOnlyCommand
  <2>2. CASE s.voted = FALSE
    <3>1. roc = [ready_count |-> 1, local_ready |-> TRUE, since |-> since]
      BY <1>2, <2>2
    <3> QED BY <2>2, <3>1 DEF ReadOnlyCommand
  <2> QED BY <1>1, <2>1, <2>2
<1>4. PICK reads : reads = [id \in DOMAIN s.reads \cup {s.next_id} |->
                              IF id # s.next_id THEN s.reads[id] ELSE roc]
  OBVIOUS
<1>5. /\ DOMAIN reads = DOMAIN s.reads \cup {s.next_id}
      /\ reads = [id \in DOMAIN reads |-> reads[id]]
      /\ \A id \in DOMAIN s.reads : id # s.next_id => reads[id] = s.reads[id]
      /\ reads[s.next_id] = roc
  BY <1>4
<1>6. DOMAIN reads \subseteq Nat /\ \A id \in DOMAIN reads : reads[id] \in ReadOnlyCommand
  BY <1>1, <1>3, <1>5
<1>7. InsertRead(s, since) = [s EXCEPT !.reads = reads, !.next_id = @ + 1]
  BY <1>2, <1>4 DEF InsertRead
<1>8. /\ t.slot = s.slot /\ t.voted = s.voted /\ t.next_id = s.next_id + 1
      /\ t.reads = reads /\ t.queued_messages = s.queued_messages
      /\ t.shard_id = s.shard_id /\ IsShard(t)
  <2>1. PICK a, b, c, d, e, f :
          s = [shard_id |-> a, slot |-> b, voted |-> c, next_id |-> d,
               reads |-> e, queued_messages |-> f]
    BY DEF IsShard
  <2>2. PICK u : u = [s EXCEPT !.reads = reads]
    OBVIOUS
  <2>3. u = [shard_id |-> a, slot |-> b, voted |-> c, next_id |-> d,
             reads |-> reads, queued_messages |-> f]
    BY <2>1, <2>2
  <2>4. t = [u EXCEPT !.next_id = d + 1]
    BY <1>7, <2>1, <2>2
  <2>5. t = [shard_id |-> a, slot |-> b, voted |-> c, next_id |-> d + 1,
             reads |-> reads, queued_messages |-> f]
    BY <2>3, <2>4
  <2> QED BY <1>1, <1>5, <1>6, <2>1, <2>5, LogicalType DEF IsShard, IsPhysicalShard
<1> QED BY <1>3, <1>5, <1>8

\* No message about an id that has not been given out is anywhere.
LEMMA NewIdIsUnknown ==
  ASSUME PoolsWell, IdsKnown, NEW p \in Proc, NEW sh \in Shard, NEW q \in Proc
  PROVE  LET n == Logical(p, sh).next_id
         IN  /\ Absent(net[p][q], Requests(sh, n))
             /\ Absent(net[q][p], Responses(sh, n, q))
             /\ \A m \in Logical(p, sh).queued_messages : m.id # n
             /\ n \notin DOMAIN Logical(p, sh).reads
<1> DEFINE n == Logical(p, sh).next_id
<1>1. /\ n \in Nat
      /\ DOMAIN Logical(p, sh).reads \subseteq Nat
      /\ Logical(p, sh).queued_messages \subseteq ReadResponse
  BY AwakeIsLogical, LogicalType
<1>2. KnownIn(p, Logical(p, sh))
  BY DEF IdsKnown
<1>3. ASSUME NEW m \in Routed(p, q), m \in Requests(sh, n)
      PROVE  FALSE
  <2>1. m.type = "ReadRequest" /\ m.shard = sh /\ m.id = n
    BY <1>3 DEF Requests
  <2>2. m.id < Logical(p, m.shard).next_id
    BY <2>1 DEF Routed, ReadResponse
  <2> QED BY <1>1, <2>1, <2>2
<1>4. ASSUME NEW m \in Routed(q, p), m \in Responses(sh, n, q)
      PROVE  FALSE
  <2>1. m.type = "ReadResponse" /\ m.shard = sh /\ m.id = n
    BY <1>4 DEF Responses
  <2>2. m.id < Logical(p, m.shard).next_id
    BY <2>1 DEF Routed, ReadRequest
  <2> QED BY <1>1, <2>1, <2>2
<1>5. \A a, b \in Proc : \A i \in DOMAIN net[a][b] : net[a][b][i] \in Routed(a, b)
  BY DEF IdsKnown
<1>6. Absent(net[p][q], Requests(sh, n)) /\ Absent(net[q][p], Responses(sh, n, q))
  BY <1>3, <1>4, <1>5 DEF Absent, At
<1>7. /\ \A m \in Logical(p, sh).queued_messages : m.id # n
      /\ n \notin DOMAIN Logical(p, sh).reads
  BY <1>1, <1>2 DEF KnownIn
<1> QED BY <1>6, <1>7

LEMMA StartReadStep ==
  ASSUME ReadsInv, NEW p \in Proc, NEW sh \in Shard, StartRead(p, sh)
  PROVE  ReadsInv'
<1>1. PICK s : s = Logical(p, sh)
  OBVIOUS
<1>2. PICK c : c = LastCommitted(sh)
  OBVIOUS
<1>3. PICK n, t, m : /\ n = s.next_id
                     /\ t = InsertRead(s, c)
                     /\ m = [type |-> "ReadRequest", shard |-> sh, id |-> n]
  OBVIOUS
<1>4. /\ Awake(p, sh) = s /\ IsShard(s) /\ s.shard_id = sh
      /\ KnownIn(p, s)
  BY <1>1, AwakeIsLogical DEF ReadsInv, IdsKnown
<1>5. c \in Nat /\ \E o \in Proc : Logical(o, sh).slot = c
  BY <1>2, LastCommittedIsCommitted DEF ReadsInv
<1>6. /\ Serve(p, sh, t)
      /\ net' = Push(net, p, AliveReplicas \ {p}, m)
      /\ unread[p][sh] > 0 /\ unread' = [unread EXCEPT ![p][sh] = @ - 1]
      /\ served' = served
  BY <1>2, <1>3, <1>4 DEF StartRead
<1>7. /\ t.slot = s.slot /\ t.voted = s.voted /\ t.next_id = n + 1
      /\ t.queued_messages = s.queued_messages
      /\ t.shard_id = sh /\ IsShard(t)
      /\ DOMAIN t.reads = DOMAIN s.reads \cup {n}
      /\ \A id \in DOMAIN s.reads : id # n => t.reads[id] = s.reads[id]
      /\ t.reads[n].since = c
      /\ ~s.voted => t.reads[n].ready_count = 1 /\ t.reads[n].local_ready
      /\ s.voted => t.reads[n].ready_count = 0 /\ ~t.reads[n].local_ready
  BY <1>3, <1>4, <1>5, InsertReadFields
<1>8. /\ n \in Nat /\ s.slot \in Nat /\ s.voted \in BOOLEAN
      /\ DOMAIN s.reads \subseteq Nat /\ s.queued_messages \subseteq ReadResponse
  BY <1>3, <1>4, LogicalType
<1>9. m \in Message /\ m.type = "ReadRequest" /\ m.shard = sh /\ m.id = n
  BY <1>3, <1>8 DEF Message, ReadRequest
<1>10. Grows(s, t) /\ t.next_id >= s.next_id /\ KnownIn(p, t)
  <2>1. \A id \in DOMAIN s.reads : id < n
    BY <1>3, <1>4 DEF KnownIn
  <2>2. \A h \in s.queued_messages : h.id < n /\ h.id \in Nat /\ h.from \in AliveReplicas \ {p}
    BY <1>3, <1>4, <1>8 DEF KnownIn, ReadResponse
  <2> QED BY <1>3, <1>7, <1>8, <2>1, <2>2 DEF Grows, KnownIn
<1>11. /\ PoolsWell'
      /\ Logical(p, sh)' = t
      /\ \A q \in Proc : \A tw \in Shard :
           /\ q # p \/ tw # sh => Logical(q, tw)' = Logical(q, tw)
           /\ Grows(Logical(q, tw), Logical(q, tw)')
           /\ KnownIn(q, Logical(q, tw)')
      /\ \A a, b \in Proc : Routed(a, b) \subseteq Routed(a, b)'
  BY <1>4, <1>6, <1>7, <1>10, ServeStep, <1>1 DEF ReadsInv
<1>12. net \in [Proc -> [Proc -> Seq(Message)]]
  BY DEF ReadsInv, VariablesTyped
<1>13. VariablesTyped'
  <2>1. net' \in [Proc -> [Proc -> Seq(Message)]]
    BY <1>6, <1>9, <1>12, PushNet
  <2>2. unread' \in [Proc -> [Shard -> Nat]]
    BY <1>6 DEF ReadsInv, VariablesTyped
  <2> QED BY <1>6, <2>1, <2>2 DEF ReadsInv, VariablesTyped
<1>14. IdsKnown'
  <2>1. ASSUME NEW a \in Proc, NEW b \in Proc
        PROVE  net'[a][b] \in Seq(Routed(a, b)')
    <3>1. CASE a # p \/ b \notin AliveReplicas \ {p}
      <4>1. net'[a][b] = net[a][b]
        BY <1>6, <1>12, <3>1 DEF Push
      <4> QED BY <1>11, <4>1, RoutedStay DEF ReadsInv
    <3>2. CASE a = p /\ b \in AliveReplicas \ {p}
      <4>1. net'[a][b] = Append(net[a][b], m)
        BY <1>6, <1>12, <3>2 DEF Push
      <4>2. m \in Routed(a, b)'
        BY <1>7, <1>8, <1>9, <1>11, <3>2 DEF Routed, Message, ReadResponse
      <4>3. Append(net[a][b], m) \in Seq(Routed(a, b)')
        BY <1>11, <4>2, RoutedStay DEF ReadsInv
      <4> QED BY <4>1, <4>3
    <3> QED BY <3>1, <3>2
  <2> QED BY <1>11, <2>1 DEF IdsKnown
<1>15. \A q \in Proc : \A tw \in Shard :
        /\ Logical(q, tw)'.slot = Logical(q, tw).slot
        /\ Logical(q, tw)'.queued_messages = Logical(q, tw).queued_messages
  BY <1>7, <1>11, <1>1
<1>16. SlotsDecided'
  BY <1>11, <1>15, SlotsStayDecided DEF ReadsInv
<1>17. ASSUME NEW o \in AliveReplicas, NEW tw \in Shard, NEW id \in DOMAIN Logical(o, tw).reads
       PROVE  \E M, A \in SUBSET AliveReplicas : ReadInOrder(o, tw, id, M, A)'
  <2>1. o \in Proc
    BY TopologyAssumption
  <2>2. PICK M, A \in SUBSET AliveReplicas : ReadInOrder(o, tw, id, M, A)
    BY DEF ReadsInv, ReadsInOrder
  <2>3. o = p /\ tw = sh => id # n
    BY <1>1, <1>3, <1>4, <1>8 DEF KnownIn
  <2>4. Logical(o, tw)'.reads[id] = Logical(o, tw).reads[id]
    BY <1>7, <1>11, <2>1, <2>3, <1>1
  <2>5. ASSUME NEW q \in AliveReplicas \ {o}
        PROVE  /\ Fewer(net'[o][q], net[o][q], Requests(tw, id))
               /\ Fewer(net'[q][o], net[q][o], Responses(tw, id, q))
    <3>1. q \in Proc
      BY TopologyAssumption
    <3>2. o # p \/ m \notin Requests(tw, id)
      BY <1>9, <2>3 DEF Requests
    <3>3. m \notin Responses(tw, id, q)
      BY <1>9 DEF Responses
    <3> QED BY <1>6, <1>9, <1>12, <2>1, <3>1, <3>2, <3>3, PushedIsFewer
  <2>6. ReadInOrder(o, tw, id, M, A)'
    BY <1>11, <1>15, <2>1, <2>2, <2>4, <2>5, ReadKept DEF ReadsInv
  <2> QED BY <2>6
<1>18. ASSUME p \in AliveReplicas
       PROVE  \E M, A \in SUBSET AliveReplicas : ReadInOrder(p, sh, n, M, A)'
  <2> DEFINE M == IF c > 0 THEN Voters(sh, c - 1) ELSE {}
             A == IF s.voted THEN {} ELSE {p}
  <2>1. M \in SUBSET AliveReplicas /\ A \in SUBSET AliveReplicas
    BY <1>18 DEF Voters
  <2>2. Logical(p, sh)'.reads[n] = t.reads[n] /\ Logical(p, sh)'.queued_messages = s.queued_messages
    BY <1>7, <1>11
  <2>3. t.reads[n].ready_count = Cardinality(A) /\ (p \in A <=> t.reads[n].local_ready)
    BY <1>7, FS_EmptySet, FS_Singleton
  <2>4. c > 0 => Cardinality(M) >= Majority
    <3>1. PICK o \in Proc : Logical(o, sh).slot = c
      BY <1>5
    <3>2. c > 0 => Cardinality(Voters(sh, Logical(o, sh).slot - 1)) >= Majority
      BY <3>1 DEF ReadsInv, SlotsDecided
    <3> QED BY <3>1, <3>2
  <2>5. c > 0 => \A q \in M : VotedIn(q, sh, c - 1)
    BY DEF Voters
  <2>6. c > 0 => \A q \in M : VotedIn(q, sh, c - 1)'
    BY <1>5, <1>11, <2>1, <2>5, VotedInGrows, TopologyAssumption DEF ReadsInv
  <2>7. A \cap M # {} => t.slot >= c
    <3>1. ASSUME ~s.voted, c > 0, VotedIn(p, sh, c - 1)
          PROVE  s.slot >= c
      BY <1>1, <1>5, <1>8, <3>1 DEF VotedIn
    <3> QED BY <1>7, <2>5, <3>1
  <2>8. ASSUME NEW q \in AliveReplicas \ {p}
        PROVE  /\ OneAnswer(net'[p][q], net'[q][p], s.queued_messages, A, sh, n, q)
               /\ AnswersReach(net'[q][p], s.queued_messages, sh, n, q, c)
    <3>1. q \in Proc /\ q \notin A
      BY TopologyAssumption
    <3>2. /\ Absent(net[p][q], Requests(sh, n))
          /\ Absent(net[q][p], Responses(sh, n, q))
          /\ \A h \in s.queued_messages : h.id # n
      BY <1>1, <1>3, <3>1, NewIdIsUnknown DEF ReadsInv
    <3>3. net'[p][q] = Append(net[p][q], m) /\ net'[q][p] = net[q][p]
      BY <1>6, <1>12, <3>1 DEF Push
    <3>4. Once(net'[p][q], Requests(sh, n))
      <4>1. net[p][q] \in Seq(Message)
        BY <1>12, <3>1
      <4> QED BY <1>9, <3>2, <3>3, <4>1, AppendOnce
    <3>5. {h \in s.queued_messages : h.id = n /\ h.from = q} = {}
      BY <3>2
    <3>6. Absent(net'[q][p], Responses(sh, n, q))
      BY <3>2, <3>3
    <3> HIDE DEF A, M
    <3>7. OneAnswer(net'[p][q], net'[q][p], s.queued_messages, A, sh, n, q)
      BY <3>1, <3>4, <3>5, <3>6 DEF OneAnswer, Once, Absent
    <3>8. AnswersReach(net'[q][p], s.queued_messages, sh, n, q, c)
      BY <3>2, <3>6 DEF AnswersReach, Absent
    <3> QED BY <3>7, <3>8
  <2> HIDE DEF A, M
  <2>9. PICK M1, A1 \in SUBSET AliveReplicas : M1 = M /\ A1 = A
    BY <2>1
  <2>10. ReadInOrder(p, sh, n, M1, A1)'
    BY <1>7, <1>11, <2>2, <2>3, <2>4, <2>6, <2>7, <2>8, <2>9 DEF ReadInOrder
  <2> QED BY <2>10
<1>19. ReadsInOrder'
  <2> SUFFICES ASSUME NEW o \in AliveReplicas, NEW tw \in Shard,
                      NEW id \in DOMAIN Logical(o, tw)'.reads
               PROVE  \E M, A \in SUBSET AliveReplicas : ReadInOrder(o, tw, id, M, A)'
    BY DEF ReadsInOrder
  <2>1. o \in Proc
    BY TopologyAssumption
  <2>2. CASE id \in DOMAIN Logical(o, tw).reads
    BY <1>17, <2>2
  <2>3. CASE id \notin DOMAIN Logical(o, tw).reads
    <3>1. o = p /\ tw = sh /\ id = n
      BY <1>7, <1>11, <2>1, <2>3, <1>1
    <3> QED BY <1>18, <3>1
  <2> QED BY <2>2, <2>3
<1>20. ReplicaReadsLinearizable'
  BY <1>6 DEF ReadsInv, ReplicaReadsLinearizable, Linearizable
<1> QED BY <1>11, <1>13, <1>14, <1>16, <1>19, <1>20 DEF ReadsInv

-----------------------------------------------------------------------------
(* Answering a request *)

\* What is at the head of a channel belongs there.
LEMMA HeadIsRouted ==
  ASSUME IdsKnown, NEW q \in Proc, NEW p \in Proc, net[q][p] # <<>>
  PROVE  Head(net[q][p]) \in Routed(q, p)
BY DEF IdsKnown

\* The answer to a read's request comes from the channel the request is taken from.
LEMMA AnsweredInOrder ==
  ASSUME NEW out \in Seq(Message), NEW in \in Seq(Message), NEW held, NEW A,
         NEW sh, NEW id, NEW q,
         OneAnswer(out, in, held, A, sh, id, q),
         out # <<>>, Head(out) \in Requests(sh, id),
         NEW r \in Message, r \in Responses(sh, id, q)
  PROVE  /\ OneAnswer(Tail(out), Append(in, r), held, A, sh, id, q)
         /\ \A n \in Nat : r.next_readable_slot >= n =>
              AnswersReach(Append(in, r), held, sh, id, q, n)
<1>1. ~Absent(out, Requests(sh, id)) /\ Once(out, Requests(sh, id))
  BY TailAt DEF OneAnswer, Absent
<1>2. Absent(Tail(out), Requests(sh, id))
  BY <1>1, TailAbsent
<1>3. /\ Absent(in, Responses(sh, id, q))
      /\ {h \in held : h.id = id /\ h.from = q} = {}
      /\ q \notin A
  BY <1>1 DEF OneAnswer
<1>4. /\ Once(Append(in, r), Responses(sh, id, q))
      /\ \A i \in At(Append(in, r), Responses(sh, id, q)) : Append(in, r)[i] = r
  BY <1>3, AppendOnce
<1>5. OneAnswer(Tail(out), Append(in, r), held, A, sh, id, q)
  BY <1>2, <1>3, <1>4 DEF OneAnswer, Once, Absent
<1> QED BY <1>3, <1>4, <1>5 DEF AnswersReach

LEMMA AnswerRequestStep ==
  ASSUME ReadsInv, NEW p \in Proc, NEW q \in Proc, AnswerRequest(p, q)
  PROVE  ReadsInv'
<1>1. PICK m : m = Head(net[q][p])
  OBVIOUS
<1>2. net[q][p] # <<>> /\ m.type = "ReadRequest"
  BY <1>1 DEF AnswerRequest
<1>3. m \in Routed(q, p)
  BY <1>1, <1>2, HeadIsRouted DEF ReadsInv
<1>4. m \in ReadRequest /\ p \in AliveReplicas \ {q} /\ m.id < Logical(q, m.shard).next_id
  BY <1>2, <1>3 DEF Routed, ReadResponse
<1>5. PICK sh \in Shard, id \in Nat : sh = m.shard /\ id = m.id
  BY <1>4 DEF ReadRequest
<1>6. PICK s : s = Logical(p, sh)
  OBVIOUS
<1>7. /\ Awake(p, sh) = s /\ IsShard(s) /\ s.shard_id = sh
      /\ KnownIn(p, s)
  BY <1>6, AwakeIsLogical DEF ReadsInv, IdsKnown
<1>8. s.slot \in Nat /\ s.next_id \in Nat /\ s.voted \in BOOLEAN
  BY <1>7, LogicalType
<1>9. PICK r : r = [type |-> "ReadResponse", shard |-> sh, id |-> id,
                    next_readable_slot |-> NextReadable(s), from |-> p]
  OBVIOUS
<1>10. /\ r.type = "ReadResponse" /\ r.shard = sh /\ r.id = id /\ r.from = p
       /\ r.next_readable_slot = NextReadable(s)
       /\ NextReadable(s) \in Nat
       /\ r \in ReadResponse /\ r \in Message /\ r \in Responses(sh, id, p)
  BY <1>8, <1>9 DEF NextReadable, Message, ReadResponse, Responses
<1>11. /\ Serve(p, sh, s)
       /\ net' = Push(Pop(q, p), p, {q}, r)
       /\ unread' = unread /\ served' = served
  BY <1>1, <1>5, <1>7, <1>9 DEF AnswerRequest
<1>12. Grows(s, s) /\ s.next_id >= s.next_id
  BY <1>8 DEF Grows
<1>13. /\ PoolsWell'
       /\ Logical(p, sh)' = s
       /\ \A o \in Proc : \A tw \in Shard :
            /\ o # p \/ tw # sh => Logical(o, tw)' = Logical(o, tw)
            /\ Grows(Logical(o, tw), Logical(o, tw)')
            /\ KnownIn(o, Logical(o, tw)')
       /\ \A a, b \in Proc : Routed(a, b) \subseteq Routed(a, b)'
  BY <1>6, <1>7, <1>11, <1>12, ServeStep DEF ReadsInv
<1>14. \A o \in Proc : \A tw \in Shard : Logical(o, tw)' = Logical(o, tw)
  BY <1>6, <1>13
<1>15. net \in [Proc -> [Proc -> Seq(Message)]] /\ p # q
  BY <1>4 DEF ReadsInv, VariablesTyped
<1>16. /\ net' \in [Proc -> [Proc -> Seq(Message)]]
       /\ net'[q][p] = Tail(net[q][p])
       /\ net'[p][q] = Append(net[p][q], r)
       /\ \A a, b \in Proc : ~(a = q /\ b = p) /\ ~(a = p /\ b = q) => net'[a][b] = net[a][b]
  <2>1. PICK k : k = net'
    OBVIOUS
  <2>2. PICK n : n = Pop(q, p)
    OBVIOUS
  <2>3. /\ n \in [Proc -> [Proc -> Seq(Message)]]
        /\ n[q][p] = Tail(net[q][p])
        /\ \A a, b \in Proc : a # q \/ b # p => n[a][b] = net[a][b]
    BY <1>2, <1>15, <2>2, PopNet
  <2>4. PICK D : D = {q}
    OBVIOUS
  <2>5. k = Push(n, p, D, r)
    BY <1>11, <2>1, <2>2, <2>4
  <2>6. /\ k \in [Proc -> [Proc -> Seq(Message)]]
        /\ k[p][q] = Append(n[p][q], r)
        /\ \A a, b \in Proc : a # p \/ b # q => k[a][b] = n[a][b]
    <3>1. q \in D /\ \A b : b # q => b \notin D
      BY <2>4
    <3>2. n \in [Proc -> [Proc -> Seq(Message)]]
      BY <2>3
    <3>3. r \in Message
      BY <1>10
    <3>4. /\ Push(n, p, D, r) \in [Proc -> [Proc -> Seq(Message)]]
          /\ \A b \in Proc : b \in D => Push(n, p, D, r)[p][b] = Append(n[p][b], r)
          /\ \A a, b \in Proc : a # p \/ b \notin D => Push(n, p, D, r)[a][b] = n[a][b]
      BY ONLY <3>2, <3>3, p \in Proc DEF Push
    <3> QED BY ONLY <2>5, <3>1, <3>4, p \in Proc, q \in Proc, Zenon
  <2>7. k[q][p] = Tail(net[q][p])
    BY <1>15, <2>3, <2>6
  <2>8. k[p][q] = Append(net[p][q], r)
    <3>1. n[p][q] = net[p][q]
      BY <1>15, <2>3
    <3> QED BY <2>6, <3>1
  <2>9. ASSUME NEW a \in Proc, NEW b \in Proc, ~(a = q /\ b = p), ~(a = p /\ b = q)
        PROVE  k[a][b] = net[a][b]
    <3>1. k[a][b] = n[a][b]
      BY ONLY <2>6, <2>9, a \in Proc, b \in Proc, Zenon
    <3>2. n[a][b] = net[a][b]
      BY ONLY <2>3, <2>9, a \in Proc, b \in Proc, Zenon
    <3> QED BY ONLY <3>1, <3>2
  <2> QED BY ONLY <2>1, <2>6, <2>7, <2>8, <2>9
<1>17. VariablesTyped'
  BY <1>11, <1>16 DEF ReadsInv, VariablesTyped
<1>18. IdsKnown'
  <2>1. ASSUME NEW a \in Proc, NEW b \in Proc
        PROVE  net'[a][b] \in Seq(Routed(a, b)')
    <3>1. /\ net[a][b] \in Seq(Routed(a, b)')
          /\ net[a][b] # <<>> => Tail(net[a][b]) \in Seq(Routed(a, b)')
          /\ \A h \in Routed(a, b)' : Append(net[a][b], h) \in Seq(Routed(a, b)')
      BY <1>13, RoutedStay DEF ReadsInv
    <3>2. CASE a = q /\ b = p
      BY <1>2, <1>16, <3>1, <3>2
    <3>3. CASE a = p /\ b = q
      <4>1. r \in Routed(p, q)'
        BY <1>4, <1>5, <1>10, <1>14 DEF Routed
      <4> QED BY <1>16, <3>1, <3>3, <4>1
    <3>4. CASE ~(a = q /\ b = p) /\ ~(a = p /\ b = q)
      BY <1>16, <3>1, <3>4
    <3> QED BY <3>2, <3>3, <3>4
  <2> QED BY <1>13, <2>1 DEF IdsKnown
<1>19. SlotsDecided'
  BY <1>13, <1>14, SlotsStayDecided DEF ReadsInv
<1>20. ASSUME NEW o \in AliveReplicas, NEW tw \in Shard, NEW i \in DOMAIN Logical(o, tw).reads
       PROVE  \E M, A \in SUBSET AliveReplicas : ReadInOrder(o, tw, i, M, A)'
  <2>1. o \in Proc /\ AliveReplicas \subseteq Proc
    BY TopologyAssumption
  <2>2. PICK M, A \in SUBSET AliveReplicas : ReadInOrder(o, tw, i, M, A)
    BY DEF ReadsInv, ReadsInOrder
  <2>3. ASSUME NEW a \in AliveReplicas \ {o}, ~(o = q /\ a = p /\ tw = sh /\ i = id)
        PROVE  /\ Fewer(net'[o][a], net[o][a], Requests(tw, i))
               /\ Fewer(net'[a][o], net[a][o], Responses(tw, i, a))
    <3>1. a \in Proc /\ net[o][a] \in Seq(Message) /\ net[a][o] \in Seq(Message)
      BY <1>15, <2>1
    <3>2. CASE o = q /\ a = p
      <4>1. r \notin Responses(tw, i, a)
        BY <1>10, <2>3, <3>2 DEF Responses
      <4>2. net'[o][a] = Tail(net[o][a]) /\ net[o][a] # <<>> /\ net'[a][o] = Append(net[a][o], r)
        BY <1>2, <1>16, <3>2
      <4>3. Fewer(net'[o][a], net[o][a], Requests(tw, i))
        BY <3>1, <4>2, TailIsFewer
      <4>4. Fewer(net'[a][o], net[a][o], Responses(tw, i, a))
        BY <1>10, <3>1, <4>1, <4>2, AppendIsFewer
      <4> QED BY <4>3, <4>4
    <3>3. CASE o = p /\ a = q
      <4>1. r \notin Requests(tw, i)
        BY <1>10 DEF Requests
      <4>2. net'[a][o] = Tail(net[a][o]) /\ net[a][o] # <<>> /\ net'[o][a] = Append(net[o][a], r)
        BY <1>2, <1>16, <3>3
      <4>3. Fewer(net'[a][o], net[a][o], Responses(tw, i, a))
        BY <3>1, <4>2, TailIsFewer
      <4>4. Fewer(net'[o][a], net[o][a], Requests(tw, i))
        BY <1>10, <3>1, <4>1, <4>2, AppendIsFewer
      <4> QED BY <4>3, <4>4
    <3>4. CASE ~(o = q /\ a = p) /\ ~(o = p /\ a = q)
      <4>1. net'[o][a] = net[o][a] /\ net'[a][o] = net[a][o]
        BY <1>16, <2>1, <3>1, <3>4
      <4> QED BY <4>1, SameIsFewer
    <3> QED BY <3>2, <3>3, <3>4
  <2>4. CASE ~(o = q /\ tw = sh /\ i = id)
    <3>1. \A a \in AliveReplicas \ {o} :
            /\ Fewer(net'[o][a], net[o][a], Requests(tw, i))
            /\ Fewer(net'[a][o], net[a][o], Responses(tw, i, a))
      BY <2>3, <2>4
    <3>2. ReadInOrder(o, tw, i, M, A)'
      BY <1>13, <1>14, <2>1, <2>2, <3>1, ReadKept DEF ReadsInv
    <3> QED BY <3>2
  <2>5. CASE o = q /\ tw = sh /\ i = id
    <3>1. PICK t, c : t = Logical(q, sh) /\ c = t.reads[id].since
      OBVIOUS
    <3>2. IsShard(t) /\ c \in Nat
      BY <2>5, <3>1, AwakeIsLogical, LogicalType DEF ReadsInv, ReadOnlyCommand
    <3>3. ASSUME NEW a \in AliveReplicas \ {q}
          PROVE  /\ OneAnswer(net'[q][a], net'[a][q], t.queued_messages, A, sh, id, a)
                 /\ a \in M => AnswersReach(net'[a][q], t.queued_messages, sh, id, a, c)
      <4>1. /\ OneAnswer(net[q][a], net[a][q], t.queued_messages, A, sh, id, a)
            /\ a \in M => AnswersReach(net[a][q], t.queued_messages, sh, id, a, c)
        BY <2>2, <2>5, <3>1 DEF ReadInOrder
      <4>2. CASE a # p
        <5>1. /\ Fewer(net'[q][a], net[q][a], Requests(sh, id))
              /\ Fewer(net'[a][q], net[a][q], Responses(sh, id, a))
          BY <2>3, <2>5, <4>2
        <5>2. OneAnswer(net'[q][a], net'[a][q], t.queued_messages, A, sh, id, a)
          BY <4>1, <5>1, AnswerKept
        <5>3. ASSUME a \in M
              PROVE  AnswersReach(net'[a][q], t.queued_messages, sh, id, a, c)
          <6>1. AnswersReach(net[a][q], t.queued_messages, sh, id, a, c)
            BY <4>1, <5>3
          <6> QED BY <3>2, <5>1, <6>1, ReachKept
        <5> QED BY <5>2, <5>3
      <4>3. CASE a = p
        <5>1. net[q][p] \in Seq(Message) /\ net[p][q] \in Seq(Message)
          BY <1>15
        <5>2. Head(net[q][p]) \in Requests(sh, id)
          BY <1>1, <1>4, <1>5 DEF Requests, ReadRequest
        <5>3. OneAnswer(net[q][p], net[p][q], t.queued_messages, A, sh, id, p)
          BY <4>1, <4>3
        <5>4. /\ OneAnswer(Tail(net[q][p]), Append(net[p][q], r), t.queued_messages, A, sh, id, p)
              /\ r.next_readable_slot >= c =>
                   AnswersReach(Append(net[p][q], r), t.queued_messages, sh, id, p, c)
          BY <1>2, <1>10, <3>2, <5>1, <5>2, <5>3, AnsweredInOrder
        <5>5. ASSUME p \in M
              PROVE  r.next_readable_slot >= c
          <6>1. c > 0 => VotedIn(p, sh, c - 1)
            BY <2>2, <2>5, <3>1, <5>5 DEF ReadInOrder
          <6> QED BY <1>6, <1>8, <1>10, <3>2, <6>1 DEF VotedIn, NextReadable
        <5> QED BY <1>16, <4>3, <5>4, <5>5
      <4> QED BY <4>2, <4>3
    <3>4. ReadInOrder(q, sh, id, M, A)
      BY <2>2, <2>5
    <3>5. /\ t.reads[id].ready_count = Cardinality(A)
          /\ A \cap M # {} => t.slot >= c
      BY <3>1, <3>4 DEF ReadInOrder
    <3>6. q \in A <=> t.reads[id].local_ready
      BY <3>1, <3>4 DEF ReadInOrder
    <3>7. t = Logical(q, sh)'
      BY <1>14, <3>1
    <3>8. ReadInOrder(q, sh, id, M, A)'
      BY <1>13, <2>5, <3>1, <3>3, <3>4, <3>5, <3>6, <3>7, ReadInOrderNext DEF ReadsInv
    <3> QED BY <2>5, <3>8
  <2> QED BY <2>4, <2>5
<1>21. ReadsInOrder'
  BY <1>14, <1>20, TopologyAssumption DEF ReadsInOrder
<1>22. ReplicaReadsLinearizable'
  BY <1>11 DEF ReadsInv, ReplicaReadsLinearizable, Linearizable
<1> QED BY <1>13, <1>17, <1>18, <1>19, <1>21, <1>22 DEF ReadsInv

-----------------------------------------------------------------------------
(* Counting answers *)

\* A read after it has counted the answers H, and its own process if local, and the
\* replicas that it is counted for then.
WithCounted(roc, H, local) ==
  [roc EXCEPT
     !.ready_count = @ + Cardinality(H) + IF local /\ ~roc.local_ready THEN 1 ELSE 0,
     !.local_ready = @ \/ local]
CountedFor(A, H, p, local) == A \cup {m.from : m \in H} \cup (IF local THEN {p} ELSE {})

\* A read that counts the answers H, and its own process if local, is counted for
\* the replicas that they are from as well.
LEMMA CountedRead ==
  ASSUME NEW p \in AliveReplicas, NEW roc \in ReadOnlyCommand, NEW A \in SUBSET AliveReplicas,
         roc.ready_count = Cardinality(A), p \in A <=> roc.local_ready,
         NEW H, \A m \in H : m.from \in AliveReplicas \ {p} /\ m.from \notin A,
         \A m, n \in H : m.from = n.from => m = n,
         NEW local \in BOOLEAN,
         NEW rec, rec = WithCounted(roc, H, local),
         NEW B, B = CountedFor(A, H, p, local)
  PROVE  /\ B \in SUBSET AliveReplicas
         /\ rec \in ReadOnlyCommand
         /\ rec.since = roc.since
         /\ rec.ready_count = Cardinality(B)
         /\ p \in B <=> rec.local_ready
<1>1. PICK F : F = {m.from : m \in H}
  OBVIOUS
<1>2. /\ F \in SUBSET AliveReplicas /\ IsFiniteSet(F)
      /\ Cardinality(F) = Cardinality(H) /\ Cardinality(H) \in Nat
  BY <1>1, CountFroms
<1>3. F \cap A = {} /\ p \notin F
  BY <1>1
<1>4. IsFiniteSet(A) /\ Cardinality(A) \in Nat
  BY ReplicasFinite, FS_Subset, FS_CardinalityType
<1>5. /\ IsFiniteSet(A \cup F)
      /\ Cardinality(A \cup F) = Cardinality(A) + Cardinality(H)
  <2>1. Cardinality(A \cap F) = 0
    <3>1. PICK X : X = A \cap F
      OBVIOUS
    <3>2. X = {}
      BY <1>3, <3>1
    <3> QED BY <3>1, <3>2, FS_EmptySet
  <2>2. /\ IsFiniteSet(A \cup F)
        /\ Cardinality(A \cup F) = Cardinality(A) + Cardinality(F) - Cardinality(A \cap F)
    BY ONLY <1>2, <1>4, FS_Union
  <2> QED BY <1>2, <1>4, <2>1, <2>2
<1>6. PICK b, x, l, e : /\ roc = [ready_count |-> x, local_ready |-> l, since |-> e]
                        /\ x \in Nat /\ l \in BOOLEAN /\ e \in Nat
                        /\ b = Cardinality(H)
  BY DEF ReadOnlyCommand
<1>7. x = Cardinality(A) /\ (p \in A <=> l)
  BY <1>6
<1>8. PICK v, w : /\ v = roc.ready_count + Cardinality(H) + (IF local /\ ~roc.local_ready THEN 1 ELSE 0)
                  /\ w = (roc.local_ready \/ local)
  OBVIOUS
<1>9. rec = [ready_count |-> v, local_ready |-> w, since |-> e]
  <2>1. rec = [[roc EXCEPT !.ready_count = v] EXCEPT !.local_ready = w]
    BY ONLY <1>8, rec = WithCounted(roc, H, local), Zenon DEF WithCounted
  <2>2. [roc EXCEPT !.ready_count = v] = [ready_count |-> v, local_ready |-> l, since |-> e]
    BY <1>6
  <2> QED BY ONLY <2>1, <2>2
<1>10. w \in BOOLEAN /\ (w <=> l \/ local)
  <2>1. roc.local_ready = l
    BY <1>6
  <2> QED BY ONLY <1>6, <1>8, <2>1, Zenon
<1>11. v = x + b + IF local /\ ~l THEN 1 ELSE 0
  BY <1>6, <1>8
<1>12. v \in Nat
  BY <1>2, <1>6, <1>11
<1>13. rec \in ReadOnlyCommand /\ rec.since = e /\ rec.ready_count = v /\ rec.local_ready = w
  <2>1. w \in BOOLEAN /\ e \in Nat
    BY <1>6, <1>10
  <2> QED BY ONLY <1>9, <1>12, <2>1 DEF ReadOnlyCommand
<1>14. CASE ~local
  <2>1. B = A \cup F
    BY <1>1, <1>14 DEF CountedFor
  <2>2. v = x + b
    BY ONLY <1>2, <1>6, <1>11, <1>14
  <2>3. Cardinality(B) = v /\ B \in SUBSET AliveReplicas
    BY <1>2, <1>5, <1>6, <1>7, <2>1, <2>2
  <2>4. p \in B <=> w
    BY ONLY <1>3, <1>7, <1>10, <1>14, <2>1, Zenon
  <2> QED BY <1>6, <1>13, <2>3, <2>4
<1>15. CASE local /\ l
  <2>1. B = A \cup F
    BY <1>1, <1>7, <1>15 DEF CountedFor
  <2>2. v = x + b
    BY ONLY <1>2, <1>6, <1>11, <1>15
  <2>3. Cardinality(B) = v /\ B \in SUBSET AliveReplicas
    BY <1>2, <1>5, <1>6, <1>7, <2>1, <2>2
  <2>4. p \in B /\ w
    BY ONLY <1>7, <1>10, <1>15, <2>1, Zenon
  <2> QED BY <1>6, <1>13, <2>3, <2>4
<1>16. CASE local /\ ~l
  <2>1. B = (A \cup F) \cup {p} /\ p \notin A \cup F
    BY <1>1, <1>3, <1>7, <1>16 DEF CountedFor
  <2>2. Cardinality(B) = Cardinality(A \cup F) + 1
    BY ONLY <1>5, <2>1, FS_AddElement
  <2>3. Cardinality(B) = v /\ B \in SUBSET AliveReplicas /\ p \in B /\ w
    BY <1>2, <1>4, <1>5, <1>6, <1>7, <1>10, <1>11, <1>16, <2>1, <2>2
  <2> QED BY <1>6, <1>13, <2>3
<1> QED BY <1>14, <1>15, <1>16

\* An answer that is counted is no longer held.
LEMMA CountedAnswer ==
  ASSUME NEW out, NEW in, NEW all, NEW A, NEW sh, NEW id, NEW q,
         OneAnswer(out, in, all, A, sh, id, q),
         NEW held \in SUBSET all, NEW heard \in SUBSET all,
         \A m \in heard : m.id = id => m \notin held,
         NEW B, q \in B <=> q \in A \/ \E m \in heard : m.id = id /\ m.from = q
  PROVE  OneAnswer(out, in, held, B, sh, id, q)
<1>1. {h \in held : h.id = id /\ h.from = q} \subseteq {h \in all : h.id = id /\ h.from = q}
  OBVIOUS
<1>2. ASSUME q \in B
      PROVE  /\ {h \in held : h.id = id /\ h.from = q} = {}
             /\ Absent(out, Requests(sh, id)) /\ Absent(in, Responses(sh, id, q))
  <2>1. CASE q \in A
    BY <1>1, <2>1 DEF OneAnswer
  <2>2. CASE \E m \in heard : m.id = id /\ m.from = q
    BY <1>1, <2>2 DEF OneAnswer
  <2> QED BY <1>2, <2>1, <2>2
<1> QED BY <1>1, <1>2 DEF OneAnswer

\* What counting does to a read, whoever it is from.
LEMMA CountedFields ==
  ASSUME NEW s, IsShard(s), NEW heard, IsFiniteSet(heard), NEW local \in BOOLEAN,
         NEW counted, counted = Counted(s, heard, local)
  PROVE  /\ DOMAIN counted = DOMAIN s.reads
         /\ counted = [id \in DOMAIN counted |-> counted[id]]
         /\ \A id \in DOMAIN s.reads :
              /\ counted[id] \in ReadOnlyCommand
              /\ counted[id].since = s.reads[id].since
<1>1. /\ DOMAIN counted = DOMAIN s.reads
      /\ counted = [id \in DOMAIN counted |-> counted[id]]
      /\ \A id \in DOMAIN s.reads : counted[id] =
           [s.reads[id] EXCEPT
              !.ready_count = @ + Cardinality({m \in heard : m.id = id})
                                + IF local /\ ~s.reads[id].local_ready THEN 1 ELSE 0,
              !.local_ready = @ \/ local]
  BY DEF Counted
<1>2. ASSUME NEW id \in DOMAIN s.reads
      PROVE  /\ counted[id] \in ReadOnlyCommand
             /\ counted[id].since = s.reads[id].since
  <2>1. PICK roc, rec, n : /\ roc = s.reads[id]
                           /\ rec = counted[id]
                           /\ n = Cardinality({m \in heard : m.id = id})
    OBVIOUS
  <2>2. n \in Nat
    <3>1. {m \in heard : m.id = id} \subseteq heard
      OBVIOUS
    <3> QED BY <2>1, <3>1, FS_Subset, FS_CardinalityType
  <2>3. PICK x, l, e : /\ roc = [ready_count |-> x, local_ready |-> l, since |-> e]
                       /\ x \in Nat /\ l \in BOOLEAN /\ e \in Nat
    BY <2>1, LogicalType DEF ReadOnlyCommand
  <2>4. PICK v, w : /\ v = roc.ready_count + n + (IF local /\ ~roc.local_ready THEN 1 ELSE 0)
                    /\ w = (roc.local_ready \/ local)
    OBVIOUS
  <2>5. rec = [[roc EXCEPT !.ready_count = v] EXCEPT !.local_ready = w]
    BY ONLY <1>1, <2>1, <2>4, id \in DOMAIN s.reads, Zenon
  <2>6. [roc EXCEPT !.ready_count = v] = [ready_count |-> v, local_ready |-> l, since |-> e]
    BY <2>3
  <2>7. rec = [ready_count |-> v, local_ready |-> w, since |-> e]
    BY ONLY <2>5, <2>6
  <2>8. w \in BOOLEAN
    BY ONLY <2>4, Zenon
  <2>9. v \in Nat
    BY <2>2, <2>3, <2>4
  <2>10. e \in Nat /\ roc.since = e
    BY <2>3
  <2>11. rec \in ReadOnlyCommand /\ rec.since = e
    BY ONLY <2>7, <2>8, <2>9, <2>10 DEF ReadOnlyCommand
  <2> QED BY ONLY <2>1, <2>10, <2>11
<1> QED BY <1>1, <1>2

\* The answers `heard' are counted by the shard s that p has made of sh, in the
\* channels that the step leaves: `all' is what s held and has just received.
LEMMA CountStep ==
  ASSUME ReadsInv, NEW p \in Proc, NEW sh \in Shard,
         NEW old, old = Logical(p, sh),
         NEW s, IsShard(s), s.shard_id = sh,
         Grows(old, s), s.next_id = old.next_id, s.reads = old.reads,
         NEW all, NEW heard \in SUBSET all, IsFiniteSet(heard), s.queued_messages \subseteq all,
         \A m \in all : m.id < s.next_id /\ m.from \in AliveReplicas \ {p},
         \A m \in heard : m.next_readable_slot <= s.slot,
         \A m \in heard : m.next_readable_slot \in Nat,
         NEW local \in BOOLEAN, local => s.slot > old.slot,
         CountAnswers(p, s, heard, local),
         \A id \in DOMAIN s.reads : \A M, A \in SUBSET AliveReplicas :
           p \in AliveReplicas /\ ReadInOrder(p, sh, id, M, A) =>
             /\ \A m \in heard : m.id = id => m \notin s.queued_messages
             /\ \A q \in AliveReplicas \ {p} :
                  /\ OneAnswer(net'[p][q], net'[q][p], all, A, sh, id, q)
                  /\ q \in M => AnswersReach(net'[q][p], all, sh, id, q, s.reads[id].since)
  PROVE  /\ PoolsWell'
         /\ Logical(p, sh)'.slot = s.slot
         /\ \A q \in Proc : \A tw \in Shard :
              /\ q # p \/ tw # sh => Logical(q, tw)' = Logical(q, tw)
              /\ Grows(Logical(q, tw), Logical(q, tw)')
              /\ KnownIn(q, Logical(q, tw)')
         /\ \A a, b \in Proc : Routed(a, b) \subseteq Routed(a, b)'
         /\ served' \subseteq [pid : Proc, shard : Shard, id : Nat, since : Nat, slot : Nat]
         /\ ReplicaReadsLinearizable'
         /\ p \in AliveReplicas => \A id \in DOMAIN Logical(p, sh)'.reads :
              \E M, A \in SUBSET AliveReplicas : ReadInOrder(p, sh, id, M, A)'
<1>1. PICK counted : counted = Counted(s, heard, local)
  OBVIOUS
<1>2. PICK done : done = {id \in HaveQuorum(counted) : local \/ \E m \in heard : m.id = id}
  OBVIOUS
<1>3. PICK reads : reads = Restrict(counted, DOMAIN counted \ done)
  OBVIOUS
<1>4. PICK t : t = [s EXCEPT !.reads = reads]
  OBVIOUS
<1>5. /\ Serve(p, sh, t)
      /\ served' = served \cup {[pid |-> p, shard |-> sh, id |-> id,
                                  since |-> counted[id].since, slot |-> s.slot] : id \in done}
  BY <1>1, <1>2, <1>3, <1>4 DEF CountAnswers
<1>6. /\ DOMAIN counted = DOMAIN s.reads
      /\ \A id \in DOMAIN s.reads :
           /\ counted[id] \in ReadOnlyCommand
           /\ counted[id].since = s.reads[id].since
  BY ONLY <1>1, CountedFields, IsShard(s), IsFiniteSet(heard), local \in BOOLEAN
<1>7. /\ s.slot \in Nat /\ old.slot \in Nat /\ DOMAIN s.reads \subseteq Nat
      /\ s.reads = old.reads /\ IsShard(old) /\ KnownIn(p, old)
      /\ \A id \in DOMAIN s.reads : s.reads[id] \in ReadOnlyCommand /\ s.reads[id].since \in Nat
  <2>1. IsShard(old) /\ KnownIn(p, old)
    BY AwakeIsLogical DEF ReadsInv, IdsKnown
  <2> QED BY <2>1, LogicalType DEF ReadOnlyCommand
<1>8. done \subseteq DOMAIN s.reads /\ \A id \in done : counted[id].ready_count >= Majority
  BY <1>2, <1>6 DEF HaveQuorum
<1>9. /\ DOMAIN reads = DOMAIN s.reads \ done
      /\ reads = [id \in DOMAIN reads |-> reads[id]]
      /\ \A id \in DOMAIN reads : reads[id] = counted[id]
  BY <1>3, <1>6 DEF Restrict
<1>10. /\ t.slot = s.slot /\ t.voted = s.voted /\ t.next_id = s.next_id
       /\ t.reads = reads /\ t.queued_messages = s.queued_messages
       /\ t.shard_id = sh /\ IsShard(t)
  <2>1. DOMAIN reads \subseteq Nat /\ \A id \in DOMAIN reads : reads[id] \in ReadOnlyCommand
    BY <1>6, <1>7, <1>9
  <2>2. /\ t.slot = s.slot /\ t.voted = s.voted /\ t.next_id = s.next_id
        /\ t.reads = reads /\ t.queued_messages = s.queued_messages
        /\ t.shard_id = s.shard_id /\ IsShard(t)
    BY <1>4, <1>9, <2>1, ReadsFields
  <2> QED BY <2>2
<1>11. Grows(old, t) /\ t.next_id >= old.next_id /\ KnownIn(p, t)
  <2>1. \A id \in DOMAIN reads : id < s.next_id
    BY <1>7, <1>9 DEF KnownIn
  <2>2. s.next_id \in Nat
    BY LogicalType
  <2> QED BY <1>10, <2>1, <2>2 DEF Grows, KnownIn
<1>12. /\ PoolsWell'
       /\ Logical(p, sh)' = t
       /\ \A q \in Proc : \A tw \in Shard :
            /\ q # p \/ tw # sh => Logical(q, tw)' = Logical(q, tw)
            /\ Grows(Logical(q, tw), Logical(q, tw)')
            /\ KnownIn(q, Logical(q, tw)')
       /\ \A a, b \in Proc : Routed(a, b) \subseteq Routed(a, b)'
  BY <1>5, <1>10, <1>11, ServeStep DEF ReadsInv
<1>13. served' \subseteq [pid : Proc, shard : Shard, id : Nat, since : Nat, slot : Nat]
  <2>1. \A id \in done : [pid |-> p, shard |-> sh, id |-> id,
                          since |-> counted[id].since, slot |-> s.slot]
                         \in [pid : Proc, shard : Shard, id : Nat, since : Nat, slot : Nat]
    BY <1>6, <1>7, <1>8
  <2>2. served \subseteq [pid : Proc, shard : Shard, id : Nat, since : Nat, slot : Nat]
    BY DEF ReadsInv, VariablesTyped
  <2> QED BY ONLY <1>5, <2>1, <2>2
<1>14. ASSUME p \in AliveReplicas, NEW id \in DOMAIN s.reads
       PROVE  \E M, A, B \in SUBSET AliveReplicas :
                /\ ReadInOrder(p, sh, id, M, A)
                /\ counted[id].ready_count = Cardinality(B)
                /\ p \in B <=> counted[id].local_ready
                /\ B \cap M # {} => s.slot >= s.reads[id].since
                /\ \A q \in AliveReplicas \ {p} :
                     /\ OneAnswer(net'[p][q], net'[q][p], s.queued_messages, B, sh, id, q)
                     /\ q \in M => AnswersReach(net'[q][p], s.queued_messages, sh, id, q,
                                                 s.reads[id].since)
  <2>1. PICK M, A \in SUBSET AliveReplicas : ReadInOrder(p, sh, id, M, A)
    BY <1>14 DEF ReadsInv, ReadsInOrder
  <2>2. PICK H, B, c : /\ H = {m \in heard : m.id = id}
                       /\ B = CountedFor(A, H, p, local)
                       /\ c = s.reads[id].since
    OBVIOUS
  <2>3. /\ \A m \in heard : m.id = id => m \notin s.queued_messages
        /\ \A q \in AliveReplicas \ {p} :
             /\ OneAnswer(net'[p][q], net'[q][p], all, A, sh, id, q)
             /\ q \in M => AnswersReach(net'[q][p], all, sh, id, q, c)
    BY <1>14, <2>1, <2>2
  <2>4. \A m \in H : m \in all /\ m.id = id /\ m.from \in AliveReplicas \ {p}
    BY <2>2
  <2>5. \A m \in H : m.from \notin A
    BY <2>3, <2>4 DEF OneAnswer
  <2>6. \A m, n \in H : m.from = n.from => m = n
    BY <2>3, <2>4 DEF OneAnswer
  <2>7. /\ s.reads[id].ready_count = Cardinality(A)
        /\ A \cap M # {} => old.slot >= c
        /\ c > 0 => \A q \in M : VotedIn(q, sh, c - 1)
    BY <1>7, <2>1, <2>2 DEF ReadInOrder
  <2>8. p \in A <=> s.reads[id].local_ready
    BY <1>7, <2>1 DEF ReadInOrder
  <2>9. /\ B \in SUBSET AliveReplicas
        /\ counted[id].ready_count = Cardinality(B)
        /\ p \in B <=> counted[id].local_ready
    <3>1. PICK roc, rec : roc = s.reads[id] /\ rec = counted[id]
      OBVIOUS
    <3>2. rec = WithCounted(roc, H, local)
      BY ONLY <1>1, <2>2, <3>1, id \in DOMAIN s.reads DEF Counted, WithCounted
    <3>3. roc \in ReadOnlyCommand
      BY <1>7, <3>1
    <3>4. roc.ready_count = Cardinality(A) /\ (p \in A <=> roc.local_ready)
      BY <2>7, <2>8, <3>1
    <3>5. \A m \in H : m.from \in AliveReplicas \ {p} /\ m.from \notin A
      BY <2>4, <2>5
    <3>6. /\ B \in SUBSET AliveReplicas
          /\ rec.ready_count = Cardinality(B)
          /\ p \in B <=> rec.local_ready
      BY ONLY <1>14, <2>2, <2>6, <3>2, <3>3, <3>4, <3>5, local \in BOOLEAN, A \in SUBSET AliveReplicas, CountedRead
    <3> QED BY <3>1, <3>6
  <2>10. \A q \in AliveReplicas \ {p} : q \in B <=> q \in A \/ \E m \in heard : m.id = id /\ m.from = q
    BY <2>2 DEF CountedFor
  <2>11. B \cap M # {} => s.slot >= c
    <3>1. SUFFICES ASSUME NEW q \in B \cap M
                   PROVE  s.slot >= c
      OBVIOUS
    <3>2. c \in Nat /\ s.slot >= old.slot
      BY <1>7, <2>2 DEF Grows
    <3>3. CASE q \in A
      BY <1>7, <2>7, <3>1, <3>2, <3>3
    <3>4. CASE q # p /\ q \notin A
      <4>1. PICK m \in heard : m.id = id /\ m.from = q
        BY <2>9, <2>10, <3>1, <3>4
      <4>2. m.next_readable_slot >= c
        BY <2>3, <2>9, <3>1, <3>4, <4>1 DEF AnswersReach
      <4>3. m.next_readable_slot <= s.slot /\ m.next_readable_slot \in Nat
        OBVIOUS
      <4> QED BY <1>7, <3>2, <4>2, <4>3
    <3>5. CASE q = p /\ q \notin A
      <4>1. local
        BY <2>2, <2>4, <3>1, <3>5 DEF CountedFor
      <4>2. s.slot > old.slot
        BY <4>1
      <4>3. c > 0 => VotedIn(p, sh, c - 1)
        BY <2>7, <3>1, <3>5
      <4>4. c > 0 => old.slot >= c - 1
        BY <1>7, <3>2, <4>3 DEF VotedIn
      <4> QED BY <1>7, <3>2, <4>2, <4>4
    <3> QED BY <3>3, <3>4, <3>5
  <2>12. ASSUME NEW q \in AliveReplicas \ {p}
         PROVE  /\ OneAnswer(net'[p][q], net'[q][p], s.queued_messages, B, sh, id, q)
                /\ q \in M => AnswersReach(net'[q][p], s.queued_messages, sh, id, q, c)
    <3>1. /\ OneAnswer(net'[p][q], net'[q][p], all, A, sh, id, q)
          /\ q \in M => AnswersReach(net'[q][p], all, sh, id, q, c)
      BY <2>3
    <3>2. q \in B <=> q \in A \/ \E m \in heard : m.id = id /\ m.from = q
      BY <2>10
    <3>3. OneAnswer(net'[p][q], net'[q][p], s.queued_messages, B, sh, id, q)
      BY <2>3, <3>1, <3>2, CountedAnswer
    <3>4. q \in M => AnswersReach(net'[q][p], s.queued_messages, sh, id, q, c)
      BY <3>1 DEF AnswersReach
    <3> QED BY <3>3, <3>4
  <2> QED BY <2>1, <2>2, <2>9, <2>11, <2>12
<1>15. ASSUME p \in AliveReplicas, NEW id \in DOMAIN Logical(p, sh)'.reads
       PROVE  \E M, A \in SUBSET AliveReplicas : ReadInOrder(p, sh, id, M, A)'
  <2>1. id \in DOMAIN s.reads /\ t.reads[id] = counted[id]
    BY <1>9, <1>10, <1>12
  <2>2. PICK M, A, B \in SUBSET AliveReplicas :
          /\ ReadInOrder(p, sh, id, M, A)
          /\ counted[id].ready_count = Cardinality(B)
          /\ p \in B <=> counted[id].local_ready
          /\ B \cap M # {} => s.slot >= s.reads[id].since
          /\ \A q \in AliveReplicas \ {p} :
               /\ OneAnswer(net'[p][q], net'[q][p], s.queued_messages, B, sh, id, q)
               /\ q \in M => AnswersReach(net'[q][p], s.queued_messages, sh, id, q,
                                           s.reads[id].since)
    BY <1>14, <1>15, <2>1
  <2>3. PICK c : c = s.reads[id].since
    OBVIOUS
  <2>4. /\ c = Logical(p, sh).reads[id].since
        /\ t.reads[id].since = c
        /\ t.reads[id].ready_count = Cardinality(B)
        /\ p \in B <=> t.reads[id].local_ready
        /\ B \cap M # {} => t.slot >= c
    BY <1>6, <1>10, <2>1, <2>2, <2>3
  <2>5. \A q \in AliveReplicas \ {p} :
          /\ OneAnswer(net'[p][q], net'[q][p], t.queued_messages, B, sh, id, q)
          /\ q \in M => AnswersReach(net'[q][p], t.queued_messages, sh, id, q, c)
    BY <1>10, <2>2, <2>3
  <2>6. id \in DOMAIN Logical(p, sh).reads /\ t = Logical(p, sh)'
    BY <1>12, <2>1
  <2>7. ReadInOrder(p, sh, id, M, B)'
    BY <1>12, <1>15, <2>2, <2>4, <2>5, <2>6, ReadInOrderNext DEF ReadsInv
  <2> QED BY <2>7
<1>16. ReplicaReadsLinearizable'
  <2>1. ASSUME p \in AliveReplicas, NEW id \in done
        PROVE  s.slot >= s.reads[id].since
    <3>1. PICK M, A, B \in SUBSET AliveReplicas :
            /\ ReadInOrder(p, sh, id, M, A)
            /\ counted[id].ready_count = Cardinality(B)
            /\ B \cap M # {} => s.slot >= s.reads[id].since
      BY <1>8, <1>14, <2>1
    <3>2. s.reads[id].since > 0 => Cardinality(M) >= Majority
      BY <1>7, <3>1 DEF ReadInOrder
    <3>3. Cardinality(B) >= Majority
      BY <1>8, <3>1
    <3>4. s.reads[id].since > 0 => B \cap M # {}
      BY <3>2, <3>3, MajoritiesMeet
    <3>5. s.reads[id].since \in Nat
      BY <1>7, <1>8
    <3> QED BY <1>7, <3>1, <3>4, <3>5
  <2>2. ASSUME NEW read \in served', read.pid \in AliveReplicas
        PROVE  read.slot >= read.since
    <3>1. CASE read \in served
      BY <2>2, <3>1 DEF ReadsInv, ReplicaReadsLinearizable, Linearizable
    <3>2. CASE read \notin served
      <4>1. PICK id \in done : read = [pid |-> p, shard |-> sh, id |-> id,
                                       since |-> counted[id].since, slot |-> s.slot]
        BY <1>5, <2>2, <3>2
      <4>2. read.pid = p /\ read.since = s.reads[id].since /\ read.slot = s.slot
        BY <1>6, <1>8, <4>1
      <4> QED BY <2>1, <2>2, <4>2
    <3> QED BY <3>1, <3>2
  <2> QED BY <2>2 DEF ReplicaReadsLinearizable, Linearizable
<1> QED BY <1>10, <1>12, <1>13, <1>15, <1>16

\* The reads of all other shards are left alone by a step that only takes messages.
LEMMA OthersInOrder ==
  ASSUME PoolsWell, PoolsWell', ReadsInOrder, NEW p \in Proc, NEW sh \in Shard,
         \A q \in Proc : \A tw \in Shard :
           /\ q # p \/ tw # sh => Logical(q, tw)' = Logical(q, tw)
           /\ Grows(Logical(q, tw), Logical(q, tw)'),
         \A a, b \in Proc : \A T : Fewer(net'[a][b], net[a][b], T),
         p \in AliveReplicas => \A id \in DOMAIN Logical(p, sh)'.reads :
           \E M, A \in SUBSET AliveReplicas : ReadInOrder(p, sh, id, M, A)'
  PROVE  ReadsInOrder'
<1> SUFFICES ASSUME NEW o \in AliveReplicas, NEW tw \in Shard,
                    NEW id \in DOMAIN Logical(o, tw)'.reads
             PROVE  \E M, A \in SUBSET AliveReplicas : ReadInOrder(o, tw, id, M, A)'
  BY DEF ReadsInOrder
<1>1. CASE o = p /\ tw = sh
  BY <1>1
<1>2. CASE o # p \/ tw # sh
  <2>1. AliveReplicas \subseteq Proc
    BY TopologyAssumption
  <2>2. Logical(o, tw)' = Logical(o, tw)
    BY <1>2, <2>1
  <2>3. PICK M, A \in SUBSET AliveReplicas : ReadInOrder(o, tw, id, M, A)
    BY <2>2 DEF ReadsInOrder
  <2>4. \A q \in AliveReplicas \ {o} :
          /\ Fewer(net'[o][q], net[o][q], Requests(tw, id))
          /\ Fewer(net'[q][o], net[q][o], Responses(tw, id, q))
    BY <2>1
  <2>5. ReadInOrder(o, tw, id, M, A)'
    BY <2>1, <2>2, <2>3, <2>4, ReadKept
  <2> QED BY <2>5
<1> QED BY <1>1, <1>2

-----------------------------------------------------------------------------
(* Committing a slot *)

LEMMA CommitSlotStep ==
  ASSUME ReadsInv, NEW p \in Proc, NEW sh \in Shard, CommitSlot(p, sh)
  PROVE  ReadsInv'
<1>1. PICK old : old = Logical(p, sh)
  OBVIOUS
<1>2. PICK s : s = [old EXCEPT !.slot = @ + 1, !.voted = FALSE]
  OBVIOUS
<1>3. PICK heard : heard = {m \in s.queued_messages : m.next_readable_slot <= s.slot}
  OBVIOUS
<1>4. PICK u : u = [s EXCEPT !.queued_messages = s.queued_messages \ heard]
  OBVIOUS
<1>5. /\ Awake(p, sh) = old /\ IsShard(old) /\ old.shard_id = sh
      /\ KnownIn(p, old)
  BY <1>1, AwakeIsLogical DEF ReadsInv, IdsKnown
<1>6. PICK local \in BOOLEAN : local = TRUE
  OBVIOUS
<1>7. CountAnswers(p, u, heard, local) /\ net' = net /\ unread' = unread
  BY <1>2, <1>3, <1>4, <1>5, <1>6 DEF CommitSlot
<1>8. /\ s.slot = old.slot + 1 /\ s.voted = FALSE /\ s.next_id = old.next_id
      /\ s.reads = old.reads /\ s.queued_messages = old.queued_messages
      /\ s.shard_id = sh /\ IsShard(s)
  <2>1. IsShard(old) /\ old.shard_id = sh
    BY <1>5
  <2> QED BY <1>2, <2>1, CommittedFields
<1>9. /\ old.slot \in Nat /\ old.queued_messages \subseteq ReadResponse
      /\ IsFiniteSet(old.queued_messages)
  BY <1>5, LogicalType
<1>10. heard \subseteq old.queued_messages /\ IsFiniteSet(heard)
  BY <1>3, <1>8, <1>9, FS_Subset
<1>11. /\ u.slot = old.slot + 1 /\ u.voted = FALSE /\ u.next_id = old.next_id
       /\ u.reads = old.reads /\ u.queued_messages = old.queued_messages \ heard
       /\ u.shard_id = sh /\ IsShard(u)
  <2>1. PICK h : h = s.queued_messages \ heard
    OBVIOUS
  <2>2. h \subseteq ReadResponse /\ IsFiniteSet(h)
    BY <1>8, <1>9, <2>1, FS_Subset
  <2>3. u = [s EXCEPT !.queued_messages = h]
    BY <1>4, <2>1
  <2> QED BY <1>8, <2>1, <2>2, <2>3, HeldFields
<1>12. /\ PoolsWell'
       /\ Logical(p, sh)'.slot = u.slot
       /\ \A q \in Proc : \A tw \in Shard :
            /\ q # p \/ tw # sh => Logical(q, tw)' = Logical(q, tw)
            /\ Grows(Logical(q, tw), Logical(q, tw)')
            /\ KnownIn(q, Logical(q, tw)')
       /\ \A a, b \in Proc : Routed(a, b) \subseteq Routed(a, b)'
       /\ served' \subseteq [pid : Proc, shard : Shard, id : Nat, since : Nat, slot : Nat]
       /\ ReplicaReadsLinearizable'
       /\ p \in AliveReplicas => \A id \in DOMAIN Logical(p, sh)'.reads :
            \E M, A \in SUBSET AliveReplicas : ReadInOrder(p, sh, id, M, A)'
  <2>1. PICK all : all = old.queued_messages
    OBVIOUS
  <2>2. Grows(old, u) /\ u.slot > old.slot
    BY <1>9, <1>11 DEF Grows
  <2>3. heard \in SUBSET all /\ u.queued_messages \subseteq all
    BY <1>10, <1>11, <2>1
  <2>4. \A m \in all : m.id < u.next_id /\ m.from \in AliveReplicas \ {p}
    BY <1>5, <1>11, <2>1 DEF KnownIn
  <2>5. /\ \A m \in heard : m.next_readable_slot <= u.slot
        /\ \A m \in heard : m.next_readable_slot \in Nat
    BY <1>3, <1>8, <1>9, <1>10, <1>11 DEF ReadResponse
  <2>6. ASSUME NEW id \in DOMAIN u.reads, NEW M \in SUBSET AliveReplicas,
               NEW A \in SUBSET AliveReplicas,
               p \in AliveReplicas /\ ReadInOrder(p, sh, id, M, A)
        PROVE  /\ \A m \in heard : m.id = id => m \notin u.queued_messages
               /\ \A q \in AliveReplicas \ {p} :
                    /\ OneAnswer(net'[p][q], net'[q][p], all, A, sh, id, q)
                    /\ q \in M => AnswersReach(net'[q][p], all, sh, id, q, u.reads[id].since)
    BY <1>1, <1>7, <1>11, <2>1, <2>6 DEF ReadInOrder
  <2> QED BY <1>1, <1>6, <1>7, <1>10, <1>11, <2>2, <2>3, <2>4, <2>5, <2>6, CountStep
<1>13. VariablesTyped'
  BY <1>7, <1>12 DEF ReadsInv, VariablesTyped
<1>14. IdsKnown'
  <2>1. \A a, b \in Proc : net'[a][b] \in Seq(Routed(a, b)')
    BY <1>7, <1>12, RoutedStay DEF ReadsInv
  <2> QED BY <1>12, <2>1 DEF IdsKnown
<1>15. SlotsDecided'
  <2>1. PICK n \in Nat : n = old.slot
    BY <1>9
  <2>2. PICK Q : Q = {q \in AliveReplicas : q = p \/ VotedIn(q, sh, n)}
    OBVIOUS
  <2>3. n < Writes[sh] /\ Cardinality(Q) >= Majority
    BY <1>1, <2>1, <2>2 DEF CommitSlot, CanCommit
  <2>4. Logical(p, sh)'.slot = n + 1
    BY <1>11, <1>12, <2>1
  <2>5. Q \subseteq Voters(sh, n)'
    <3>1. ASSUME NEW q \in Q
          PROVE  VotedIn(q, sh, n)'
      <4>1. CASE q = p
        BY <2>4, <4>1 DEF VotedIn
      <4>2. CASE VotedIn(q, sh, n)
        BY <1>12, <2>2, <4>2, VotedInGrows, TopologyAssumption DEF ReadsInv
      <4> QED BY <2>2, <4>1, <4>2
    <3> QED BY <2>2, <3>1 DEF Voters
  <2>6. Cardinality(Voters(sh, n)') >= Majority
    <3>1. PICK V : V = Voters(sh, n)'
      OBVIOUS
    <3>2. V \subseteq AliveReplicas
      BY <3>1 DEF Voters
    <3>3. IsFiniteSet(V)
      BY <3>2, ReplicasFinite, FS_Subset
    <3>4. IsFiniteSet(Q) /\ Cardinality(Q) <= Cardinality(V)
      BY <2>5, <3>1, <3>3, FS_Subset
    <3>5. Cardinality(Q) \in Nat /\ Cardinality(V) \in Nat
      BY <3>3, <3>4, FS_CardinalityType
    <3> QED BY <2>3, <3>1, <3>4, <3>5, ReplicasFinite
  <2>7. \A q \in Proc : \A tw \in Shard :
          /\ Grows(Logical(q, tw), Logical(q, tw)')
          /\ \A k \in Nat : k = Logical(q, tw).slot =>
               \/ Logical(q, tw)'.slot = k
               \/ /\ Logical(q, tw)'.slot = k + 1
                  /\ k < Writes[tw]
                  /\ Cardinality(Voters(tw, k)') >= Majority
    <3>1. ASSUME NEW q \in Proc, NEW tw \in Shard, NEW k \in Nat, k = Logical(q, tw).slot
          PROVE  \/ Logical(q, tw)'.slot = k
                 \/ /\ Logical(q, tw)'.slot = k + 1
                    /\ k < Writes[tw]
                    /\ Cardinality(Voters(tw, k)') >= Majority
      <4>1. CASE q = p /\ tw = sh
        BY <1>1, <2>1, <2>3, <2>4, <2>6, <3>1, <4>1
      <4>2. CASE q # p \/ tw # sh
        BY <1>12, <3>1, <4>2
      <4> QED BY <4>1, <4>2
    <3> QED BY <1>12, <3>1
  <2> QED BY <1>12, <2>7, SlotsStayDecided DEF ReadsInv
<1>16. ReadsInOrder'
  <2>1. \A a, b \in Proc : \A T : Fewer(net'[a][b], net[a][b], T)
    BY <1>7, SameIsFewer
  <2> QED BY <1>12, <2>1, OthersInOrder DEF ReadsInv
<1> QED BY <1>12, <1>13, <1>14, <1>15, <1>16 DEF ReadsInv

-----------------------------------------------------------------------------
(* Receiving an answer *)

\* An answer that is taken from its channel may be held, or counted, instead.
LEMMA ReceivedAnswer ==
  ASSUME NEW out, NEW in \in Seq(Message), NEW held, NEW A, NEW sh, NEW id, NEW q,
         OneAnswer(out, in, held, A, sh, id, q),
         in # <<>>, Head(in) \in Responses(sh, id, q)
  PROVE  /\ OneAnswer(out, Tail(in), held \cup {Head(in)}, A, sh, id, q)
         /\ \A n \in Nat : AnswersReach(in, held, sh, id, q, n) =>
              AnswersReach(Tail(in), held \cup {Head(in)}, sh, id, q, n)
         /\ Head(in) \notin held
<1>1. PICK m : m = Head(in)
  OBVIOUS
<1>2. m.id = id /\ m.from = q
  BY <1>1 DEF Responses
<1>3. ~Absent(in, Responses(sh, id, q)) /\ Once(in, Responses(sh, id, q))
  BY TailAt DEF OneAnswer, Absent
<1>4. Absent(Tail(in), Responses(sh, id, q))
  BY <1>3, TailAbsent
<1>5. /\ Absent(out, Requests(sh, id))
      /\ {h \in held : h.id = id /\ h.from = q} = {}
      /\ q \notin A
  BY <1>3 DEF OneAnswer
<1>6. {h \in held \cup {m} : h.id = id /\ h.from = q} = {m}
  BY <1>2, <1>5
<1>7. OneAnswer(out, Tail(in), held \cup {m}, A, sh, id, q)
  BY <1>4, <1>5, <1>6 DEF OneAnswer, Once, Absent
<1>8. m \notin held
  BY <1>2, <1>5
<1>9. ASSUME NEW n \in Nat, AnswersReach(in, held, sh, id, q, n)
      PROVE  AnswersReach(Tail(in), held \cup {m}, sh, id, q, n)
  <2>1. 1 \in At(in, Responses(sh, id, q)) /\ m = in[1]
    BY <1>1, TailAt
  <2>2. m.next_readable_slot >= n
    BY <1>9, <2>1 DEF AnswersReach
  <2> QED BY <1>4, <1>9, <2>2 DEF AnswersReach, Absent
<1> QED BY <1>1, <1>7, <1>8, <1>9

LEMMA ReceiveAnswerStep ==
  ASSUME ReadsInv, NEW p \in Proc, NEW q \in Proc, ReceiveAnswer(p, q)
  PROVE  ReadsInv'
<1>1. PICK m : m = Head(net[q][p])
  OBVIOUS
<1>2. net[q][p] # <<>> /\ m.type = "ReadResponse" /\ net' = Pop(q, p) /\ unread' = unread
  BY <1>1 DEF ReceiveAnswer
<1>3. m \in Routed(q, p)
  BY <1>1, <1>2, HeadIsRouted DEF ReadsInv
<1>4. /\ m \in ReadResponse /\ m.from = q /\ q \in AliveReplicas \ {p}
      /\ m.id < Logical(p, m.shard).next_id
  BY <1>2, <1>3 DEF Routed, ReadRequest
<1>5. PICK sh \in Shard : sh = m.shard
  BY <1>4 DEF ReadResponse
<1>6. PICK old : old = Logical(p, sh)
  OBVIOUS
<1>7. /\ Awake(p, sh) = old /\ IsShard(old) /\ old.shard_id = sh
      /\ KnownIn(p, old)
  BY <1>6, AwakeIsLogical DEF ReadsInv, IdsKnown
<1>8. /\ old.slot \in Nat /\ old.queued_messages \subseteq ReadResponse
      /\ IsFiniteSet(old.queued_messages) /\ old.next_id \in Nat
  BY <1>7, LogicalType
<1>9. /\ net \in [Proc -> [Proc -> Seq(Message)]]
      /\ net' \in [Proc -> [Proc -> Seq(Message)]]
      /\ net'[q][p] = Tail(net[q][p])
      /\ \A a, b \in Proc : a # q \/ b # p => net'[a][b] = net[a][b]
  <2>1. VariablesTyped /\ net \in [Proc -> [Proc -> Seq(Message)]]
    BY DEF ReadsInv, VariablesTyped
  <2>2. /\ net' \in [Proc -> [Proc -> Seq(Message)]]
        /\ net'[q][p] = Tail(net[q][p])
        /\ \A a, b \in Proc : a # q \/ b # p => net'[a][b] = net[a][b]
    BY <1>2, <2>1, PopNet
  <2> QED BY <2>1, <2>2
<1>10. \A a, b \in Proc : \A T : Fewer(net'[a][b], net[a][b], T)
  <2>1. ASSUME NEW a \in Proc, NEW b \in Proc, NEW T
        PROVE  Fewer(net'[a][b], net[a][b], T)
    <3>1. CASE a = q /\ b = p
      <4>1. net[q][p] \in Seq(Message)
        BY <1>9
      <4> QED BY <1>2, <1>9, <3>1, <4>1, TailIsFewer
    <3>2. CASE a # q \/ b # p
      BY <1>9, <3>2, SameIsFewer
    <3> QED BY <3>1, <3>2
  <2> QED BY <2>1
<1>11. PICK all : all = old.queued_messages \cup {m}
  OBVIOUS
<1>12. ASSUME p \in AliveReplicas, NEW id \in DOMAIN old.reads,
              NEW M \in SUBSET AliveReplicas, NEW A \in SUBSET AliveReplicas,
              ReadInOrder(p, sh, id, M, A)
       PROVE  /\ m.id = id => m \notin old.queued_messages
              /\ \A a \in AliveReplicas \ {p} :
                   /\ OneAnswer(net'[p][a], net'[a][p], all, A, sh, id, a)
                   /\ a \in M => AnswersReach(net'[a][p], all, sh, id, a, old.reads[id].since)
  <2>1. PICK c : c = old.reads[id].since
    OBVIOUS
  <2>2. c \in Nat
    BY <1>7, <2>1, LogicalType DEF ReadOnlyCommand
  <2>3. \A a \in AliveReplicas \ {p} :
          /\ OneAnswer(net[p][a], net[a][p], old.queued_messages, A, sh, id, a)
          /\ a \in M => AnswersReach(net[a][p], old.queued_messages, sh, id, a, c)
    BY <1>6, <1>12, <2>1 DEF ReadInOrder
  <2>4. net'[p][q] = net[p][q] /\ net[q][p] \in Seq(Message) /\ p # q
    BY <1>4, <1>9
  <2>5. ASSUME m.id = id
        PROVE  /\ m \notin old.queued_messages
               /\ OneAnswer(net'[p][q], net'[q][p], all, A, sh, id, q)
               /\ q \in M => AnswersReach(net'[q][p], all, sh, id, q, c)
    <3>1. m \in Responses(sh, id, q)
      BY <1>4, <1>5, <2>5 DEF Responses, ReadResponse
    <3>2. OneAnswer(net[p][q], net[q][p], old.queued_messages, A, sh, id, q)
      BY <1>4, <2>3
    <3>3. /\ OneAnswer(net[p][q], Tail(net[q][p]), all, A, sh, id, q)
          /\ AnswersReach(net[q][p], old.queued_messages, sh, id, q, c) =>
               AnswersReach(Tail(net[q][p]), all, sh, id, q, c)
          /\ m \notin old.queued_messages
      BY <1>1, <1>2, <1>11, <2>2, <2>4, <3>1, <3>2, ReceivedAnswer
    <3> QED BY <1>4, <1>9, <2>3, <2>4, <3>3
  <2>6. ASSUME NEW a \in AliveReplicas \ {p}, m.id # id \/ a # q
        PROVE  /\ OneAnswer(net'[p][a], net'[a][p], all, A, sh, id, a)
               /\ a \in M => AnswersReach(net'[a][p], all, sh, id, a, c)
    <3>1. /\ Fewer(net'[p][a], net[p][a], Requests(sh, id))
          /\ Fewer(net'[a][p], net[a][p], Responses(sh, id, a))
      BY <1>10, TopologyAssumption
    <3>2. \A h \in all : h.id = id /\ h.from = a => h \in old.queued_messages
      BY <1>4, <1>11, <2>6
    <3>3. OneAnswer(net[p][a], net[a][p], old.queued_messages, A, sh, id, a)
      BY <2>3
    <3>4. OneAnswer(net'[p][a], net'[a][p], all, A, sh, id, a)
      BY <3>1, <3>2, <3>3, AnswerKept
    <3>5. ASSUME a \in M
          PROVE  AnswersReach(net'[a][p], all, sh, id, a, c)
      <4>1. AnswersReach(net[a][p], old.queued_messages, sh, id, a, c)
        BY <2>3, <3>5
      <4> QED BY <2>2, <3>1, <3>2, <4>1, ReachKept
    <3> QED BY <3>4, <3>5
  <2> QED BY <1>4, <2>1, <2>5, <2>6
<1>13. ASSUME PoolsWell',
              \A o \in Proc : \A tw \in Shard :
                /\ Logical(o, tw)'.slot = Logical(o, tw).slot
                /\ o # p \/ tw # sh => Logical(o, tw)' = Logical(o, tw)
                /\ Grows(Logical(o, tw), Logical(o, tw)')
                /\ KnownIn(o, Logical(o, tw)'),
              \A a, b \in Proc : Routed(a, b) \subseteq Routed(a, b)',
              served' \subseteq [pid : Proc, shard : Shard, id : Nat, since : Nat, slot : Nat],
              ReplicaReadsLinearizable',
              p \in AliveReplicas => \A id \in DOMAIN Logical(p, sh)'.reads :
                \E M, A \in SUBSET AliveReplicas : ReadInOrder(p, sh, id, M, A)'
       PROVE  ReadsInv'
  <2>1. VariablesTyped'
    BY <1>2, <1>9, <1>13 DEF ReadsInv, VariablesTyped
  <2>2. IdsKnown'
    <3>1. ASSUME NEW a \in Proc, NEW b \in Proc
          PROVE  net'[a][b] \in Seq(Routed(a, b)')
      <4>1. /\ net[a][b] \in Seq(Routed(a, b)')
            /\ net[a][b] # <<>> => Tail(net[a][b]) \in Seq(Routed(a, b)')
        BY <1>13, RoutedStay DEF ReadsInv
      <4>2. CASE a = q /\ b = p
        BY <1>2, <1>9, <4>1, <4>2
      <4>3. CASE a # q \/ b # p
        BY <1>9, <4>1, <4>3
      <4> QED BY <4>2, <4>3
    <3> QED BY <1>13, <3>1 DEF IdsKnown
  <2>3. SlotsDecided'
    BY <1>13, SlotsStayDecided DEF ReadsInv
  <2>4. ReadsInOrder'
    <3>1. PoolsWell /\ ReadsInOrder
      BY DEF ReadsInv
    <3>2. PoolsWell' /\ \A o \in Proc : \A tw \in Shard :
            /\ o # p \/ tw # sh => Logical(o, tw)' = Logical(o, tw)
            /\ Grows(Logical(o, tw), Logical(o, tw)')
      BY <1>13
    <3> QED BY <1>10, <1>13, <3>1, <3>2, OthersInOrder
  <2> QED BY <1>13, <2>1, <2>2, <2>3, <2>4 DEF ReadsInv
<1>14. CASE pool' = pool /\ served' = served
  <2>1. \A o \in Proc : \A tw \in Shard : Logical(o, tw)' = Logical(o, tw)
    BY <1>14 DEF Logical
  <2>2. PoolsWell'
    BY <1>14 DEF ReadsInv, PoolsWell
  <2>3. \A o \in Proc : \A tw \in Shard : Grows(Logical(o, tw), Logical(o, tw)')
    BY <2>1 DEF Grows
  <2>4. \A a, b \in Proc : Routed(a, b) \subseteq Routed(a, b)'
    BY <2>1 DEF Routed, ReadRequest, ReadResponse
  <2>5. ReplicaReadsLinearizable'
    BY <1>14 DEF ReadsInv, ReplicaReadsLinearizable, Linearizable
  <2>6. ASSUME p \in AliveReplicas, NEW id \in DOMAIN Logical(p, sh)'.reads
        PROVE  \E M, A \in SUBSET AliveReplicas : ReadInOrder(p, sh, id, M, A)'
    <3>1. id \in DOMAIN Logical(p, sh).reads
      BY <2>1
    <3>2. PICK M, A \in SUBSET AliveReplicas : ReadInOrder(p, sh, id, M, A)
      BY <2>6, <3>1 DEF ReadsInv, ReadsInOrder
    <3>3. ReadInOrder(p, sh, id, M, A)'
      BY <1>10, <2>1, <2>2, <2>3, <2>6, <3>1, <3>2, ReadKept, TopologyAssumption DEF ReadsInv
    <3> QED BY <3>3
  <2>7. \A o \in Proc : \A tw \in Shard : KnownIn(o, Logical(o, tw)')
    BY <2>1 DEF ReadsInv, IdsKnown
  <2>8. served' \subseteq [pid : Proc, shard : Shard, id : Nat, since : Nat, slot : Nat]
    BY <1>14 DEF ReadsInv, VariablesTyped
  <2> QED BY <1>13, <2>1, <2>2, <2>3, <2>4, <2>5, <2>6, <2>7, <2>8
<1>15. CASE Serve(p, sh, [old EXCEPT !.queued_messages = @ \cup {m}]) /\ served' = served
  <2>1. PICK u : u = [old EXCEPT !.queued_messages = all]
    OBVIOUS
  <2>2. Serve(p, sh, u)
    BY <1>11, <1>15, <2>1
  <2>3. all \subseteq ReadResponse /\ IsFiniteSet(all)
    BY <1>4, <1>8, <1>11, FS_AddElement
  <2>4. /\ u.slot = old.slot /\ u.voted = old.voted /\ u.next_id = old.next_id
        /\ u.reads = old.reads /\ u.queued_messages = all
        /\ u.shard_id = sh /\ IsShard(u)
    BY <1>7, <2>1, <2>3, HeldFields
  <2>5. Grows(old, u) /\ u.next_id >= old.next_id
    BY <1>8, <2>4 DEF Grows
  <2>6. KnownIn(p, u)
    BY <1>4, <1>5, <1>6, <1>7, <1>11, <2>4 DEF KnownIn
  <2>7. /\ PoolsWell'
        /\ Logical(p, sh)' = u
        /\ \A o \in Proc : \A tw \in Shard :
             /\ o # p \/ tw # sh => Logical(o, tw)' = Logical(o, tw)
             /\ Grows(Logical(o, tw), Logical(o, tw)')
             /\ KnownIn(o, Logical(o, tw)')
        /\ \A a, b \in Proc : Routed(a, b) \subseteq Routed(a, b)'
    BY <1>6, <2>2, <2>4, <2>5, <2>6, ServeStep DEF ReadsInv
  <2>8. \A o \in Proc : \A tw \in Shard : Logical(o, tw)'.slot = Logical(o, tw).slot
    BY <1>6, <2>4, <2>7
  <2>9. ReplicaReadsLinearizable'
    BY <1>15 DEF ReadsInv, ReplicaReadsLinearizable, Linearizable
  <2>10. ASSUME p \in AliveReplicas, NEW id \in DOMAIN Logical(p, sh)'.reads
         PROVE  \E M, A \in SUBSET AliveReplicas : ReadInOrder(p, sh, id, M, A)'
    <3>1. id \in DOMAIN Logical(p, sh).reads /\ id \in DOMAIN old.reads
      BY <1>6, <2>4, <2>7
    <3>2. PICK M, A \in SUBSET AliveReplicas : ReadInOrder(p, sh, id, M, A)
      BY <2>10, <3>1 DEF ReadsInv, ReadsInOrder
    <3>3. PICK c : c = Logical(p, sh).reads[id].since
      OBVIOUS
    <3>4. \A a \in AliveReplicas \ {p} :
            /\ OneAnswer(net'[p][a], net'[a][p], u.queued_messages, A, sh, id, a)
            /\ a \in M => AnswersReach(net'[a][p], u.queued_messages, sh, id, a, c)
      BY <1>6, <1>12, <2>4, <2>10, <3>1, <3>2, <3>3
    <3>5. /\ u.reads[id].since = c
          /\ u.reads[id].ready_count = Cardinality(A)
          /\ A \cap M # {} => u.slot >= c
      BY <1>6, <2>4, <3>2, <3>3 DEF ReadInOrder
    <3>6. p \in A <=> u.reads[id].local_ready
      BY <1>6, <2>4, <3>2 DEF ReadInOrder
    <3>7. ReadInOrder(p, sh, id, M, A)'
      BY <2>7, <2>10, <3>1, <3>2, <3>3, <3>4, <3>5, <3>6, ReadInOrderNext DEF ReadsInv
    <3> QED BY <3>7
  <2>11. served' \subseteq [pid : Proc, shard : Shard, id : Nat, since : Nat, slot : Nat]
    BY <1>15 DEF ReadsInv, VariablesTyped
  <2> QED BY <1>13, <2>7, <2>8, <2>9, <2>10, <2>11
<1>16. CASE CountAnswers(p, old, {m}, FALSE) /\ m.next_readable_slot <= old.slot
  <2>1. PICK heard : heard = {m}
    OBVIOUS
  <2>2. PICK local \in BOOLEAN : local = FALSE
    OBVIOUS
  <2>3. CountAnswers(p, old, heard, local)
    BY <1>16, <2>1, <2>2
  <2>4. /\ heard \in SUBSET all /\ IsFiniteSet(heard) /\ old.queued_messages \subseteq all
        /\ \A h \in heard : h.next_readable_slot <= old.slot
        /\ \A h \in heard : h.next_readable_slot \in Nat
    BY <1>4, <1>11, <1>16, <2>1, FS_Singleton DEF ReadResponse
  <2>5. \A h \in all : h.id < old.next_id /\ h.from \in AliveReplicas \ {p}
    BY <1>4, <1>5, <1>6, <1>7, <1>11 DEF KnownIn
  <2>6. Grows(old, old)
    BY <1>8 DEF Grows
  <2>7. ASSUME NEW id \in DOMAIN old.reads, NEW M \in SUBSET AliveReplicas,
               NEW A \in SUBSET AliveReplicas,
               p \in AliveReplicas /\ ReadInOrder(p, sh, id, M, A)
        PROVE  /\ \A h \in heard : h.id = id => h \notin old.queued_messages
               /\ \A a \in AliveReplicas \ {p} :
                    /\ OneAnswer(net'[p][a], net'[a][p], all, A, sh, id, a)
                    /\ a \in M => AnswersReach(net'[a][p], all, sh, id, a, old.reads[id].since)
    BY <1>12, <2>1, <2>7
  <2>8. PICK s : s = old
    OBVIOUS
  <2>9. /\ IsShard(s) /\ s.shard_id = sh /\ s.next_id = old.next_id /\ s.reads = old.reads
        /\ s.queued_messages \subseteq all
    BY <1>7, <2>4, <2>8
  <2>10. Grows(old, s) /\ (local => s.slot > old.slot) /\ CountAnswers(p, s, heard, local)
    BY <2>2, <2>3, <2>6, <2>8
  <2>11. \A h \in all : h.id < s.next_id /\ h.from \in AliveReplicas \ {p}
    BY <2>5, <2>8
  <2>12. /\ \A h \in heard : h.next_readable_slot <= s.slot
         /\ \A h \in heard : h.next_readable_slot \in Nat
         /\ heard \in SUBSET all /\ IsFiniteSet(heard)
    BY <2>4, <2>8
  <2>13. ASSUME NEW id \in DOMAIN s.reads, NEW M \in SUBSET AliveReplicas,
                NEW A \in SUBSET AliveReplicas,
                p \in AliveReplicas /\ ReadInOrder(p, sh, id, M, A)
         PROVE  /\ \A h \in heard : h.id = id => h \notin s.queued_messages
                /\ \A a \in AliveReplicas \ {p} :
                     /\ OneAnswer(net'[p][a], net'[a][p], all, A, sh, id, a)
                     /\ a \in M => AnswersReach(net'[a][p], all, sh, id, a, s.reads[id].since)
    BY <2>7, <2>8, <2>13
  <2>14. /\ PoolsWell'
         /\ Logical(p, sh)'.slot = s.slot
         /\ \A o \in Proc : \A tw \in Shard :
              /\ o # p \/ tw # sh => Logical(o, tw)' = Logical(o, tw)
              /\ Grows(Logical(o, tw), Logical(o, tw)')
              /\ KnownIn(o, Logical(o, tw)')
         /\ \A a, b \in Proc : Routed(a, b) \subseteq Routed(a, b)'
         /\ served' \subseteq [pid : Proc, shard : Shard, id : Nat, since : Nat, slot : Nat]
         /\ ReplicaReadsLinearizable'
         /\ p \in AliveReplicas => \A id \in DOMAIN Logical(p, sh)'.reads :
              \E M, A \in SUBSET AliveReplicas : ReadInOrder(p, sh, id, M, A)'
    BY <1>6, <2>2, <2>9, <2>10, <2>11, <2>12, <2>13, CountStep
  <2>15. \A o \in Proc : \A tw \in Shard : Logical(o, tw)'.slot = Logical(o, tw).slot
    BY <1>6, <2>8, <2>14
  <2> QED BY <1>13, <2>14, <2>15
<1> QED BY <1>1, <1>5, <1>7, <1>14, <1>15, <1>16 DEF ReceiveAnswer

-----------------------------------------------------------------------------
(* The theorems *)

LEMMA InitReads == Init => ReadsInv
<1> SUFFICES ASSUME Init PROVE ReadsInv
  OBVIOUS
<1>1. /\ PoolsWell
      /\ \A p \in Proc : \A sh \in Shard : Logical(p, sh) = Quiet(sh, 0, 0)
  BY InitLogical
<1>2. \A p \in Proc : \A sh \in Shard :
        /\ Logical(p, sh).slot = 0
        /\ Logical(p, sh).reads = <<>>
        /\ Logical(p, sh).queued_messages = {}
  BY <1>1 DEF Quiet
<1>3. DOMAIN <<>> = {}
  OBVIOUS
<1>4. net = [p \in Proc |-> [q \in Proc |-> <<>>]]
  BY DEF Init
<1>5. VariablesTyped
  <2>1. net \in [Proc -> [Proc -> Seq(Message)]]
    BY <1>4
  <2>2. unread \in [Proc -> [Shard -> Nat]] /\ served = {}
    BY ReadsAssumption DEF Init
  <2> QED BY <2>1, <2>2 DEF VariablesTyped
<1>6. IdsKnown
  <2>1. \A p \in Proc : \A sh \in Shard : KnownIn(p, Logical(p, sh))
    BY <1>2, <1>3 DEF KnownIn
  <2>2. \A p, q \in Proc : net[p][q] \in Seq(Routed(p, q))
    BY <1>4
  <2> QED BY <2>1, <2>2 DEF IdsKnown
<1>7. SlotsDecided
  <2>1. \A sh \in Shard : 0 <= Writes[sh]
    BY ReadsAssumption
  <2> QED BY <1>2, <2>1 DEF SlotsDecided
<1>8. ReadsInOrder
  <2>1. \A p \in AliveReplicas : p \in Proc
    BY TopologyAssumption
  <2> QED BY <1>2, <1>3, <2>1 DEF ReadsInOrder
<1>9. ReplicaReadsLinearizable
  BY DEF Init, ReplicaReadsLinearizable
<1> QED BY <1>1, <1>5, <1>6, <1>7, <1>8, <1>9 DEF ReadsInv

LEMMA NextReads == ReadsInv /\ [Next]_vars => ReadsInv'
<1> SUFFICES ASSUME ReadsInv, [Next]_vars PROVE ReadsInv'
  OBVIOUS
<1>1. ASSUME NEW p \in Proc, Step(p) PROVE ReadsInv'
  <2>1. ASSUME NEW sh \in Shard, StartRead(p, sh) PROVE ReadsInv'
    BY <2>1, StartReadStep
  <2>2. ASSUME NEW sh \in Shard, Vote(p, sh) PROVE ReadsInv'
    BY <2>2, VoteStep
  <2>3. ASSUME NEW sh \in Shard, CommitSlot(p, sh) PROVE ReadsInv'
    BY <2>3, CommitSlotStep
  <2>4. ASSUME NEW q \in Proc, AnswerRequest(p, q) PROVE ReadsInv'
    BY <2>4, AnswerRequestStep
  <2>5. ASSUME NEW q \in Proc, ReceiveAnswer(p, q) PROVE ReadsInv'
    BY <2>5, ReceiveAnswerStep
  <2> QED BY <1>1, <2>1, <2>2, <2>3, <2>4, <2>5 DEF Step
<1>2. CASE UNCHANGED vars
  <2>1. pool' = pool /\ net' = net /\ unread' = unread /\ served' = served
    BY <1>2 DEF vars
  <2>2. PoolsWell'
    BY <2>1 DEF ReadsInv, PoolsWell
  <2>3. \A p \in Proc : \A sh \in Shard : Logical(p, sh)' = Logical(p, sh)
    BY <2>1 DEF Logical
  <2>4. VariablesTyped'
    BY <2>1 DEF ReadsInv, VariablesTyped
  <2>5. IdsKnown'
    <3>1. \A p \in Proc : \A sh \in Shard : KnownIn(p, Logical(p, sh)')
      BY <2>3 DEF ReadsInv, IdsKnown
    <3>2. \A p, q \in Proc : Routed(p, q)' = Routed(p, q)
      BY <2>1 DEF Routed, Logical
    <3>3. \A p, q \in Proc : net'[p][q] \in Seq(Routed(p, q)')
      BY <2>1, <3>2 DEF ReadsInv, IdsKnown
    <3> QED BY <3>1, <3>3 DEF IdsKnown
  <2>6. SlotsDecided'
    BY <2>1 DEF ReadsInv, SlotsDecided, Voters, VotedIn, Logical
  <2>7. ReadsInOrder'
    <3>1. ASSUME NEW p \in AliveReplicas, NEW sh \in Shard,
                 NEW id \in DOMAIN Logical(p, sh)'.reads
          PROVE  \E M, A \in SUBSET AliveReplicas : ReadInOrder(p, sh, id, M, A)'
      <4>1. id \in DOMAIN Logical(p, sh).reads
        BY <2>1 DEF Logical
      <4>2. PICK M, A \in SUBSET AliveReplicas : ReadInOrder(p, sh, id, M, A)
        BY <4>1 DEF ReadsInv, ReadsInOrder
      <4>3. ReadInOrder(p, sh, id, M, A)'
        BY <2>1, <4>2 DEF ReadInOrder, VotedIn, Logical
      <4> QED BY <4>3
    <3> QED BY <3>1 DEF ReadsInOrder
  <2>8. ReplicaReadsLinearizable'
    BY <2>1 DEF ReadsInv, ReplicaReadsLinearizable
  <2> QED BY <2>2, <2>4, <2>5, <2>6, <2>7, <2>8 DEF ReadsInv
<1> QED BY <1>1, <1>2 DEF Next

LEMMA AlwaysInOrder == Spec => []ReadsInv
BY InitReads, NextReads, PTL DEF Spec

LEMMA InOrderIsTyped == ReadsInv => TypeOK
<1> SUFFICES ASSUME ReadsInv PROVE TypeOK
  OBVIOUS
<1>1. ASSUME NEW p \in Proc PROVE IsPool(pool[p])
  <2>1. PICK l : l = pool[p]
    OBVIOUS
  <2>2. PoolWell(l)
    BY <2>1 DEF ReadsInv, PoolsWell
  <2>3. /\ l.sleeping \in [Shard -> SleepingShard]
        /\ \A i \in DOMAIN l.shards : IsPhysicalShard(l.shards[i])
        /\ DOMAIN l.active \subseteq Shard
    BY <2>2 DEF PoolWell, ShardsWell, IsShard
  <2>4. /\ \A sh \in DOMAIN l.active : l.active[sh] \in DOMAIN l.shards
        /\ \A i \in DOMAIN l.free : l.free[i] \in DOMAIN l.shards
    BY <2>2 DEF PoolWell, Pool!CoversOnce
  <2>5. l.free \in Seq(DOMAIN l.shards)
    <3>1. l.free \in Seq(Nat)
      BY <2>2 DEF PoolWell, IsPoolRecord
    <3> QED BY <2>4, <3>1
  <2> QED BY <2>1, <2>3, <2>4, <2>5 DEF IsPool
<1>2. DOMAIN pool = Proc
  BY DEF ReadsInv, PoolsWell
<1> QED BY <1>1, <1>2 DEF TypeOK, ReadsInv, VariablesTyped, Message

\* Every pool, message and read is of the types declared with the variables, with
\* as many shards awake and messages in flight as the clients ask for.
THEOREM ReadsTyped == Spec => []TypeOK
BY AlwaysInOrder, InOrderIsTyped, PTL

\* A read of a replica sees every write executed before it was submitted: a majority
\* of answers meets the majority that voted for the last such write, and an answer
\* of that meeting is counted only once the reader has committed the write itself.
THEOREM ReadsSeeEarlierWrites == Spec => []ReplicaReadsLinearizable
<1>1. ReadsInv => ReplicaReadsLinearizable
  BY DEF ReadsInv
<1> QED BY <1>1, AlwaysInOrder, PTL

\* No physical shard serves two logical shards, and none is lost, however many fall
\* asleep, wake up, or are awake beyond those the pool was built with.
THEOREM ShardsCoverOnce == Spec => []PhysicalShardsApart
<1>1. ReadsInv => PhysicalShardsApart
  BY DEF ReadsInv, PoolsWell, PoolWell, PhysicalShardsApart
<1> QED BY <1>1, AlwaysInOrder, PTL

\* A physical shard on the free list holds nothing of the logical shard it served
\* last, which is what wake_up asserts when it hands it out.
THEOREM FreeShardsClean == Spec => []FreeShardsPristine
<1>1. ReadsInv => FreeShardsPristine
  BY DEF ReadsInv, PoolsWell, PoolWell, FreeIsPristine, FreeShardsPristine
<1> QED BY <1>1, AlwaysInOrder, PTL
=============================================================================
