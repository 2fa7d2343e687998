--------------------------- MODULE KCensusWarnings ---------------------------
(***************************************************************************)
(* Why no replica takes a slot decided in the fallback for a fast one, as    *)
(* an inductive invariant: a leader's PaxosAccept goes to every replica      *)
(* before its Commit, on the same channel, and a replica that holds it back  *)
(* holds the Commit back too.  A PaxosAccept could only miss its turn if the *)
(* command it names came with a message of a later slot, and such a command  *)
(* is not what this slot decides.  Nothing here is part of the system.       *)
(***************************************************************************)
EXTENDS KCensusReports

-----------------------------------------------------------------------------
(* The commands that exist.  S are the shards. *)

Named(v) == {v} \cup v.members

\* v and its members were drawn from their makers' counters.
Made(S, v) == v # NoV => \A u \in Named(v) : u.seq < S[u.pid].next_uid

\* v was made in slot n: its maker executed it in no slot before.
NewIn(S, v, n) ==
  /\ n <= Slot(S[v.pid])
  /\ \A i \in 1 .. n : v \notin Named(S[v.pid].log[i].v)

MsgMade(S, m) ==
  /\ Made(S, m.v)
  /\ m.type = "Spread" => \A q \in Proc : Made(S, m.remote_states[q].v)
  /\ m.type \in {"Spread", "PaxosAccept"} /\ m.new_value => NewIn(S, m.v, m.slot)

ShardMade(S, s) ==
  /\ \A v \in s.queued_commands : Made(S, v)
  /\ \A q \in Proc : Made(S, s.round_state.node_states[q].v)
  /\ \A i \in DOMAIN s.log : Made(S, s.log[i].v)
  /\ \A i \in DOMAIN s.queued_messages : MsgMade(S, s.queued_messages[i])

-----------------------------------------------------------------------------
(* Warnings.  D are the decisions, M the messages the process has in hand. *)

IsAccept(m, n, v) == m.type = "PaxosAccept" /\ m.slot = n /\ m.v = v

\* The shard knows that slot n is not fast, or has left it; or it has, or holds back, a
\* message that says so; or one is coming on channel c.
Left(s, n)     == n < Slot(s) \/ (n = Slot(s) /\ s.slot_left_fast_path)
Heard(s, M, n, v) ==
  Left(s, n) \/ \E m \in M \cup Range(s.queued_messages) : IsAccept(m, n, v)
Called(s, M, c, n, v) == Heard(s, M, n, v) \/ \E m \in Range(c) : IsAccept(m, n, v)

FastSlot(D, n) == \E d \in D : d.slot = n /\ d.fast

\* No Commit of a slow slot comes before the PaxosAccept.
HeldInOrder(s, D, M) ==
  \A i \in DOMAIN s.queued_messages :
    LET m == s.queued_messages[i]
    IN  m.type = "Commit" =>
          \/ FastSlot(D, m.slot) \/ Left(s, m.slot)
          \/ \E x \in M : IsAccept(x, m.slot, m.v)
          \/ \E j \in 1 .. i - 1 : IsAccept(s.queued_messages[j], m.slot, m.v)
ComesInOrder(s, D, M, c) ==
  \A i \in DOMAIN c :
    c[i].type = "Commit" =>
      \/ FastSlot(D, c[i].slot) \/ Heard(s, M, c[i].slot, c[i].v)
      \/ \E j \in 1 .. i - 1 : IsAccept(c[j], c[i].slot, c[i].v)

\* A leader that voted in its own round called every replica to.
CallsAll(S, hand, l, sent) ==
  Mine(S[l].round_state, l).accept_round = l =>
    \A p \in AliveReplicas \ {l} : Called(S[p], hand[p], sent[p], Slot(S[l]), MyV(S[l], l))

ReportsSlow(s, D) == \A i \in DOMAIN s.log : s.log[i].fast => FastSlot(D, i - 1)

\* A PaxosAccept of this slot that names a command its maker executed later is not what
\* the slot decides; any other that is ready is ahead of the scan.
Overtaken(S, m) ==
  \E u \in Named(m.v) : /\ m.slot < Slot(S[u.pid])
                        /\ u \notin Named(S[u.pid].log[m.slot + 1].v)
HeldBack(S, s) ==
  \A i \in DOMAIN s.queued_messages :
    s.queued_messages[i].type = "PaxosAccept" /\ (s.scan = 0 \/ i < s.scan) =>
      ~ReadyToProcess(s, s.queued_messages[i]) \/ Overtaken(S, s.queued_messages[i])

-----------------------------------------------------------------------------
(* The invariant.  chan is what is in flight. *)

AllMade(S, chan) ==
  /\ \A p \in Proc : ShardMade(S, S[p])
  /\ \A p, q \in Proc : \A i \in DOMAIN chan[q][p] : MsgMade(S, chan[q][p][i])
AllCalled(S, D, hand, chan) ==
  /\ \A p \in AliveReplicas :
       /\ HeldInOrder(S[p], D, hand[p]) /\ ReportsSlow(S[p], D)
       /\ \A q \in Proc : ComesInOrder(S[p], D, hand[p], chan[q][p])
  /\ \A l \in Proc : CallsAll(S, hand, l, chan[l])
AllHeldBack(S) == \A p \in Proc : HeldBack(S, S[p])

EmptyHands  == [p \in Proc |-> {}]
InHand(p, M) == [q \in Proc |-> IF q = p THEN M ELSE {}]

Warned == /\ AllMade(shard, net)
          /\ AllCalled(shard, decided, EmptyHands, net)
          /\ AllHeldBack(shard)
=============================================================================
