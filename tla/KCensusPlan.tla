---------------------------- MODULE KCensusPlan ----------------------------
(***************************************************************************)
(* The planner every process runs on the latency matrix before the          *)
(* experiment.  A command's proposer p reaches `first', whose acceptance is *)
(* witnessed by `second', which reports it to the leader: the three legs    *)
(* are a triangle, and the triangles no longer than a time t are what the   *)
(* leader can know at t, a knowledge level.  The plan picks a leader and a   *)
(* level for every proposer, pairwise compatible and with the least total   *)
(* commit latency, and lays the triangles out as states and messages.       *)
(*                                                                         *)
(* Only model-checking modules use this one: its definitions recurse.       *)
(***************************************************************************)
EXTENDS Requirements, SequencesExt

Least(S)  == CHOOSE x \in S : \A y \in S : x <= y
Latest(S) == CHOOSE x \in S : \A y \in S : y <= x

-----------------------------------------------------------------------------
(* Shortest paths over the links *)

RECURSIVE PathLatencyWithin(_, _, _)
PathLatencyWithin(src, dest, hops) ==
  IF hops = 1 THEN LinkLatency[src][dest]
  ELSE Least({PathLatencyWithin(src, q, hops - 1) + LinkLatency[q][dest] : q \in Proc})

PathLatencies ==
  [src \in Proc |-> [dest \in Proc |->
     PathLatencyWithin(src, dest, Cardinality(Proc))]]

\* The last hop of the shortest path; a direct link wins a tie.  Between two
\* relays that tie, the library takes one by the order it relaxes edges in.
PrevDest(src, dest) ==
  IF PathLatencies[src][dest] = LinkLatency[src][dest] THEN src
  ELSE CHOOSE q \in Proc \ {src, dest} :
         PathLatencies[src][q] + LinkLatency[q][dest] = PathLatencies[src][dest]

\* The first hop, which the code asks for again at every node on the way.
RECURSIVE NextSrc(_, _)
NextSrc(src, dest) ==
  IF PrevDest(src, dest) = src THEN dest ELSE NextSrc(src, PrevDest(src, dest))

RECURSIVE Walk(_, _)
Walk(src, dest) ==
  IF src = dest THEN <<>>
  ELSE LET hop == NextSrc(src, dest)
       IN  <<[src |-> src, dest |-> hop]>> \o Walk(hop, dest)

\* The time by which k replicas can have been visited on the way.
QuorumTime(src, dest, k) ==
  LET times == [r \in AliveReplicas |-> PathLatencies[src][r] + PathLatencies[r][dest]]
  IN  Least({t \in {times[r] : r \in AliveReplicas} :
               Cardinality({r \in AliveReplicas : times[r] <= t}) >= k})

-----------------------------------------------------------------------------
(* Triangles and knowledge levels *)

Triangle(p, leader, first, second) ==
  PathLatencies[p][first] + PathLatencies[first][second] + PathLatencies[second][leader]

\* A level is named by its time.
KnowledgeLevels ==
  [p \in Proc |-> [leader \in AliveReplicas |->
    LET min == QuorumTime(p, leader, MinQuorum)
        max == min + QuorumTime(leader, leader, MaxQuorum)
    IN  {t \in {Triangle(p, leader, f, s) : f, s \in AliveReplicas} : min <= t /\ t <= max}]]

\* Who is known, at level t, to have been witnessed by each process.
LevelKnowledge(p, leader, t) ==
  [s \in Proc |-> {f \in AliveReplicas :
                     s \in AliveReplicas /\ Triangle(p, leader, f, s) <= t}]

-----------------------------------------------------------------------------
(* The best leaders and levels *)

\* A replica leads its own commands.
LeaderChoices(p) == IF p \in AliveReplicas THEN {p} ELSE AliveReplicas

PlanChoices(p) ==
  UNION {[leader : {l}, level : KnowledgeLevels[p][l]] : l \in LeaderChoices(p)}

Compatible(p, c, q, d) ==
  AreCompatible(c.leader, LevelKnowledge(p, c.leader, c.level),
                d.leader, LevelKnowledge(q, d.leader, d.level))

\* Choices for the proposers below n, pairwise compatible; choice[p + 1] is p's.
RECURSIVE Candidates(_)
Candidates(n) ==
  IF n = 0 THEN {<<>>}
  ELSE UNION {{Append(choice, c) : c \in
                 {d \in PlanChoices(n - 1) :
                    \A p \in 0 .. n - 2 : Compatible(p, choice[p + 1], n - 1, d)}} :
              choice \in Candidates(n - 1)}

\* What the clients wait for in all.
CommitLatency(p, c) == c.level + LinkLatency[c.leader][p]
TotalLatency(choice) ==
  FoldLeft(LAMBDA sum, i : sum + CommitLatency(i - 1, choice[i]), 0,
           [i \in DOMAIN choice |-> i])

\* The branch-and-bound search keeps the first best choice it meets: it tries
\* leaders nearest to the proposer first, then levels in increasing order.
SearchKey(choice) ==
  [i \in DOMAIN choice |->
     Cardinality({l \in AliveReplicas :
       \/ LinkLatency[l][i - 1] < LinkLatency[choice[i].leader][i - 1]
       \/ /\ LinkLatency[l][i - 1] = LinkLatency[choice[i].leader][i - 1]
          /\ l < choice[i].leader})]
  \o [i \in DOMAIN choice |-> choice[i].level]
MetBefore(k, l) ==
  \E i \in DOMAIN k : k[i] < l[i] /\ \A j \in 1 .. i - 1 : k[j] = l[j]

BestChoice ==
  LET all  == Candidates(Cardinality(Proc))
      low  == Least({TotalLatency(choice) : choice \in all})
      best == {choice \in all : TotalLatency(choice) = low}
  IN  CHOOSE choice \in best :
        \A other \in best \ {choice} : MetBefore(SearchKey(choice), SearchKey(other))

-----------------------------------------------------------------------------
(* Laying out the messages of one proposer.  w is the graph so far, with the *)
(* time reached along the path being laid and how long it may still wait.    *)

InitialState(p, q) ==
  [knowledge     |-> [s \in Proc |-> IF s = p /\ q = p THEN {p} ELSE {}],
   remote_states |-> [s \in Proc |-> 0],
   dependencies  |-> {},
   needed_by     |-> {}]

StateBy(states, t) == states[Latest({u \in DOMAIN states : u <= t})]

\* State s after learning all that state t says.
Learn(s, t) ==
  [s EXCEPT !.knowledge     = [q \in Proc |-> s.knowledge[q] \cup t.knowledge[q]],
            !.remote_states = [q \in Proc |-> Latest({s.remote_states[q], t.remote_states[q]})]]

\* One more link of the path: reuse a message that leaves within the slack, or
\* send one now; its receiver, there and in its later states, learns from it.
AddLink(p, isValue, w, link) ==
  LET src      == link.src
      dest     == link.dest
      sent     == {id \in UNION {w.states[src][t].needed_by : t \in DOMAIN w.states[src]} :
                     id.dest = dest /\ w.now <= id.time /\ id.time <= w.now + w.slack}
      time     == IF sent = {} THEN w.now ELSE Least({id.time : id \in sent})
      id       == [proposer |-> p, src |-> src, dest |-> dest, time |-> time]
      from     == w.states[src][time]
      arrival  == time + LinkLatency[src][dest]
      before   == StateBy(w.states[dest], arrival)
      known    == arrival \in DOMAIN w.states[dest]
      reached  ==
        [knowledge     |-> [q \in Proc |->
                             before.knowledge[q] \cup from.knowledge[q]
                               \cup IF q = dest THEN from.knowledge[src] \cup {dest} ELSE {}],
         remote_states |-> [q \in Proc |->
                             Latest({before.remote_states[q], from.remote_states[q]}
                                      \cup IF q = dest THEN {arrival} ELSE {})],
         dependencies  |-> {id} \cup IF known THEN before.dependencies ELSE {},
         needed_by     |-> IF known THEN before.needed_by ELSE {}]
  IN  [states |->
         [q \in Proc |->
           CASE q = src  -> (time :> [from EXCEPT !.needed_by = @ \cup {id}]) @@ w.states[src]
             [] q = dest -> (arrival :> reached)
                              @@ [t \in DOMAIN w.states[dest] |->
                                   IF t > arrival THEN Learn(w.states[dest][t], reached)
                                   ELSE w.states[dest][t]]
             [] OTHER    -> w.states[q]],
       values |-> IF isValue /\ sent = {} THEN w.values \cup {id} ELSE w.values,
       now    |-> arrival,
       slack  |-> w.now + w.slack - time]

\* A path through its checkpoints, which must end by the commit time.
AddPath(p, isValue, total, level, w, links) ==
  FoldLeft(LAMBDA x, link : AddLink(p, isValue, x, link),
           [w EXCEPT !.now = 0, !.slack = IF total <= level THEN level - total ELSE 0],
           links)

\* The value reaches every process, farthest first; then the triangles, the
\* longest first, skipping those that would teach the leader nothing.
Sorted(S, Before(_, _)) ==
  [i \in 1 .. Cardinality(S) |->
     CHOOSE x \in S : Cardinality({y \in S : Before(y, x)}) = i - 1]

FarthestFirst(p) ==
  Sorted(Proc, LAMBDA q, s :
    \/ PathLatencies[p][q] > PathLatencies[p][s]
    \/ PathLatencies[p][q] = PathLatencies[p][s] /\ q < s)

LongestFirst(p, c) ==
  LET total(t) == Triangle(p, c.leader, t[1], t[2])
  IN  Sorted({t \in AliveReplicas \X AliveReplicas : total(t) <= c.level},
        LAMBDA t, u : MetBefore(<<total(u), u[1], u[2]>>, <<total(t), t[1], t[2]>>))

AddTriangle(p, c, w, t) ==
  IF t[1] \in StateBy(w.states[c.leader], c.level).knowledge[t[2]] THEN w
  ELSE AddPath(p, FALSE, Triangle(p, c.leader, t[1], t[2]), c.level, w,
               Walk(p, t[1]) \o Walk(t[1], t[2]) \o Walk(t[2], c.leader))

GraphOf(p, c) ==
  LET start  == [states |-> [q \in Proc |-> (0 :> InitialState(p, q))],
                 values |-> {}, now |-> 0, slack |-> 0]
      values == FoldLeft(LAMBDA w, q :
                  AddPath(p, TRUE, PathLatencies[p][q], c.level, w, Walk(p, q)),
                  start, FarthestFirst(p))
      all    == FoldLeft(LAMBDA w, t : AddTriangle(p, c, w, t), values, LongestFirst(p, c))
  IN  [leader |-> c.leader, states |-> all.states, should_include_value |-> all.values]

Plan == LET best == BestChoice IN [p \in Proc |-> GraphOf(p, best[p + 1])]
=============================================================================
