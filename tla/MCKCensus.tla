----------------------------- MODULE MCKCensus -----------------------------
(***************************************************************************)
(* Instances of KCensusShard for TLC: a few latency matrices, the plans     *)
(* KCensusPlan computes from them, and how much the clients submit.         *)
(***************************************************************************)
EXTENDS KCensusPlan, KCensusProperties

\* Symmetric matrices from the distances between processes, by hundreds.
Matrix(n, far(_, _)) ==
  [p \in 0 .. n - 1 |-> [q \in 0 .. n - 1 |->
     CASE p < q -> far(p, q) [] p = q -> 0 [] p > q -> far(q, p)]]

MCProc3 == 0 .. 2
MCProc4 == 0 .. 3
MCProc6 == 0 .. 5
Voting4 == {0, 1, 2, 3}
Voting3 == {0, 1, 2}

\* Three regions of configs/aws-random, in tenths of milliseconds: 0 is between the others.
Triangle3 == Matrix(3, LAMBDA p, q : CASE p = 0 /\ q = 1 -> 421
                                       [] p = 0 /\ q = 2 -> 875
                                       [] p = 1 /\ q = 2 -> 1225)
\* The link 1 - 2 is slower than the detour through 0.
Detour3   == Matrix(3, LAMBDA p, q : IF p = 0 THEN q * 10 ELSE 80)
\* A fourth process that does not vote, near 1, which leads its commands.
Observer4 == Matrix(4, LAMBDA p, q : CASE q # 3 -> 20
                                       [] p = 1 -> 10
                                       [] OTHER -> 50)
\* Four replicas on a line.
Line4     == Matrix(4, LAMBDA p, q : 10 * (q - p))

\* Three replicas and three proposers that do not vote: 0 leads 4's commands, 1
\* leads 3's, 2 leads 5's.
Proposers6 ==
  LET rows == << <<0, 3, 4, 2, 1, 1>>, <<3, 0, 2, 1, 2, 3>>, <<4, 2, 0, 3, 3, 2>>,
                 <<2, 1, 3, 0, 2, 4>>, <<1, 2, 3, 2, 0, 2>>, <<1, 3, 2, 4, 2, 0>> >>
  IN  [p \in Proc |-> [q \in Proc |-> rows[p + 1][q + 1]]]

\* TLC evaluates a definition without parameters once, and completely if it has
\* to compare it.
ThePlan == CHOOSE plan \in {Plan} : plan = plan
MCGraph == LET plan == ThePlan IN plan

\* How many commands each client submits.
Submits(commands) == [p \in Proc |-> commands[p + 1]]
W111  == Submits(<<1, 1, 1>>)
W1002 == Submits(<<1, 0, 0, 2>>)
W0110 == Submits(<<0, 1, 1, 0>>)
W000111 == Submits(<<0, 0, 0, 1, 1, 1>>)

\* A bound that steers the search: what it leaves out are other behaviours of the
\* same system.  The proposers of Proposers6 hear nothing yet, 0 hears of 4's command
\* alone, 1 accepts 4's and 2 accepts 3's, and 2 hears 5 before it hears of 4.
Accepted(p) == Mine(Round(p), p).k_proposer
Steered ==
  /\ \A p \in {3, 4, 5} : pending[p] = 0 => shard[p].scan = 1
  /\ Round(0).proposers \subseteq {4}
  /\ Accepted(1) \in {None, 4}
  /\ Accepted(2) \in {None, 3}
  /\ 4 \in Round(2).proposers => \E id \in Round(2).received_msgs : id.src = 5
=============================================================================
