-------------------------- MODULE PaxosRoundState --------------------------
(***************************************************************************)
(* What one process keeps of the slot under way in the leader-based modes:  *)
(* the round it is in, the value it goes for, the promises and votes it has *)
(* counted in that round and, as an EPaxos proposer, the answers to its     *)
(* pre-accept.                                                              *)
(*                                                                         *)
(* A PaxosRound is written as its leader: a process proposes only from the  *)
(* starting round of a slot, so round_group is always 0 and rounds compare  *)
(* as their leaders do.  None is below every round.                         *)
(***************************************************************************)
EXTENDS CommandBatch, FiniteSetsExt

\* RoundV.  A FastV names the proposer whose value was pre-accepted, a PaxosV
\* the round in which its value was last accepted, if it was.
FastVs  == [v : Uid, proposer : Proc, accept_round : {None}]
PaxosVs == [v : Uid, proposer : {None}, accept_round : OptProc]
NoRV    == [v |-> NoV, proposer |-> None, accept_round |-> None]

FastV(a, v)      == [v |-> v, proposer |-> a, accept_round |-> None]
PaxosV(round, v) == [v |-> v, proposer |-> None, accept_round |-> round]

PaxosRoundStates ==
  [round        : OptProc,
   max_rv       : FastVs \cup PaxosVs \cup {NoRV},
   prepared_set : SUBSET Proc,
   accepted_set : SUBSET Proc,
   fast_answers : SUBSET [src : Proc, proposer : Proc, v : Uid]]

ClearPaxosRound(starting_round) ==
  [round |-> starting_round, max_rv |-> NoRV, prepared_set |-> {},
   accepted_set |-> {}, fast_answers |-> {}]

EPaxosQuorum == Max({(3 * NbReplicas - 1) \div 4, Majority})

-----------------------------------------------------------------------------
(* Promises and votes *)

\* Mutant: a new round starts like a new slot.
GotoRoundForgetting(r, round) == ClearPaxosRound(round)

\* A new round is counted from nothing.
GotoRound(r, round) ==
  [r EXCEPT !.round = round, !.prepared_set = {}, !.accepted_set = {}]

\* A replica that counts somebody counts itself.
Counting(S, p, src) == S \cup ({src} \ {p}) \cup ({p} \cap AliveReplicas)

\* Mutant: a proposer insists on its own value.
PromiseForMyV(r, p, src, rv) ==
  [r EXCEPT !.max_rv = IF @ = NoRV THEN rv ELSE @,
            !.prepared_set = Counting(@, p, src)]

\* Of the values heard of, the one accepted in the highest round is kept.
ReceivePromise(r, p, src, rv) ==
  [r EXCEPT !.max_rv = IF @ = NoRV \/ @.accept_round < rv.accept_round THEN rv ELSE @,
            !.prepared_set = Counting(@, p, src)]

\* Mutant: the promise is counted, the value is not kept.
PromiseOnly(r, p, rv)   == [r EXCEPT !.prepared_set = Counting(@, p, p)]
PaxosProposeV(r, p, rv) == ReceivePromise(r, p, p, rv)
ProposeVAsserts(r)      == r.max_rv = NoRV /\ r.prepared_set = {}

ReceiveAccept(r, p, src, round, v) ==
  [r EXCEPT !.max_rv = IF @.accept_round < round THEN PaxosV(round, v) ELSE @,
            !.accepted_set = Counting(@, p, src)]

\* A round has one value.
AcceptAsserts(r, round, v) ==
  r.max_rv.accept_round >= round => r.max_rv = PaxosV(round, v)

SelfAccept(r, p, round) == ReceiveAccept(r, p, p, round, r.max_rv.v)
SelfAcceptAsserts(r, round) ==
  /\ r.accepted_set = {} /\ r.max_rv # NoRV
  /\ AcceptAsserts(r, round, r.max_rv.v)

IsPrepared(r)     == Cardinality(r.prepared_set) >= Majority
PaxosCanCommit(r) == Cardinality(r.accepted_set) >= Majority

-----------------------------------------------------------------------------
(* The EPaxos fast path: a proposer counts whose value each answer carries *)

EPaxosAnswered(r, src, proposer, v) ==
  [r EXCEPT !.fast_answers = @ \cup {[src |-> src, proposer |-> proposer, v |-> v]}]

\* "Should never receive two preaccept answers from the same process."
AnsweredAsserts(r, src) == \A a \in r.fast_answers : a.src # src

Proposers(r) == {a.proposer : a \in r.fast_answers}
AnswersFor(r, a) == {x \in r.fast_answers : x.proposer = a}

EPaxosCanCommit(r, p) ==
  /\ Cardinality(Proposers(r)) = 1
  /\ Cardinality(AnswersFor(r, p)) >= EPaxosQuorum

\* A proposer that did not answer is deduced to stand by its own value, with
\* the one replica that may have told it so: it scores 2 before any answer.
Score(r, a) ==
  2 + Cardinality({x \in AnswersFor(r, a) : x.src # a})
    - Cardinality({x \in AnswersFor(r, a) : x.src = a})

\* Mutant: any proposal heard of will do.
AdoptAnyProposal(r) ==
  IF Cardinality(r.fast_answers) < Majority \/ Cardinality(Proposers(r)) < 2
  THEN {}
  ELSE {x.v : x \in r.fast_answers}

\* The values epaxos_try_adopt may return: with a majority of answers for
\* several proposals, one of best score (the map is met in any order).
EPaxosAdoptable(r) ==
  IF Cardinality(r.fast_answers) < Majority \/ Cardinality(Proposers(r)) < 2
  THEN {}
  ELSE {x.v : x \in {y \in r.fast_answers :
                       \A a \in Proposers(r) : Score(r, a) <= Score(r, y.proposer)}}

AdoptFromEPaxos(r, p, round, v) ==
  SelfAccept([r EXCEPT !.max_rv = PaxosV(None, v)], p, round)
=============================================================================
