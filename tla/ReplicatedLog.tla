--------------------------- MODULE ReplicatedLog ---------------------------
(***************************************************************************)
(* What a shard promises its clients, whichever protocol orders the slots:  *)
(* one growing sequence of sets of submitted commands, no command in it     *)
(* twice, and every process executes that sequence from its beginning.      *)
(***************************************************************************)
EXTENDS Naturals, Sequences

CONSTANTS
  Proc,  \* who submits and executes
  Cmd    \* everything that may be submitted

VARIABLES
  submitted,   \* commands clients have submitted
  chosen,      \* chosen[i]: the commands decided in the i-th slot
  executed     \* executed[p]: what p has executed, slot by slot

logVars == <<submitted, chosen, executed>>

Ordered == UNION {chosen[i] : i \in DOMAIN chosen}

Init ==
  /\ submitted = {}
  /\ chosen = <<>>
  /\ executed = [p \in Proc |-> <<>>]

Submit(c) ==
  /\ c \notin submitted
  /\ submitted' = submitted \cup {c}
  /\ UNCHANGED <<chosen, executed>>

\* A process that is up to date decides the next slot, and executes it.
Choose(p, commands) ==
  /\ executed[p] = chosen
  /\ commands # {}
  /\ commands \cap Ordered = {}
  /\ chosen' = Append(chosen, commands)
  /\ executed' = [executed EXCEPT ![p] = chosen']
  /\ UNCHANGED submitted

\* A process that is behind executes the next slot.
Execute(p) ==
  /\ Len(executed[p]) < Len(chosen)
  /\ executed' = [executed EXCEPT ![p] = Append(@, chosen[Len(@) + 1])]
  /\ UNCHANGED <<submitted, chosen>>

Next ==
  \/ \E c \in Cmd : Submit(c)
  \/ \E p \in Proc : Execute(p) \/ \E commands \in SUBSET submitted : Choose(p, commands)

Spec == Init /\ [][Next]_logVars
=============================================================================
