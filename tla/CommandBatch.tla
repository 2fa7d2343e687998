---------------------------- MODULE CommandBatch ----------------------------
(***************************************************************************)
(* The values a slot orders.  A client command is identified by a uid that *)
(* its process draws from its own counter; a batch is a uid too, drawn from *)
(* the same counter, and names the commands it groups and the one slot it   *)
(* was made for.  A uid determines its content, so the content rides in the *)
(* uid's record here: `members' of a batch are the uids of its commands.    *)
(***************************************************************************)
EXTENDS Topology

\* CommandBatch::Single and CommandBatch::Batch, as the uids that name them.
Command == [pid : Proc, seq : Nat, slot : {-1}, members : {{}}]
Batch   == [pid : Proc, seq : Nat, slot : Nat, members : SUBSET Command]
Uid     == Command \cup Batch

\* Option<uid> = None.  No uid has this pid.
NoV == [pid |-> -1, seq |-> 0, slot |-> -1, members |-> {}]

IsBatch(v) == v.slot # -1

NewCommand(p, seq) == [pid |-> p, seq |-> seq, slot |-> -1, members |-> {}]
NewBatch(p, seq, slot, vs) ==
  [pid |-> p, seq |-> seq, slot |-> slot, members |-> vs]

\* The commands that deciding v executes.
Commands(v) == IF IsBatch(v) THEN v.members ELSE {v}

\* Uids are numbers 2*pid + 2*n*seq (+ 1 for a batch): the k-th of every
\* process comes before the (k+1)-th of any.
UidBefore(v, w) == v.seq < w.seq \/ (v.seq = w.seq /\ v.pid < w.pid)
=============================================================================
