--------------------------- MODULE ReorderContract ---------------------------
(****************************************************************************)
(* What a reorder queue promises: packets are put in, at most limit of      *)
(* them, and taken out least first; equal packets leave in the order they   *)
(* came.  Destroying the queue drops its packets one by one.                *)
(****************************************************************************)
EXTENDS Integers, Sequences

CONSTANT less(_, _)      \* the presentation order of packets

VARIABLES
  pending,   \* the packets put in and not yet taken out, in the order they came
  limit,     \* how many may be pending
  draining   \* whether the queue is being destroyed

vars == <<pending, limit, draining>>

Without(i) == [j \in 1..(Len(pending) - 1) |-> IF j < i THEN pending[j] ELSE pending[j+1]]

\* The packet to take out: least, and first among its equals.
First(i) ==
  \A j \in DOMAIN pending :
    /\ ~less(pending[j], pending[i])
    /\ j < i => less(pending[i], pending[j])

Init == pending = <<>> /\ limit = 0 /\ draining = FALSE

Create == pending = <<>> /\ limit' \in Nat \ {0} /\ UNCHANGED <<pending, draining>>

Push ==
  /\ Len(pending) < limit /\ ~draining
  /\ Len(pending') = Len(pending) + 1
  /\ \A i \in DOMAIN pending : pending'[i] = pending[i]
  /\ UNCHANGED <<limit, draining>>

Pop ==
  /\ ~draining
  /\ \E i \in DOMAIN pending : First(i) /\ pending' = Without(i)
  /\ UNCHANGED <<limit, draining>>

Drop ==
  /\ draining
  /\ \E i \in DOMAIN pending : pending' = Without(i)
  /\ UNCHANGED <<limit, draining>>

Destroy ==
  /\ draining => pending = <<>>
  /\ draining' = ~draining
  /\ UNCHANGED <<pending, limit>>

Next == Create \/ Push \/ Pop \/ Drop \/ Destroy

Spec == Init /\ [][Next]_vars

=============================================================================
