------------------------------ MODULE MCReorder ------------------------------
(****************************************************************************)
(* A small instance of ReorderQueue: the thread that owns the queue, with   *)
(* two references, and another thread that gets leases from it.  A          *)
(* reference without a lease can be pushed too, and two references can be   *)
(* to one lease, so that equal keys occur.                                  *)
(****************************************************************************)
EXTENDS ReorderQueue

MCRef == {"a", "b", "other"}
MCOwner == [r \in MCRef |-> IF r = "other" THEN "consumer" ELSE "producer"]

\* The second packet has the lesser timestamp and belongs to a later epoch; the first
\* differs from a reference without a packet in its decoding time alone.
MCPacket ==
  [l1 |-> [Zero EXCEPT !.dts = 1], l2 |-> [Zero EXCEPT !.epoch = 1, !.pts = -1]]

=============================================================================
