------------------------------ MODULE MCRelease ------------------------------
(****************************************************************************)
(* The order in which the reorder queue releases packets: ReorderQueue with *)
(* the last packet released as a history, and two packets of one epoch, of  *)
(* which the first created is presented last.                               *)
(****************************************************************************)
EXTENDS ReorderQueue

VARIABLE released    \* history: the packet that was popped last, if any

MCRef == {"a", "b"}
MCOwner == [r \in MCRef |-> "producer"]
MCPacket == [l1 |-> [Zero EXCEPT !.pts = 2], l2 |-> [Zero EXCEPT !.pts = 1]]

ReleaseInit == Init /\ careful /\ released = {}

\* A pop that moves a packet, and not an empty reference, out of the queue releases it;
\* a queue that is destroyed starts again.
Releases == queue # <<>> /\ ~draining /\ queue' = Tail(queue) /\ lease[Head(queue)] # NoLease
ReleaseNext ==
  /\ Next
  /\ released' = IF Releases THEN {info[Head(queue)]} ELSE IF draining THEN {} ELSE released

ReleaseSpec == ReleaseInit /\ [][ReleaseNext]_<<vars, released>>

\* "released presentation keys nondecreasing within epoch"
\* (04_tide_streaming_media_container.md): tide_reorder_queue_pop_ready never returns a
\* packet that comes before the one it returned last.
ReleasedInOrder ==
  [][\A p \in released, q \in released' :
       p.epoch = q.epoch => ~tide_packet_less(q, p)]_released

=============================================================================
