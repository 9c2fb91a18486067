----------------------------- MODULE PacketRefs -----------------------------
(****************************************************************************)
(* Payload leases and packet references, src/model/lease.c and packet.c.    *)
(* A lease is counted by the references to it; the count is atomic, and the *)
(* references, each the variable of one thread, are not.  What a thread     *)
(* does to its own references is invisible to the others, so one step is an *)
(* atomic operation on a count with everything private around it; only the  *)
(* free that follows a count of zero is a step of its own.                  *)
(****************************************************************************)
EXTENDS Integers, FiniteSets

CONSTANTS
  Thread,
  Ref,        \* the tide_packet_ref variables of the threads
  Cell,       \* those inside the items of a reorder queue
  owner,      \* [Ref -> Thread]
  Lease,      \* the leases that may be created
  NoLease,    \* NULL
  MAX_REFCOUNT,  \* bound on the references taken to a lease
  Packet      \* [Lease -> the tide_packet_info of the packet with that payload, and
              \* the epoch its owner would push it with]

Holder == Ref \cup Cell
Info == [epoch: Int, pts: Int, dts: Int, packet_seq: Int]

ASSUME RefsAssumption ==
  /\ NoLease \notin Lease /\ Ref \cap Cell = {} /\ IsFiniteSet(Holder)
  /\ owner \in [Ref -> Thread] /\ Packet \in [Lease -> Info]
  /\ MAX_REFCOUNT \in Nat

VARIABLES
  lease,     \* [Holder -> the lease field of the reference]
  info,      \* [Holder -> its info field]
  refcount,  \* [Lease -> Nat]
  memory,    \* [Lease -> "unused", "allocated" or "freed"]
  freeing,   \* [Thread -> the lease it is about to free, or NoLease]
  lost       \* [Lease -> Nat]: how many references were overwritten, a history

refVars == <<lease, info, refcount, memory, freeing, lost>>

Zero == [epoch |-> 0, pts |-> 0, dts |-> 0, packet_seq |-> 0]

RefInit ==
  /\ lease = [h \in Holder |-> NoLease] /\ info = [h \in Holder |-> Zero]
  /\ refcount = [l \in Lease |-> 0] /\ memory = [l \in Lease |-> "unused"]
  /\ freeing = [t \in Thread |-> NoLease] /\ lost = [l \in Lease |-> 0]

\* The thread is not inside a release.
Ready(t) == freeing[t] = NoLease

\* What owner-private code does to the references: h now has lease l and info i.
Put(h, l, i) ==
  lease' = [lease EXCEPT ![h] = l] /\ info' = [info EXCEPT ![h] = i]

------------------------------------------------------------------------------
(* src/model/lease.c *)

\* A packet whose payload was copied into a new lease.
tide_payload_lease_create_copy(t, r, l) ==
  /\ Ready(t) /\ owner[r] = t /\ lease[r] = NoLease
  /\ memory[l] = "unused"
  /\ memory' = [memory EXCEPT ![l] = "allocated"]
  /\ refcount' = [refcount EXCEPT ![l] = 1]
  /\ Put(r, l, Packet[l])
  /\ UNCHANGED <<freeing, lost>>

\* Mutant: the lease is copied to another reference without being retained.
RetainUncounted(t, r, other) ==
  /\ Ready(t) /\ owner[r] = t /\ lease[r] # NoLease /\ lease[other] = NoLease
  /\ Put(other, lease[r], info[r])
  /\ UNCHANGED <<refcount, memory, freeing, lost>>

\* The owner of r retains its lease for an empty reference, which may be that of
\* another thread.
tide_payload_lease_retain(t, r, other) ==
  /\ Ready(t) /\ owner[r] = t /\ lease[r] # NoLease /\ lease[other] = NoLease
  /\ refcount[lease[r]] < MAX_REFCOUNT
  /\ refcount' = [refcount EXCEPT ![lease[r]] = @ + 1]
  /\ Put(other, lease[r], info[r])
  /\ UNCHANGED <<memory, freeing, lost>>

\* Mutant: the decrement frees one reference too early.
ReleaseEarly(t, l) ==
  IF l = NoLease THEN UNCHANGED <<refcount, freeing>>
  ELSE /\ refcount' = [refcount EXCEPT ![l] = @ - 1]
       /\ freeing' = [freeing EXCEPT ![t] = IF refcount[l] <= 2 THEN l ELSE NoLease]

\* Mutant: the last reference does not free the lease.
ReleaseOnly(t, l) ==
  IF l = NoLease THEN UNCHANGED <<refcount, freeing>>
  ELSE refcount' = [refcount EXCEPT ![l] = @ - 1] /\ UNCHANGED freeing

\* The atomic decrement of tide_payload_lease_release; NULL is ignored.
tide_payload_lease_release(t, l) ==
  IF l = NoLease THEN UNCHANGED <<refcount, freeing>>
  ELSE /\ refcount' = [refcount EXCEPT ![l] = @ - 1]
       /\ freeing' = [freeing EXCEPT ![t] = IF refcount[l] = 1 THEN l ELSE NoLease]

\* The thread whose decrement met 1 frees the lease.
Free(t) ==
  /\ ~Ready(t)
  /\ memory' = [memory EXCEPT ![freeing[t]] = "freed"]
  /\ freeing' = [freeing EXCEPT ![t] = NoLease]
  /\ UNCHANGED <<lease, info, refcount, lost>>

------------------------------------------------------------------------------
(* src/model/packet.c *)

\* Releases what h holds and clears it.
tide_packet_ref_reset(t, h) ==
  /\ Ready(t)
  /\ tide_payload_lease_release(t, lease[h])
  /\ Put(h, NoLease, Zero)
  /\ UNCHANGED <<memory, lost>>

\* Mutant: the source of a move keeps its lease.
MoveKeepsSource(t, dst, src) ==
  /\ Ready(t) /\ dst # src
  /\ tide_payload_lease_release(t, lease[dst])
  /\ Put(dst, lease[src], info[src])
  /\ UNCHANGED <<memory, lost>>

\* dst is reset, then takes over what src holds; a move onto itself is refused.
tide_packet_ref_move(t, dst, src) ==
  /\ Ready(t) /\ dst # src
  /\ tide_payload_lease_release(t, lease[dst])
  /\ lease' = [lease EXCEPT ![dst] = lease[src], ![src] = NoLease]
  /\ info' = [info EXCEPT ![dst] = info[src], ![src] = Zero]
  /\ UNCHANGED <<memory, lost>>

\* dst is cleared without a release (tide_packet_ref_init), then takes over what
\* src holds: whatever lease dst had is never released.
InitAndMove(t, dst, src) ==
  /\ Ready(t)
  /\ lost' = IF lease[dst] = NoLease THEN lost ELSE [lost EXCEPT ![lease[dst]] = @ + 1]
  /\ lease' = [lease EXCEPT ![dst] = lease[src], ![src] = NoLease]
  /\ info' = [info EXCEPT ![dst] = info[src], ![src] = Zero]
  /\ UNCHANGED <<refcount, memory, freeing>>

------------------------------------------------------------------------------
(* Properties *)

Holders(l) == {h \in Holder : lease[h] = l}

\* The reference counts of all leases are exact: as many as there are references to
\* the lease, in the hands of threads, in the queue or overwritten.
RefcountExact ==
  \A l \in Lease : refcount[l] = Cardinality(Holders(l)) + lost[l]

\* No reference is ever to a lease that is freed or about to be, and no lease is
\* freed by two threads, in whatever order they release it.
NoDanglingLease ==
  /\ \A h \in Holder : lease[h] # NoLease =>
       memory[lease[h]] = "allocated" /\ \A t \in Thread : freeing[t] # lease[h]
  /\ \A t \in Thread : ~Ready(t) =>
       memory[freeing[t]] = "allocated" /\ \A u \in Thread : freeing[u] = freeing[t] => u = t

=============================================================================
