---------------------------- MODULE ReorderQueue ----------------------------
(****************************************************************************)
(* The reorder queue of src/index/reorder.c, with the references its        *)
(* callers pass to it.  items is an array that is kept sorted: the queue    *)
(* here is the sequence of the cells in it, so that a shifted item keeps    *)
(* its cell.                                                                *)
(****************************************************************************)
EXTENDS PacketRefs, Sequences

CONSTANTS
  QUEUE_FIRST,       \* 8: the first capacity
  Limits,            \* the limits a queue may be initialised with
  QueueThread,       \* the one thread that uses the queue
  AllocationsFail    \* whether realloc may fail

ASSUME QueueAssumption ==
  /\ QUEUE_FIRST \in Nat \ {0} /\ Limits \subseteq Nat
  /\ QueueThread \in Thread /\ AllocationsFail \in BOOLEAN
  /\ \A n \in Limits : n <= Cardinality(Cell)

VARIABLES
  queue,      \* the cells of items[0 .. count - 1]
  capacity, limit,
  draining,   \* inside tide_reorder_queue_destroy
  careful,    \* whether the caller of pop_ready always passes an empty reference
  arrivals    \* history: the cells of queue in the order they were pushed

queueVars == <<queue, capacity, limit, draining, careful, arrivals>>
vars == <<refVars, queueVars>>

tide_packet_less(a, b) ==
  \/ a.epoch < b.epoch
  \/ a.epoch = b.epoch /\ a.pts < b.pts
  \/ a.epoch = b.epoch /\ a.pts = b.pts /\ a.dts < b.dts
  \/ a.epoch = b.epoch /\ a.pts = b.pts /\ a.dts = b.dts /\ a.packet_seq < b.packet_seq

\* Mutant: the loop compares timestamps alone.
PositionsPts(x) ==
  {p \in 0..Len(queue) : \A i \in (p+1)..Len(queue) : x.pts < info[queue[i]].pts}

\* Mutant: the loop also passes the items that x equals.
PositionsUnstable(x) ==
  {p \in 0..Len(queue) : \A i \in (p+1)..Len(queue) : ~tide_packet_less(info[queue[i]], x)}

\* Where the loop of push may stop: below items at the end that x is less than.
Positions(x) ==
  {p \in 0..Len(queue) : \A i \in (p+1)..Len(queue) : tide_packet_less(x, info[queue[i]])}

\* It stops below all of them.
Position(x) == CHOOSE p \in Positions(x) : \A q \in Positions(x) : p <= q

\* Cell c after the first p items.
InsertedAt(c, p) ==
  [i \in 1..(Len(queue) + 1) |->
     IF i <= p THEN queue[i] ELSE IF i = p + 1 THEN c ELSE queue[i-1]]

\* Mutant: the capacity is doubled past the limit.
GrownUncapped == IF capacity = 0 THEN QUEUE_FIRST ELSE 2 * capacity

\* The capacity of a full array after it grew.
Grown ==
  LET next == IF capacity = 0 THEN QUEUE_FIRST ELSE 2 * capacity
  IN  IF next > limit THEN limit ELSE next

Init ==
  /\ RefInit
  /\ queue = <<>> /\ capacity = 0 /\ limit = 0 /\ draining = FALSE
  /\ careful \in BOOLEAN
  /\ arrivals = <<>>

Uses(t) == t = QueueThread /\ Ready(t) /\ ~draining

\* Only an empty queue that has no items array is initialised.  A limit of 0 is an
\* invalid argument; like every call that is refused, it changes nothing.
tide_reorder_queue_init(t, n) ==
  /\ Uses(t) /\ queue = <<>> /\ capacity = 0
  /\ limit' = IF n = 0 THEN limit ELSE n
  /\ UNCHANGED <<refVars, queue, capacity, draining, careful, arrivals>>

\* A push that is refused leaves the packet with the caller.
tide_reorder_queue_push_fails(t, r) ==
  /\ Uses(t) /\ owner[r] = t
  /\ Len(queue) >= limit \/ (AllocationsFail /\ Len(queue) = capacity)
  /\ UNCHANGED vars

\* A cell for a new item; which one makes no difference.
NewCell == CHOOSE c \in Cell : \A i \in DOMAIN queue : queue[i] # c

\* r is moved into a new item.
tide_reorder_queue_push(t, r, c) ==
  /\ Uses(t) /\ owner[r] = t
  /\ Len(queue) < limit
  /\ c = NewCell /\ \A i \in DOMAIN queue : queue[i] # c
  /\ queue' = InsertedAt(c, Position(info[r]))
  /\ lease' = [lease EXCEPT ![c] = lease[r], ![r] = NoLease]
  /\ info' = [info EXCEPT ![c] = info[r], ![r] = Zero]
  /\ capacity' = IF Len(queue) = capacity THEN Grown ELSE capacity
  /\ arrivals' = Append(arrivals, c)
  /\ UNCHANGED <<refcount, memory, freeing, lost, limit, draining, careful>>

\* Cell c leaves the queue.
Arrived(c) == CHOOSE i \in DOMAIN arrivals : arrivals[i] = c
Leaves(c) ==
  /\ queue' = Tail(queue)
  /\ arrivals' = [i \in 1..(Len(arrivals) - 1) |->
                   IF i < Arrived(c) THEN arrivals[i] ELSE arrivals[i + 1]]

\* The first item is moved into r, which is overwritten.  There is no condition on the
\* packet: it is ready whenever it is first.
tide_reorder_queue_pop_ready(t, r) ==
  /\ Uses(t) /\ owner[r] = t
  /\ careful => lease[r] = NoLease
  /\ queue # <<>>
  /\ InitAndMove(t, r, Head(queue))
  /\ Leaves(Head(queue))
  /\ UNCHANGED <<capacity, limit, draining, careful>>

\* There is nothing to pop: TIDE_STATUS_WOULD_BLOCK.
PopWouldBlock(t) == Uses(t) /\ queue = <<>> /\ UNCHANGED vars

\* tide_reorder_queue_destroy: every item is reset in turn, then the array is freed.
DestroyStart(t) ==
  /\ Uses(t)
  /\ draining' = TRUE
  /\ UNCHANGED <<refVars, queue, capacity, limit, careful, arrivals>>

\* Mutant: the loop stays at an item without a lease.
DestroyItemWithLease(t) ==
  /\ t = QueueThread /\ draining /\ queue # <<>> /\ lease[Head(queue)] # NoLease
  /\ tide_packet_ref_reset(t, Head(queue))
  /\ Leaves(Head(queue))
  /\ UNCHANGED <<capacity, limit, draining, careful>>

DestroyItem(t) ==
  /\ t = QueueThread /\ draining /\ queue # <<>>
  /\ tide_packet_ref_reset(t, Head(queue))
  /\ Leaves(Head(queue))
  /\ UNCHANGED <<capacity, limit, draining, careful>>

DestroyEnd(t) ==
  /\ t = QueueThread /\ draining /\ queue = <<>> /\ Ready(t)
  /\ draining' = FALSE /\ capacity' = 0
  /\ UNCHANGED <<refVars, queue, limit, careful, arrivals>>

\* What a thread does outside the queue.
OwnRefs(t) ==
  /\ t = QueueThread => ~draining
  /\ \/ \E r \in Ref, l \in Lease : tide_payload_lease_create_copy(t, r, l)
     \/ \E r, other \in Ref : tide_payload_lease_retain(t, r, other)
     \/ \E r \in Ref : owner[r] = t /\ tide_packet_ref_reset(t, r)
     \/ \E dst, src \in Ref :
          owner[dst] = t /\ owner[src] = t /\ tide_packet_ref_move(t, dst, src)
  /\ UNCHANGED queueVars

OnQueue(t) ==
  \/ \E n \in Limits : tide_reorder_queue_init(t, n)
  \/ \E r \in Ref : tide_reorder_queue_push_fails(t, r)
  \/ \E r \in Ref, c \in Cell : tide_reorder_queue_push(t, r, c)
  \/ \E r \in Ref : tide_reorder_queue_pop_ready(t, r)
  \/ PopWouldBlock(t)
  \/ DestroyStart(t)

\* The rest of a call that was begun.
GoesOn(t) == (Free(t) /\ UNCHANGED queueVars) \/ DestroyItem(t) \/ DestroyEnd(t)

Next == \E t \in Thread : OwnRefs(t) \/ OnQueue(t) \/ GoesOn(t)

\* A thread finishes the call it is in: none of the calls waits for another thread.
Spec == Init /\ [][Next]_vars /\ \A t \in Thread : WF_vars(GoesOn(t))

------------------------------------------------------------------------------
(* Properties *)

\* Every variable has its type: a reference count, too, never falls below zero.
TypeOK ==
  /\ lease \in [Holder -> Lease \cup {NoLease}] /\ info \in [Holder -> Info]
  /\ refcount \in [Lease -> Nat] /\ lost \in [Lease -> Nat]
  /\ memory \in [Lease -> {"unused", "allocated", "freed"}]
  /\ freeing \in [Thread -> Lease \cup {NoLease}]
  /\ queue \in Seq(Cell) /\ arrivals \in Seq(Cell)
  /\ capacity \in Nat /\ limit \in Nat /\ draining \in BOOLEAN /\ careful \in BOOLEAN

\* The queue never holds more packets than its array has room for, nor the array more
\* than the limit, and no item is two packets or a packet two items.
QueueBounded ==
  /\ Len(queue) <= capacity /\ capacity <= limit
  /\ \A i, j \in DOMAIN queue : queue[i] = queue[j] => i = j

\* The items are in presentation order whatever order they were pushed in.
QueueSorted ==
  \A i, j \in DOMAIN queue : i < j => ~tide_packet_less(info[queue[j]], info[queue[i]])

\* No lease is leaked: one that nothing refers to is freed or about to be, unless the
\* caller passes a reference that is not empty to pop_ready.
NoLeaseLeaked ==
  careful => \A l \in Lease : memory[l] = "allocated" /\ Holders(l) = {} =>
    \E t \in Thread : freeing[t] = l

\* The packets of the queue in the order they were pushed.
Pending == [i \in DOMAIN arrivals |-> info[arrivals[i]]]

\* The sorted array implements the queue of the contract: each pop returns the least of
\* the pending packets, and among equal ones the one pushed first.
Contract == INSTANCE ReorderContract WITH pending <- Pending, less <- tide_packet_less
ImplementsContract == Contract!Spec

\* A destroy ends with every item reset, whatever other threads do with the leases.
DestroyEnds == draining ~> (~draining /\ queue = <<>> /\ \A c \in Cell : lease[c] = NoLease)

=============================================================================
