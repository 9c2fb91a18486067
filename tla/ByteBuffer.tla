----------------------------- MODULE ByteBuffer -----------------------------
(****************************************************************************)
(* tide_buffer of src/common/checked.c: a byte buffer that doubles its      *)
(* capacity and refuses to grow past a nonzero aggregate_limit.  A buffer   *)
(* only grows, so its capacity is a function of its size.                   *)
(****************************************************************************)
EXTENDS TideFormat

CONSTANTS
  BUFFER_FIRST,     \* 256: the first capacity
  AllocationsFail   \* whether an allocation may fail

ASSUME BufferAssumption ==
  BUFFER_FIRST \in Nat \ {0} /\ AllocationsFail \in BOOLEAN

\* tide_buffer_reserve lets a buffer of the given size take n more bytes.
WithinLimit(size, n, aggregate_limit) ==
  /\ size + n <= SIZE_MAX
  /\ aggregate_limit = 0 \/ size + n <= aggregate_limit

\* The capacity doubles until it holds what is needed, or would overflow.
Doubled[capacity \in Nat, needed \in Nat] ==
  IF capacity >= needed THEN capacity
  ELSE IF capacity > SIZE_MAX \div 2 THEN needed
  ELSE Doubled[2 * capacity, needed]
Capacity(size) == IF size = 0 THEN 0 ELSE Doubled[BUFFER_FIRST, size]

\* An append of n bytes may fail: at the limit, or in realloc.
AppendMayFail(size, n, aggregate_limit) ==
  \/ ~WithinLimit(size, n, aggregate_limit)
  \/ AllocationsFail /\ size + n > Capacity(size)

=============================================================================
