SPECIFICATION Spec
CONSTANTS
  Thread = {"producer", "consumer"}
  Ref <- MCRef
  Cell = {"c1", "c2", "c3"}
  owner <- MCOwner
  Lease = {"l1", "l2"}
  NoLease = "NULL"
  Packet <- MCPacket
  MAX_REFCOUNT = 3
  QUEUE_FIRST = 2
  Limits = {0, 1, 3}
  QueueThread = "producer"
  AllocationsFail = TRUE
INVARIANTS
  TypeOK
  RefcountExact
  NoDanglingLease
  NoLeaseLeaked
  QueueBounded
  QueueSorted
PROPERTIES
  ImplementsContract
  DestroyEnds
