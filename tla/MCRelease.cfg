\* The order of the packets that leave the queue.
SPECIFICATION ReleaseSpec
CONSTANTS
  Thread = {"producer"}
  Ref <- MCRef
  Cell = {"c1", "c2"}
  owner <- MCOwner
  Lease = {"l1", "l2"}
  NoLease = "NULL"
  Packet <- MCPacket
  MAX_REFCOUNT = 2
  QUEUE_FIRST = 2
  Limits = {2}
  QueueThread = "producer"
  AllocationsFail = FALSE
PROPERTY
  ReleasedInOrder
