\* A remux whose copy fails at a packet the muxer refuses.
SPECIFICATION Spec
CONSTANTS
  TIDE_HEADER_SIZE = 2
  TIDE_GROUP_META_SIZE = 1
  RECORD_FIXED_SIZE = 1
  RECORD_CRC_SIZE = 1
  PREFIX_SIZE = 2
  U64_MAX = 100
  I64_MAX = 50
  SIZE_MAX = 100
  SORT_KEY_SPAN = 4
  TRACKS_FIRST = 1
  BUFFER_FIRST = 4
  limits <- MCLimits
  Media <- Files
  AllocationsFail = FALSE
  IoFails = FALSE
  VARINT_BASE = 4
  TIDE_MAX_HEADER_VARINT_BYTES = 4
  LAST_DIGIT_MAX = 1
  STREAM_FIXED_SIZE = 1
  TIDE_PACKET_FIXED_SIZE = 1
  FOOTER_PAYLOAD_SIZE = 3
  MUX_ALIGNMENT_LOG2 = 1
  MAX_RECORD_HINT = 40
  Path = {"a", "b"}
  INPUT = "a"
  FirstJobs <- OnInput
  LaterJobs <- OnOutput
  Descriptors <- SomeDescriptors
  Packets <- SomePackets
  MAX_JOBS = 1
  MAX_CALLS = 3
INVARIANT
  RemuxPublishesWhole
CHECK_DEADLOCK FALSE
