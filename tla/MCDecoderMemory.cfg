\* The track table cannot grow.
SPECIFICATION Spec
CONSTANTS
  TIDE_HEADER_SIZE = 2
  TIDE_GROUP_META_SIZE = 1
  RECORD_FIXED_SIZE = 1
  RECORD_CRC_SIZE = 1
  PREFIX_SIZE = 2
  U64_MAX = 100
  I64_MAX = 50
  SIZE_MAX = 100
  SORT_KEY_SPAN = 4
  limits <- MCLimits
  Media <- Contested
  DEPTH_SPAN = 4
  BUFFER_FIRST = 4
  TRACKS_FIRST = 1
  CallbackStatus = {"OK"}
  CallbacksCancel = FALSE
  AllocationsFail = TRUE
INVARIANT
  DescriptorsKept
