\* The pure functions over small integers.
SPECIFICATION Spec
CONSTANTS
  TIDE_HEADER_SIZE = 2
  TIDE_GROUP_META_SIZE = 1
  RECORD_FIXED_SIZE = 1
  RECORD_CRC_SIZE = 1
  U64_MAX = 31
  I64_MAX = 31
  U32_MAX = 7
  I128_MAX = 2047
  SIZE_MAX = 31
  SORT_KEY_SPAN = 4
  TRACKS_FIRST = 1
  limits <- MCLimits
  Media <- NoMedia
  VARINT_BASE = 4
  TIDE_MAX_HEADER_VARINT_BYTES = 3
  LAST_DIGIT_MAX = 1
  INDEX_FIRST = 1
  Conversions <- SomeConversions
  Projections <- SomeProjections
  ByteStrings <- SomeByteStrings
  SeekIndexes <- SomeSeekIndexes
  Additions <- SomeAdditions
INVARIANTS
  ConvertExact
  NoOverflow
  PieceInsideEdit
  VarintCanonical
  IndexesOrdered
