------------------------------ MODULE TideFormat ------------------------------
(****************************************************************************)
(* The TIDE-1 byte format as the parser in src/format/decoder.c sees it:    *)
(* where a record ends, in which order it is checked and which status each  *)
(* malformed record gets.  Everything here is a function of the bytes, the  *)
(* limits and the track table; the parser's state is in module Decoder.     *)
(*                                                                          *)
(* A byte stream is abstracted to what reading a record at each offset      *)
(* would give: Media[m].frame[o] is the frame that starts at offset o.      *)
(****************************************************************************)
EXTENDS Integers, Sequences

CONSTANTS
  TIDE_HEADER_SIZE,      \* 72 in the code
  TIDE_GROUP_META_SIZE,  \* 20 in the code
  RECORD_FIXED_SIZE,     \* 8: type, flags, header_size, alignment_log2, reserved
  RECORD_CRC_SIZE,       \* 4
  U64_MAX,               \* 2^64 - 1
  I64_MAX,               \* 2^63 - 1
  SIZE_MAX,              \* the largest size_t
  SORT_KEY_SPAN,         \* 2^32: the shift in a seek index sort key
  TRACKS_FIRST,          \* 8: the first capacity of the track table
  limits,                \* struct tide_limits
  Media                  \* the byte streams: [name -> [size, header, frame]]

Status == {"OK", "PARTIAL", "WOULD_BLOCK", "CANCELLED", "INVALID_ARGUMENT",
           "FORMAT", "TRUNCATED", "UNSUPPORTED", "INTEGRITY", "TIMELINE",
           "INDEX", "RESOURCE", "IO", "INTERNAL"}

Limits == [max_record_size: Nat, max_payload_size: Nat,
           max_single_alloc: Nat, max_aggregate_alloc: Nat, max_depth: Nat,
           max_tracks: Nat, max_edit_entries: Nat, max_packet_table_entries: Nat]

\* "SKIPPABLE" is every type with TIDE_RECORD_SKIPPABLE_BIT, "UNKNOWN" every
\* other type the switch does not list.
SimpleType == {"PACKET_TABLE", "EDIT_LIST", "DISCONTINUITY", "SEEK_INDEX",
               "CHECKPOINT", "INDEX_DIRECTORY", "FOOTER"}
RecordType == {"GROUP", "STREAM_DESC", "PACKET", "SKIPPABLE", "UNKNOWN"}
                \cup SimpleType

Track == Nat \X Nat                       \* <<track_id, generation>>

\* What the reader extracts from the bytes at an offset.  prefix_size is where it
\* stands after both varints, varints says whether both are canonical ULEB128,
\* integrity is what tide_validate_record_integrity finds.
IsFrame(f) ==
  /\ f.type \in RecordType
  /\ f.varints \in BOOLEAN
  /\ f.prefix_size \in Nat /\ f.header_size \in Nat
  /\ f.alignment_log2 \in Nat /\ f.payload_size \in Nat
  /\ f.integrity \in {"OK", "FORMAT", "INTEGRITY"}
  /\ f.type = "STREAM_DESC" => f.body.track \in Track

ASSUME SizesAssumption ==
  /\ TIDE_HEADER_SIZE \in Nat \ {0} /\ TIDE_GROUP_META_SIZE \in Nat \ {0}
  /\ RECORD_FIXED_SIZE \in Nat /\ RECORD_CRC_SIZE \in Nat \ {0}
  /\ U64_MAX \in Nat /\ SIZE_MAX \in Nat
ASSUME LimitsAssumption == limits \in Limits
ASSUME MediaAssumption ==
  \A m \in DOMAIN Media :
    Media[m].size \in Nat /\ \A o \in 0..Media[m].size : IsFrame(Media[m].frame[o])

------------------------------------------------------------------------------
(* The file header *)

\* The checks run in this order and the first that fails decides; a header is
\* the set of the checks it fails.
HeaderChecks == <<"magic", "major", "uuid", "movie_base", "required_features",
                  "max_record_hint", "crc">>
HeaderCheckStatus == <<"FORMAT", "UNSUPPORTED", "FORMAT", "TIMELINE",
                       "UNSUPPORTED", "RESOURCE", "INTEGRITY">>

\* header.fails holds every failing check but the hint's, which depends on limits.
tide_validate_header(header, size) ==
  LET fails(i) == \/ HeaderChecks[i] \in header.fails
                  \/ /\ HeaderChecks[i] = "max_record_hint"
                     /\ header.max_record_hint > limits.max_record_size
  IN  IF size < TIDE_HEADER_SIZE THEN "TRUNCATED"
      ELSE IF \A i \in 1..7 : ~fails(i) THEN "OK"
      ELSE HeaderCheckStatus[CHOOSE i \in 1..7 :
                               fails(i) /\ \A j \in 1..(i-1) : ~fails(j)]

------------------------------------------------------------------------------
(* Record framing *)

Pow2 == <<1, 2, 4, 8, 16>>

\* value rounded up to a multiple of a power of two, by adding the mask and
\* clearing the low bits.
tide_align_u64(value, alignment) ==
  ((value + (alignment - 1)) \div alignment) * alignment

Alignment(f)       == Pow2[f.alignment_log2 + 1]
UnpaddedSize(f)    == f.header_size + f.payload_size
PayloadOffset(f, o) == o + f.header_size
PayloadEnd(f, o)   == o + UnpaddedSize(f)
PaddingEnd(f, o)   == o + tide_align_u64(UnpaddedSize(f), Alignment(f))
CrcEnd(f, o)       == PaddingEnd(f, o) + RECORD_CRC_SIZE

\* A malformed varint is indistinguishable from a short one to the caller.
tide_decode_record_prefix(f, offset, size) ==
  IF \/ size - offset < RECORD_FIXED_SIZE
     \/ ~f.varints
     \/ size - offset < f.prefix_size
  THEN "TRUNCATED"
  ELSE IF f.header_size # f.prefix_size \/ f.alignment_log2 > 4 THEN "FORMAT"
  ELSE IF \/ UnpaddedSize(f) + Alignment(f) - 1 > U64_MAX
          \/ CrcEnd(f, offset) > SIZE_MAX
  THEN "RESOURCE"
  ELSE IF CrcEnd(f, offset) > size THEN "TRUNCATED"
  ELSE "OK"

ExceedsLimits(f, offset) ==
  \/ f.payload_size > limits.max_payload_size
  \/ CrcEnd(f, offset) - offset > limits.max_record_size

\* Everything tide_parse_records checks before a callback sees the record.
CheckRecord(f, offset, end) ==
  LET prefix == tide_decode_record_prefix(f, offset, end)
  IN  IF prefix # "OK" THEN prefix
      ELSE IF ExceedsLimits(f, offset) THEN "RESOURCE"
      ELSE f.integrity

------------------------------------------------------------------------------
(* Record bodies.  f.body holds the fields the reader extracts; "layout" says *)
(* that every fixed field is there (and, where nothing of variable length     *)
(* follows, that the payload ends after the last).  A table holds the entries *)
(* its payload really has, so a count above Len(entries) runs the reader dry  *)
(* and a count below it leaves trailing bytes.                                *)

tide_find_track(tracks, track) ==
  \E i \in 1..Len(tracks) : tracks[i] = track

\* The status of a table: its header, then its entries in order, then what is
\* left of the payload.  bad holds the numbers of the entries that are rejected;
\* every bad entry of a table has the same status.
TableStatus(body, headStatus, bad, entryStatus, trailingStatus) ==
  IF headStatus # "OK" THEN headStatus
  ELSE IF \E i \in 1..body.count : i > Len(body.entries) \/ i \in bad
  THEN entryStatus
  ELSE IF body.count < Len(body.entries) THEN trailingStatus
  ELSE "OK"

PacketTableStatus(body, tracks) ==
  LET e == body.entries
      head == IF \/ ~body.layout
                 \/ body.count > limits.max_packet_table_entries
                 \/ ~tide_find_track(tracks, body.track)
              THEN "RESOURCE" ELSE "OK"
      previous_end(i) == IF i = 1 THEN 0
                         ELSE e[i-1].range_offset + e[i-1].range_size
      bad == {i \in DOMAIN e :
                \/ e[i].duration < 0
                \/ e[i].range_offset + e[i].range_size > U64_MAX
                \/ i # 1 /\ e[i].packet_seq <= e[i-1].packet_seq
                \/ e[i].range_offset < previous_end(i)}
  IN  TableStatus(body, head, bad, "FORMAT", "FORMAT")

EditListStatus(body, tracks) ==
  LET e == body.entries
      head == IF \/ ~body.layout
                 \/ body.count > limits.max_edit_entries
                 \/ ~tide_find_track(tracks, body.track)
              THEN "TIMELINE" ELSE "OK"
      bad == {i \in DOMAIN e :
                \/ e[i].output_duration < 0
                \/ e[i].output_start > I64_MAX - e[i].output_duration
                \/ ~e[i].rate_valid
                \/ /\ i # 1
                   /\ e[i].output_start < e[i-1].output_start
                                            + e[i-1].output_duration}
  IN  TableStatus(body, head, bad, "TIMELINE", "FORMAT")

DiscontinuityStatus(body, tracks) ==
  IF \/ ~body.layout
     \/ body.epoch = 0
     \/ body.track[1] # 0 /\ ~tide_find_track(tracks, body.track)
  THEN "FORMAT" ELSE "OK"

\* Exclusive or of two naturals, bit by bit.
Xor[a \in Nat, b \in Nat] ==
  IF a = 0 /\ b = 0 THEN 0
  ELSE ((a + b) % 2) + 2 * Xor[a \div 2, b \div 2]

\* Mutant: a negative pts is converted as it is.
SortKeySigned(entry) ==
  LET pts == IF entry.pts < 0 THEN entry.pts + U64_MAX + 1 ELSE entry.pts
  IN  Xor[entry.track[1] * SORT_KEY_SPAN, pts]

\* (track_id << 32) ^ max(pts, 0): a pts of 2^32 or more reaches the track's bits.
SortKey(entry) ==
  LET pts == IF entry.pts < 0 THEN 0 ELSE entry.pts
  IN  Xor[entry.track[1] * SORT_KEY_SPAN, pts]

SeekIndexStatus(body, tracks, offset) ==
  LET e == body.entries
      bad == {i \in DOMAIN e :
                \/ ~tide_find_track(tracks, e[i].track)
                \/ e[i].group_offset < TIDE_HEADER_SIZE
                \/ e[i].record_offset < e[i].group_offset
                \/ e[i].record_offset >= offset
                \/ i # 1 /\ SortKey(e[i]) < SortKey(e[i-1])}
  IN  TableStatus(body, IF body.layout THEN "OK" ELSE "INDEX",
                  bad, "INDEX", "INDEX")

CheckpointStatus(body, tracks, offset) ==
  LET head == IF \/ ~body.layout
                 \/ body.prefix_offset > offset
                 \/ body.count > limits.max_tracks
              THEN "FORMAT" ELSE "OK"
      bad == {i \in DOMAIN body.entries : ~tide_find_track(tracks, body.entries[i])}
  IN  TableStatus(body, head, bad, "FORMAT", "FORMAT")

IndexDirectoryStatus(body, offset) ==
  LET e == body.entries
      bad == {i \in DOMAIN e :
                \/ e[i].start_time < 0
                \/ e[i].end_time < e[i].start_time
                \/ e[i].offset < TIDE_HEADER_SIZE
                \/ e[i].offset >= offset
                \/ i # 1 /\ e[i].generation <= e[i-1].generation
                \/ i # 1 /\ e[i].start_time < e[i-1].end_time}
  IN  TableStatus(body, IF body.layout THEN "OK" ELSE "INDEX",
                  bad, "INDEX", "INDEX")

\* body.digest says whether the stored digest is that of the bytes before the
\* footer.
FooterStatus(body, offset, crc_end) ==
  IF \/ ~body.layout
     \/ body.file_length # crc_end
     \/ /\ body.index_directory_offset # 0
        /\ \/ body.index_directory_offset < TIDE_HEADER_SIZE
           \/ body.index_directory_offset >= offset
  THEN "FORMAT"
  ELSE IF ~body.digest THEN "INTEGRITY" ELSE "OK"

tide_emit_simple_record(f, offset, tracks) ==
  CASE f.type = "PACKET_TABLE"    -> PacketTableStatus(f.body, tracks)
    [] f.type = "EDIT_LIST"       -> EditListStatus(f.body, tracks)
    [] f.type = "DISCONTINUITY"   -> DiscontinuityStatus(f.body, tracks)
    [] f.type = "SEEK_INDEX"      -> SeekIndexStatus(f.body, tracks, offset)
    [] f.type = "CHECKPOINT"      -> CheckpointStatus(f.body, tracks, offset)
    [] f.type = "INDEX_DIRECTORY" -> IndexDirectoryStatus(f.body, offset)
    [] f.type = "FOOTER"          -> FooterStatus(f.body, offset,
                                                  CrcEnd(f, offset))

\* What tide_emit_stream finds before it touches the track table.
StreamDescStatus(body) ==
  IF ~body.layout THEN "FORMAT"
  ELSE IF ~body.time_base_valid THEN "TIMELINE" ELSE "OK"

\* Mutant: the packet's track is not looked up.
PacketStatusUntracked(body, tracks) ==
  IF ~body.layout THEN "FORMAT"
  ELSE IF body.duration < 0 THEN "TIMELINE" ELSE "OK"

\* What tide_emit_packet finds before it calls on_packet.
PacketStatus(body, tracks) ==
  IF ~body.layout THEN "FORMAT"
  ELSE IF body.duration < 0 THEN "TIMELINE"
  ELSE IF ~tide_find_track(tracks, body.track) THEN "FORMAT" ELSE "OK"

\* Mutant: the depth limit is off by one.
GroupStatusDeeper(f, depth) ==
  IF f.payload_size < TIDE_GROUP_META_SIZE THEN "FORMAT"
  ELSE IF f.body.child_bytes # f.payload_size - TIDE_GROUP_META_SIZE
  THEN "FORMAT"
  ELSE IF depth > limits.max_depth THEN "RESOURCE" ELSE "OK"

\* What tide_process_record finds in a GROUP before it parses the children.
GroupStatus(f, depth) ==
  IF f.payload_size < TIDE_GROUP_META_SIZE THEN "FORMAT"
  ELSE IF f.body.child_bytes # f.payload_size - TIDE_GROUP_META_SIZE
  THEN "FORMAT"
  ELSE IF depth >= limits.max_depth THEN "RESOURCE" ELSE "OK"

\* An activation of tide_parse_records: its cursor and the end of its window.
Activation == [cursor: Nat, end: Nat]

=============================================================================
