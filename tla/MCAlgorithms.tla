---------------------------- MODULE MCAlgorithms ----------------------------
(****************************************************************************)
(* Arguments for Algorithms: 6-bit integers in the place of int64_t, 3-bit  *)
(* ones in the place of uint32_t, and 5-bit ULEB128 integers of up to three *)
(* bytes of two bits each.                                                  *)
(****************************************************************************)
EXTENDS Algorithms

MCLimits ==
  [max_record_size |-> 9, max_payload_size |-> 9, max_single_alloc |-> 9,
   max_aggregate_alloc |-> 9, max_depth |-> 2, max_tracks |-> 2,
   max_edit_entries |-> 2, max_packet_table_entries |-> 2]
NoMedia == <<>>

TimeBases == {0, 1, 3, 4, 7} \X {1, 2, 6, 7}
SomeConversions ==
  [value: I64, source: TimeBases, destination: TimeBases, rounding: Rounding]

\* Edits at both ends of the range and next to each other, two at most.
SomeEdits ==
  [source_start: {-32, -1, 2, 29}, output_start: {-32, 0, 3, 29},
   output_duration: {-1, 0, 3, 31}, rate: {<<1, 1>>}]
    \cup [source_start: {0}, output_start: {0}, output_duration: {3}, rate: {<<2, 2>>, <<2, 1>>}]
SomeProjections ==
  [edits: {<<>>} \cup {<<e>> : e \in SomeEdits} \cup {<<e, f>> : e \in SomeEdits, f \in SomeEdits},
   pts: {-32, 0, 1, 28}, duration: {-1, 0, 2, 31}]

SomeByteStrings == UNION {[1..n -> Byte] : n \in 0..4}

SeekEntries == [track: {<<1, 1>>, <<2, 1>>}, pts: {-2, -1, 0, 1, 3, 4, 7},
                group_offset: {TIDE_HEADER_SIZE}, record_offset: {TIDE_HEADER_SIZE}]
SomeSeekIndexes == UNION {[1..n -> SeekEntries] : n \in 0..3}

SomeAdditions == UNION {[1..n -> [record_offset: 1..3, fails: BOOLEAN]] : n \in 0..4}

=============================================================================
