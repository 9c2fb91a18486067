-------------------------------- MODULE Mux --------------------------------
(****************************************************************************)
(* The muxer of src/mux/mux.c with the record writer of src/format/writer.c.*)
(* A file is built in a byte buffer and written to disk by tide_mux_close;  *)
(* its path is truncated by tide_mux_create already.                        *)
(*                                                                          *)
(* The buffer is abstracted to the records in it.  tide_write_record makes  *)
(* four appends, of the prefix, the payload, the padding and the CRC, and   *)
(* returns at the first that fails: the entry of a record says how many of  *)
(* its four parts are in the buffer, and a torn one is never taken out.     *)
(****************************************************************************)
EXTENDS ByteBuffer, Varint

CONSTANTS
  STREAM_FIXED_SIZE,       \* 24: a descriptor's payload up to its config
  TIDE_PACKET_FIXED_SIZE,  \* 44: a packet's payload up to its bytes
  FOOTER_PAYLOAD_SIZE,     \* 49
  MUX_ALIGNMENT_LOG2,      \* 3
  MAX_RECORD_HINT,         \* 64 MiB, what tide_write_header puts in the header
  Path,                    \* the names of files
  IoFails                  \* whether fopen, fwrite, fread or fclose may fail

ASSUME MuxAssumption ==
  /\ MUX_ALIGNMENT_LOG2 \in 0..4
  /\ STREAM_FIXED_SIZE \in Nat /\ TIDE_PACKET_FIXED_SIZE \in Nat
  /\ FOOTER_PAYLOAD_SIZE \in Nat /\ MAX_RECORD_HINT \in Nat
  /\ IoFails \in BOOLEAN

VARIABLES
  disk,      \* [Path -> the file there]
  mux,       \* struct tide_mux; open says whether the handle is not NULL
  returned,  \* the status the last call returned
  accepted   \* the descriptors and packets the calls on mux returned OK for

muxVars == <<disk, mux, returned, accepted>>

------------------------------------------------------------------------------
(* src/format/writer.c *)

\* The record that tide_write_record lays out for a payload of n bytes; body is
\* what a reader finds in the payload.
Record(type, sequence, n, body) ==
  LET header_size == RECORD_FIXED_SIZE + tide_uleb128_size[n]
                       + tide_uleb128_size[sequence]
  IN  [type |-> type, varints |-> TRUE, prefix_size |-> header_size,
       header_size |-> header_size, alignment_log2 |-> MUX_ALIGNMENT_LOG2,
       payload_size |-> n, integrity |-> "OK", sequence |-> sequence, body |-> body]

\* Where the prefix, the payload, the padding and the CRC of record r end.
PartEnds(r) == <<r.header_size, UnpaddedSize(r), PaddingEnd(r, 0), CrcEnd(r, 0)>>
Extent(r, parts) == IF parts = 0 THEN 0 ELSE PartEnds(r)[parts]

\* How many parts of r may reach a buffer of the given size: all four, or those
\* before an append that may fail.
tide_write_record(r, size, aggregate_limit) ==
  IF UnpaddedSize(r) + Alignment(r) - 1 > U64_MAX THEN {0}
  ELSE {k \in 0..4 :
          /\ WithinLimit(size, Extent(r, k), aggregate_limit)
          /\ k < 4 => AppendMayFail(size + Extent(r, k),
                                    Extent(r, k + 1) - Extent(r, k), aggregate_limit)}

\* The sizes of the payloads that tide_encode_stream_payload and
\* tide_encode_packet_payload build.
StreamPayloadSize(s) == STREAM_FIXED_SIZE + tide_uleb128_size[s.bytes] + s.bytes
PacketPayloadSize(p) == TIDE_PACKET_FIXED_SIZE + tide_uleb128_size[p.bytes] + p.bytes

------------------------------------------------------------------------------
(* Files.  media names a sample of Media; "written" is what a muxer wrote, and *)
(* holds is a history: what that muxer had accepted.                           *)

NoFile == [media |-> "absent", records |-> <<>>, size |-> 0, holds |-> <<>>]
Sample(m) == [NoFile EXCEPT !.media = m, !.size = Media[m].size]
WrittenFile(records, n, holds) ==
  [media |-> "written", records |-> records, size |-> n, holds |-> holds]
Truncated(path) == disk' = [disk EXCEPT ![path] = WrittenFile(<<>>, 0, <<>>)]

\* What is read where the muxer wrote no record, and where it left a torn one:
\* other bytes stand where its CRC should be.
NoRecord == [Record("UNKNOWN", 0, 0, <<>>) EXCEPT !.varints = FALSE]
ReadBack(entry) ==
  IF entry.parts = 4 THEN entry.record
  ELSE [entry.record EXCEPT !.integrity = "INTEGRITY"]
FrameAt(records, o) ==
  IF \E i \in DOMAIN records : records[i].at = o
  THEN ReadBack(records[CHOOSE i \in DOMAIN records : records[i].at = o])
  ELSE NoRecord

\* The bytes of a file, as TideFormat describes them.
FileBytes(f) ==
  IF f.media = "written"
  THEN [size |-> f.size, header |-> [fails |-> {}, max_record_hint |-> MAX_RECORD_HINT],
        frame |-> [o \in 0..f.size |-> FrameAt(f.records, o)]]
  ELSE [size |-> f.size, header |-> Media[f.media].header, frame |-> Media[f.media].frame]

------------------------------------------------------------------------------
(* src/mux/mux.c *)

NoMux == [open |-> FALSE, path |-> "none", write_footer |-> FALSE, sequence |-> 0,
          size |-> 0, records |-> <<>>]

\* The path is truncated before the header is known to be acceptable, and stays
\* so when it is not.
tide_mux_create(path, write_footer, base_valid) ==
  /\ ~mux.open
  /\ accepted' = <<>>
  /\ \/ /\ AllocationsFail /\ returned' = "RESOURCE"
        /\ UNCHANGED <<disk, mux>>
     \/ /\ IoFails /\ returned' = "IO"
        /\ UNCHANGED <<disk, mux>>
     \/ /\ ~base_valid /\ returned' = "INVALID_ARGUMENT"
        /\ Truncated(path)
        /\ UNCHANGED mux
     \/ /\ base_valid /\ returned' = "RESOURCE"
        /\ AppendMayFail(0, TIDE_HEADER_SIZE, limits.max_aggregate_alloc)
        /\ Truncated(path)
        /\ UNCHANGED mux
     \/ /\ base_valid /\ returned' = "OK"
        /\ WithinLimit(0, TIDE_HEADER_SIZE, limits.max_aggregate_alloc)
        /\ Truncated(path)
        /\ mux' = [open |-> TRUE, path |-> path, write_footer |-> write_footer,
                   sequence |-> 0, size |-> TIDE_HEADER_SIZE, records |-> <<>>]

\* Mutant: a record that could not be written keeps its sequence number free.
WithRecordReused(r, k) ==
  [mux EXCEPT !.sequence = IF k = 4 THEN @ + 1 ELSE @,
              !.size = @ + Extent(r, k),
              !.records = IF k = 0 THEN @
                          ELSE Append(@, [at |-> mux.size, parts |-> k, record |-> r])]

\* The muxer after k parts of record r were appended.
WithRecord(r, k) ==
  [mux EXCEPT !.sequence = @ + 1,
              !.size = @ + Extent(r, k),
              !.records = IF k = 0 THEN @
                          ELSE Append(@, [at |-> mux.size, parts |-> k, record |-> r])]

\* Mutant: an item that could not be encoded is reported as written.
WriteItemUnchecked(type, item, n) ==
  \/ /\ AppendMayFail(0, n, limits.max_single_alloc)
     /\ returned' = "OK"
     /\ accepted' = Append(accepted, item)
     /\ UNCHANGED mux
  \/ /\ WithinLimit(0, n, limits.max_single_alloc)
     /\ LET r == Record(type, mux.sequence, n, item)
        IN  \E k \in tide_write_record(r, mux.size, limits.max_aggregate_alloc) :
              /\ mux' = WithRecord(r, k)
              /\ returned' = IF k = 4 THEN "OK" ELSE "RESOURCE"
              /\ accepted' = IF k = 4 THEN Append(accepted, item) ELSE accepted

\* The common part of tide_mux_add_stream and tide_mux_write_packet, for an item
\* with a payload of n bytes: it is encoded into a buffer of its own, and a record
\* is written only if that succeeds.
WriteItem(type, item, n) ==
  \/ /\ AppendMayFail(0, n, limits.max_single_alloc)
     /\ returned' = "RESOURCE"
     /\ UNCHANGED <<mux, accepted>>
  \/ /\ WithinLimit(0, n, limits.max_single_alloc)
     /\ LET r == Record(type, mux.sequence, n, item)
        IN  \E k \in tide_write_record(r, mux.size, limits.max_aggregate_alloc) :
              /\ mux' = WithRecord(r, k)
              /\ returned' = IF k = 4 THEN "OK" ELSE "RESOURCE"
              /\ accepted' = IF k = 4 THEN Append(accepted, item) ELSE accepted

InvalidItem ==
  returned' = "INVALID_ARGUMENT" /\ UNCHANGED <<mux, accepted>>

tide_mux_add_stream(s) ==
  /\ mux.open
  /\ IF s.time_base_valid THEN WriteItem("STREAM_DESC", s, StreamPayloadSize(s))
     ELSE InvalidItem
  /\ UNCHANGED disk

\* Whatever it returns, the packet's reference is reset: it is the muxer's now.
tide_mux_write_packet(p) ==
  /\ mux.open
  /\ IF p.duration >= 0 THEN WriteItem("PACKET", p, PacketPayloadSize(p))
     ELSE InvalidItem
  /\ UNCHANGED disk

\* Mutant: the trial footer takes a sequence number of its own.
FinalLengthNext ==
  mux.size + CrcEnd(Record("FOOTER", mux.sequence + 1, FOOTER_PAYLOAD_SIZE, <<>>), 0)

\* final_length, from a trial footer with an empty payload.
FinalLength ==
  mux.size + CrcEnd(Record("FOOTER", mux.sequence, FOOTER_PAYLOAD_SIZE, <<>>), 0)

\* The footer is written to a buffer of its own and appended as a whole.
FooterRecord ==
  Record("FOOTER", mux.sequence, FOOTER_PAYLOAD_SIZE,
         [layout |-> TRUE, file_length |-> FinalLength, index_directory_offset |-> 0,
          digest |-> TRUE])
FooterMayFail ==
  \/ AppendMayFail(0, CrcEnd(FooterRecord, 0), limits.max_single_alloc)
  \/ AppendMayFail(mux.size, CrcEnd(FooterRecord, 0), limits.max_aggregate_alloc)
FooterFits ==
  /\ WithinLimit(0, CrcEnd(FooterRecord, 0), limits.max_single_alloc)
  /\ WithinLimit(mux.size, CrcEnd(FooterRecord, 0), limits.max_aggregate_alloc)

\* What tide_mux_close hands to fwrite.
Finished == IF mux.write_footer THEN WithRecord(FooterRecord, 4) ELSE mux

\* Where a write of the finished file f may stop: where in a part of a record makes
\* no difference to a reader.
StopPoints(f) ==
  {0, 1, TIDE_HEADER_SIZE, f.size}
    \cup {f.records[i].at + Extent(f.records[i].record, k) :
             i \in DOMAIN f.records, k \in 1..4}

\* The first n bytes of the finished file f are on disk.
Flushed(f, n) ==
  disk' = [disk EXCEPT ![f.path] = WrittenFile(f.records, n, accepted)]

\* Some of the finished file f is on disk.
PartlyFlushed(f) == \E n \in StopPoints(f) \cap 0..f.size : Flushed(f, n)

\* A footer that fails leaves the file empty; fwrite and fclose may fail after any
\* number of bytes.
tide_mux_close ==
  /\ mux.open
  /\ mux' = NoMux
  /\ \/ /\ mux.write_footer /\ FooterMayFail
        /\ returned' = "RESOURCE"
        /\ UNCHANGED disk
     \/ /\ mux.write_footer => FooterFits
        /\ Flushed(Finished, Finished.size) /\ returned' = "OK"
     \/ /\ mux.write_footer => FooterFits
        /\ IoFails /\ returned' = "IO"
        /\ PartlyFlushed(Finished)
  /\ UNCHANGED accepted

\* The truncated file stays on disk.
tide_mux_abort ==
  /\ mux.open
  /\ mux' = NoMux
  /\ UNCHANGED <<disk, returned, accepted>>

=============================================================================
