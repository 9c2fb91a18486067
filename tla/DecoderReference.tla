-------------------------- MODULE DecoderReference --------------------------
(****************************************************************************)
(* The incremental decoder compared with a single parse of the same bytes:  *)
(* what tide_parse_tide_bytes would have called back and returned.          *)
(****************************************************************************)
EXTENDS Decoder, ParseBytes

------------------------------------------------------------------------------
(* A single parse of the bytes given so far, and the callbacks compared *)

Reference == tide_parse_tide_bytes(Bytes, size)

\* The callbacks but for on_error, which may only be the last.
Reported == events # <<>> /\ events[Len(events)].cb = "error"
DataEvents == IF Reported THEN SubSeq(events, 1, Len(events) - 1) ELSE events

\* However the bytes were split into feeds, whenever a feed has returned the
\* callbacks made are exactly those of tide_parse_tide_bytes on the same bytes,
\* valid_prefix is the same, and so is the status if it is final: nothing is
\* repeated, lost, reordered or deferred at a chunk boundary.
SplitIndependent ==
  pc = "idle" /\ alive =>
    /\ DataEvents = Reference.events
    /\ valid_prefix = Reference.valid_prefix
    /\ tracks = Reference.tracks
    /\ IF terminal THEN status \in {Reference.status, "CANCELLED", "INVALID_ARGUMENT"}
       ELSE Reference.status \in {"OK", "PARTIAL"}

\* Unless a record was rejected, valid_prefix is the end of the last complete
\* record that is in no group, so a repair may cut the file there.
PrefixIsComplete ==
  pc = "idle" /\ header_validated /\ Reference.status \in {"OK", "PARTIAL"} =>
    valid_prefix = Reference.top

\* impl->error names the status of a decode that failed: a check never fails
\* without recording why, not even one inside a group.
ErrorRecorded ==
  pc = "idle" /\ terminal /\ Reference.status \notin {"OK", "PARTIAL"} =>
    error = Reference.status

------------------------------------------------------------------------------
(* The decoder implements DecoderContract *)

\* The callbacks of a single parse of the first n bytes of m, and its status.
Script(m, n) == tide_parse_tide_bytes(Media[m], n).events
Verdict(m, n) == tide_parse_tide_bytes(Media[m], n).status

\* What a finished decoder tells.
Told ==
  IF ~terminal THEN "none"
  ELSE IF error \notin {"OK", "TRUNCATED"} THEN error
  ELSE IF header_validated /\ valid_prefix = size THEN "OK" ELSE "PARTIAL"

Contract == INSTANCE DecoderContract WITH
  input <- file, given <- size, delivered <- DataEvents, verdict <- Told

\* The decoder implements DecoderContract: it makes the callbacks of a single parse
\* one record at a time, takes more bytes only when it has made them all, and when
\* it is finished tells the status of the single parse.
ImplementsContract == Contract!Spec

------------------------------------------------------------------------------
(* What the documents say and the decoder does not do *)

\* "It records the last complete prefix" (docs/ARCHITECTURE.md): after a rejected
\* record too, tide_decoder_valid_prefix is the end of the last complete record
\* that is in no group.
PrefixOutsideGroups ==
  pc = "idle" /\ header_validated => valid_prefix = Reference.top

\* "FOOTER ... Last complete record", whose file_length "rejects appended ...
\* final files" (04_tide_streaming_media_container.md): a stream that was decoded
\* to the end with OK has nothing after its footer.
FooterIsLast ==
  pc = "idle" /\ terminal /\ status = "OK" =>
    \A i \in 1..Len(events) :
      LET o == events[i].at
      IN  events[i].cb = "record" /\ Frame(o).type = "FOOTER" => CrcEnd(Frame(o), o) = size

\* "Feed segmentation cannot alter record callbacks, timestamps, or diagnostics"
\* (04_tide_streaming_media_container.md): on_error is called for every decode
\* that failed, whichever feed it failed in.
FailureReported ==
  pc = "idle" /\ terminal /\ Reference.status \notin {"OK", "PARTIAL"} =>
    \E i \in 1..Len(events) : events[i].cb = "error"

\* "partial and resource errors are explicit" (04_tide_streaming_media_container.md):
\* when a feed returns OK no descriptor was dropped for want of memory, so every one
\* it reported a record for is in the track table.
DescriptorsKept ==
  pc = "idle" /\ status = "OK" =>
    \A i \in 1..Len(events) :
      LET f == Frame(events[i].at)
      IN  events[i].cb = "record" /\ f.type = "STREAM_DESC" =>
            tide_find_track(tracks, f.body.track)

=============================================================================
