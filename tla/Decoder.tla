------------------------------- MODULE Decoder -------------------------------
(****************************************************************************)
(* tide_decoder: the incremental decoder of src/format/decoder.c.           *)
(*                                                                          *)
(* A caller feeds a byte stream chunk by chunk.  tide_decoder_feed appends  *)
(* the chunk to a buffer, resumes tide_parse_records at parse_offset, calls *)
(* back for each record and returns.  A feed is one FeedXxx step that       *)
(* enters the call, one step for each record the recursive parser visits    *)
(* and one FeedReturn step that leaves it, because the callbacks in between *)
(* see the decoder's state and may call tide_decoder_cancel.                *)
(*                                                                          *)
(* The C call stack of tide_parse_records is the sequence stack: one        *)
(* [cursor, end] for each activation, the outermost first.  The record an   *)
(* outer activation is inside of is the GROUP at its cursor.                *)
(****************************************************************************)
EXTENDS ByteBuffer

CONSTANTS
  DEPTH_SPAN,       \* 2^8: depth is a uint8_t
  CallbackStatus,   \* what the user's callbacks may return
  CallbacksCancel   \* whether a callback may call tide_decoder_cancel

ASSUME DecoderAssumption ==
  /\ DEPTH_SPAN \in Nat \ {0} /\ TRACKS_FIRST \in Nat \ {0}
  /\ CallbackStatus \subseteq Status
  /\ CallbacksCancel \in BOOLEAN

VARIABLES
  file,              \* the byte stream the caller reads from
  alive,             \* decoder->impl is not NULL
  size,              \* impl->buffer.size: the first size bytes of file
  parse_offset, valid_prefix, cancelled, terminal, header_validated,
  error,             \* impl->error.code
  tracks,            \* impl->tracks[0 .. track_count - 1]
  track_capacity,
  pc,                \* "idle" between calls; "parse", "return" inside a feed
  final,             \* the end argument of that feed
  stack,             \* the activations of tide_parse_records
  status,            \* the status last returned, by the parser or by a call
  events             \* the callbacks made so far, in order

impl == <<size, parse_offset, valid_prefix, terminal, header_validated, error,
          tracks, track_capacity>>
vars == <<file, alive, impl, cancelled, pc, final, stack, status, events>>

Bytes == Media[file]
Frame(o) == Bytes.frame[o]
Event(callback, offset) == [cb |-> callback, at |-> offset]

Depth == (Len(stack) - 1) % DEPTH_SPAN      \* (uint8_t)(depth + 1) per level
Top == stack[Len(stack)]
Cursor == Top.cursor

------------------------------------------------------------------------------
(* tide_decoder_feed up to the call of tide_parse_records *)

FeedRejected ==
  /\ pc = "idle"
  /\ ~alive \/ cancelled \/ terminal
  /\ status' = IF alive /\ cancelled THEN "CANCELLED" ELSE "INVALID_ARGUMENT"
  /\ UNCHANGED <<file, alive, impl, cancelled, pc, final, stack, events>>

\* Mutant: a finished decoder takes more bytes.
FeedingUnsealed(n) ==
  /\ pc = "idle"
  /\ alive /\ ~cancelled
  /\ size + n <= Bytes.size

\* A call that passes the early returns with a chunk of n bytes.
Feeding(n) ==
  /\ pc = "idle"
  /\ alive /\ ~cancelled /\ ~terminal
  /\ size + n <= Bytes.size

\* Mutant: the limit is compared with the chunk instead of the buffer.
FitsChunk(n) == WithinLimit(0, n, limits.max_aggregate_alloc)

Fits(n) == WithinLimit(size, n, limits.max_aggregate_alloc)

\* The append fails: nothing is consumed and the decoder stays usable.
FeedNoRoom(n) ==
  /\ Feeding(n)
  /\ AppendMayFail(size, n, limits.max_aggregate_alloc)
  /\ status' = "RESOURCE"
  /\ UNCHANGED <<file, alive, impl, cancelled, pc, final, stack, events>>

HeaderStatus(n) ==
  IF header_validated THEN "OK" ELSE tide_validate_header(Bytes.header, size + n)

\* Too little for the header, and more may come.
FeedShortHeader(n) ==
  /\ Feeding(n) /\ Fits(n)
  /\ HeaderStatus(n) = "TRUNCATED"
  /\ size' = size + n
  /\ status' = "OK"
  /\ UNCHANGED <<file, alive, parse_offset, valid_prefix, cancelled, terminal,
                 header_validated, error, tracks, track_capacity, pc, final,
                 stack, events>>

\* The header is rejected.  on_error is called unless this feed is the last.
FeedBadHeader(n, end) ==
  /\ Feeding(n) /\ Fits(n)
  /\ HeaderStatus(n) # "OK"
  /\ end \/ HeaderStatus(n) # "TRUNCATED"
  /\ size' = size + n
  /\ error' = HeaderStatus(n)
  /\ terminal' = TRUE
  /\ status' = IF HeaderStatus(n) = "TRUNCATED" THEN "PARTIAL"
               ELSE HeaderStatus(n)
  /\ events' = IF end THEN events ELSE Append(events, Event("error", 0))
  /\ UNCHANGED <<file, alive, parse_offset, valid_prefix, cancelled,
                 header_validated, tracks, track_capacity, pc, final, stack>>

\* Mutant: every feed starts over at the first record.
AfterHeaderAlways(field) == TIDE_HEADER_SIZE

\* parse_offset and valid_prefix are set when the header has been accepted.
AfterHeader(field) == IF header_validated THEN field ELSE TIDE_HEADER_SIZE

\* The header is, or already was, accepted: the parser is entered.
FeedParse(n, end) ==
  /\ Feeding(n) /\ Fits(n)
  /\ HeaderStatus(n) = "OK"
  /\ size' = size + n
  /\ header_validated' = TRUE
  /\ parse_offset' = AfterHeader(parse_offset)
  /\ valid_prefix' = AfterHeader(valid_prefix)
  /\ stack' = <<[cursor |-> parse_offset', end |-> size']>>
  /\ pc' = "parse"
  /\ final' = end
  /\ UNCHANGED <<file, alive, cancelled, terminal, error, tracks,
                 track_capacity, status, events>>

------------------------------------------------------------------------------
(* tide_parse_records and tide_process_record, one record at a time *)

\* Mutant: the GROUP turns TRUNCATED into FORMAT without recording it.
ParserFailsUnrecorded(s, err) ==
  /\ status' = IF s = "TRUNCATED" /\ Len(stack) > 1 THEN "FORMAT" ELSE s
  /\ error' = err
  /\ pc' = "return"
  /\ stack' = <<>>

\* The parser returns s through every activation.  A TRUNCATED that reaches the
\* GROUP around it becomes FORMAT; err is what the failing check left in
\* impl->error.
ParserFails(s, err) ==
  LET nested == s = "TRUNCATED" /\ Len(stack) > 1
  IN  /\ status' = IF nested THEN "FORMAT" ELSE s
      /\ error' = IF nested THEN "FORMAT" ELSE err
      /\ pc' = "return"
      /\ stack' = <<>>

\* Mutant: the valid prefix stops before the record's CRC.
AdvanceBeforeCrc(level) ==
  LET o == stack[level].cursor
      next == CrcEnd(Frame(o), o)
  IN  /\ stack' = [i \in 1..level |->
                     IF i = level THEN [stack[i] EXCEPT !.cursor = next]
                     ELSE stack[i]]
      /\ valid_prefix' = PaddingEnd(Frame(o), o)
      /\ UNCHANGED <<pc, status, error>>

\* cursor = frame.crc_end; *valid_prefix = cursor in the activation at level.
Advance(level) ==
  LET o == stack[level].cursor
      next == CrcEnd(Frame(o), o)
  IN  /\ stack' = [i \in 1..level |->
                     IF i = level THEN [stack[i] EXCEPT !.cursor = next]
                     ELSE stack[i]]
      /\ valid_prefix' = next
      /\ UNCHANGED <<pc, status, error>>

\* tide_process_record returned s for the record at the cursor.
Settle(s, err) ==
  \/ s = "OK" /\ Advance(Len(stack))
  \/ s # "OK" /\ ParserFails(s, err) /\ UNCHANGED valid_prefix

AtRecord == pc = "parse" /\ Cursor < Top.end
RecordCheck == CheckRecord(Frame(Cursor), Cursor, Top.end)

\* Mutant: the loop waits for the rest of the record.
RecordAwaited ==
  /\ AtRecord /\ RecordCheck = "TRUNCATED"
  /\ valid_prefix' = Cursor
  /\ UNCHANGED <<file, alive, size, parse_offset, cancelled, terminal,
                 header_validated, error, tracks, track_capacity, pc, final,
                 stack, status, events>>

RecordTruncated ==
  /\ AtRecord /\ RecordCheck = "TRUNCATED"
  /\ valid_prefix' = Cursor
  /\ ParserFails("TRUNCATED", error)
  /\ UNCHANGED <<file, alive, size, parse_offset, cancelled, terminal,
                 header_validated, tracks, track_capacity, final, events>>

RecordRejected ==
  /\ AtRecord /\ RecordCheck \notin {"OK", "TRUNCATED"}
  /\ ParserFails(RecordCheck, RecordCheck)
  /\ UNCHANGED <<file, alive, size, parse_offset, valid_prefix, cancelled,
                 terminal, header_validated, tracks, track_capacity, final,
                 events>>

\* The record passed every check, on_record is called, and so are the
\* callbacks in more; any of them may have cancelled.
Callbacks(more) ==
  /\ AtRecord /\ RecordCheck = "OK"
  /\ events' = Append(events, Event("record", Cursor)) \o more
  /\ cancelled' \in {cancelled, cancelled \/ CallbacksCancel}
  /\ UNCHANGED <<file, alive, size, parse_offset, terminal, header_validated,
                 final>>

OnRecordFails ==
  /\ Callbacks(<<>>)
  /\ \E c \in CallbackStatus \ {"OK"} : ParserFails(c, error)
  /\ UNCHANGED <<valid_prefix, tracks, track_capacity>>

\* From here on on_record returned OK.
OnRecordOk(types) == "OK" \in CallbackStatus /\ Frame(Cursor).type \in types

SkipRecord ==
  /\ Callbacks(<<>>)
  /\ OnRecordOk({"SKIPPABLE"})
  /\ Advance(Len(stack))
  /\ UNCHANGED <<tracks, track_capacity>>

UnknownRecord ==
  /\ Callbacks(<<>>)
  /\ OnRecordOk({"UNKNOWN"})
  /\ ParserFails("UNSUPPORTED", "UNSUPPORTED")
  /\ UNCHANGED <<valid_prefix, tracks, track_capacity>>

SimpleRecord ==
  LET s == tide_emit_simple_record(Frame(Cursor), Cursor, tracks)
  IN  /\ Callbacks(<<>>)
      /\ OnRecordOk(SimpleType)
      /\ Settle(s, s)
      /\ UNCHANGED <<tracks, track_capacity>>

\* Mutant: the children may use all of the window the group is in.
ChildWindowOfParent(f) ==
  [cursor |-> PayloadOffset(f, Cursor) + TIDE_GROUP_META_SIZE, end |-> Top.end]

\* child_begin and child_end of the group f at the cursor.
ChildWindow(f) ==
  [cursor |-> PayloadOffset(f, Cursor) + TIDE_GROUP_META_SIZE,
   end    |-> PayloadEnd(f, Cursor)]

EnterGroup ==
  LET f == Frame(Cursor)
  IN  /\ Callbacks(<<>>)
      /\ OnRecordOk({"GROUP"})
      /\ GroupStatus(f, Depth) = "OK"
      /\ stack' = Append(stack, ChildWindow(f))
      /\ UNCHANGED <<valid_prefix, error, tracks, track_capacity, pc, status>>

BadGroup ==
  LET s == GroupStatus(Frame(Cursor), Depth)
  IN  /\ Callbacks(<<>>)
      /\ OnRecordOk({"GROUP"})
      /\ s # "OK"
      /\ ParserFails(s, s)
      /\ UNCHANGED <<valid_prefix, tracks, track_capacity>>

\* Mutant: the table is not searched for the track.
AddTrackUnsearched(track) ==
  IF Len(tracks) >= limits.max_tracks THEN "RESOURCE" ELSE "OK"

\* tide_add_track, up to the growth of the table.
AddTrackStatus(track) ==
  IF tide_find_track(tracks, track) THEN "FORMAT"
  ELSE IF Len(tracks) >= limits.max_tracks THEN "RESOURCE" ELSE "OK"

StreamStatus ==
  LET body == Frame(Cursor).body
  IN  IF StreamDescStatus(body) # "OK" THEN StreamDescStatus(body)
      ELSE AddTrackStatus(body.track)

StreamRejected ==
  /\ Callbacks(<<>>)
  /\ OnRecordOk({"STREAM_DESC"})
  /\ StreamStatus # "OK"
  /\ ParserFails(StreamStatus, StreamStatus)
  /\ UNCHANGED <<valid_prefix, tracks, track_capacity>>

\* realloc fails.  tide_add_track returns RESOURCE without recording it, and
\* tide_emit_stream returns error->code, which no check has set.
StreamNoMemory ==
  /\ Callbacks(<<>>)
  /\ OnRecordOk({"STREAM_DESC"})
  /\ StreamStatus = "OK"
  /\ AllocationsFail /\ Len(tracks) = track_capacity
  /\ Settle(error, error)
  /\ UNCHANGED <<tracks, track_capacity>>

StreamAdded ==
  /\ Callbacks(<<Event("stream", Cursor)>>)
  /\ OnRecordOk({"STREAM_DESC"})
  /\ StreamStatus = "OK"
  /\ tracks' = Append(tracks, Frame(Cursor).body.track)
  /\ track_capacity' = IF Len(tracks) < track_capacity THEN track_capacity
                       ELSE IF track_capacity = 0 THEN TRACKS_FIRST
                       ELSE 2 * track_capacity
  /\ \E c \in CallbackStatus : Settle(c, error)

PacketRejected ==
  LET s == PacketStatus(Frame(Cursor).body, tracks)
  IN  /\ Callbacks(<<>>)
      /\ OnRecordOk({"PACKET"})
      /\ s # "OK"
      /\ ParserFails(s, s)
      /\ UNCHANGED <<valid_prefix, tracks, track_capacity>>

PacketEmitted ==
  /\ Callbacks(<<Event("packet", Cursor)>>)
  /\ OnRecordOk({"PACKET"})
  /\ PacketStatus(Frame(Cursor).body, tracks) = "OK"
  /\ \E c \in CallbackStatus : Settle(c, error)
  /\ UNCHANGED <<tracks, track_capacity>>

\* Mutant: the outermost activation is left on the stack when it returns.
LevelLeftOpen ==
  /\ pc = "parse" /\ Cursor >= Top.end
  /\ IF Cursor # Top.end
     THEN ParserFails("FORMAT", "FORMAT") /\ UNCHANGED valid_prefix
     ELSE IF Len(stack) > 1 THEN Advance(Len(stack) - 1)
     ELSE status' = "OK" /\ pc' = "return" /\ UNCHANGED <<stack, valid_prefix, error>>
  /\ UNCHANGED <<file, alive, size, parse_offset, cancelled, terminal,
                 header_validated, tracks, track_capacity, final, events>>

\* The loop of the innermost activation ends: the children of a GROUP are done
\* and the activation around it moves past the group, or the outermost returns.
LevelDone ==
  /\ pc = "parse" /\ Cursor >= Top.end
  /\ IF Cursor # Top.end
     THEN ParserFails("FORMAT", "FORMAT") /\ UNCHANGED valid_prefix
     ELSE IF Len(stack) > 1 THEN Advance(Len(stack) - 1)
     ELSE /\ status' = "OK"
          /\ pc' = "return"
          /\ stack' = <<>>
          /\ UNCHANGED <<valid_prefix, error>>
  /\ UNCHANGED <<file, alive, size, parse_offset, cancelled, terminal,
                 header_validated, tracks, track_capacity, final, events>>

------------------------------------------------------------------------------
(* The rest of tide_decoder_feed, and the other calls *)

\* Mutant: a parse that reached the end of the buffer does not move parse_offset.
ResumeAtStart ==
  IF status = "TRUNCATED" /\ ~final THEN valid_prefix ELSE parse_offset

\* Mutant: the incomplete record at the end of the buffer is skipped.
ResumeAfterTail ==
  IF status \in {"OK", "TRUNCATED"} THEN size ELSE parse_offset

\* Where the next feed goes on parsing.
Resume ==
  IF status = "OK" THEN size
  ELSE IF status = "TRUNCATED" /\ ~final THEN valid_prefix ELSE parse_offset

\* What the feed returns for what the parser returned.
Returned ==
  IF status # "TRUNCATED" THEN status ELSE IF final THEN "PARTIAL" ELSE "OK"

Failed == Returned # "OK" /\ ~(final /\ Returned = "PARTIAL")

\* Mutant: only the last feed finishes the decoder.
FinishedAtEnd == final

Finished == final \/ Failed

\* (An on_error that calls tide_decoder_cancel is a tide_decoder_cancel right after
\* the return: nothing in between reads the flag.)
FeedReturn ==
  /\ pc = "return"
  /\ pc' = "idle"
  /\ status' = Returned
  /\ terminal' = Finished
  /\ parse_offset' = Resume
  /\ events' = IF Failed THEN Append(events, Event("error", 0)) ELSE events
  /\ UNCHANGED <<file, alive, size, valid_prefix, cancelled, header_validated,
                 error, tracks, track_capacity, final, stack>>

tide_decoder_cancel ==
  /\ pc = "idle" /\ alive
  /\ cancelled' = TRUE
  /\ UNCHANGED <<file, alive, impl, pc, final, stack, status, events>>

tide_decoder_destroy ==
  /\ pc = "idle" /\ alive
  /\ alive' = FALSE
  /\ UNCHANGED <<file, impl, cancelled, pc, final, stack, status, events>>

------------------------------------------------------------------------------
\* tide_decoder_init; when its allocation fails decoder->impl stays NULL.
Init ==
  /\ file \in DOMAIN Media
  /\ alive \in {TRUE, ~AllocationsFail}
  /\ size = 0 /\ parse_offset = 0 /\ valid_prefix = 0
  /\ cancelled = FALSE /\ terminal = FALSE /\ header_validated = FALSE
  /\ error = "OK"
  /\ tracks = <<>> /\ track_capacity = 0
  /\ pc = "idle" /\ final = FALSE /\ stack = <<>>
  /\ status = "OK"
  /\ events = <<>>

Feed ==
  \/ FeedRejected
  \/ \E n \in 0..Bytes.size :
       \/ FeedNoRoom(n)
       \/ FeedShortHeader(n)
       \/ \E end \in BOOLEAN : FeedBadHeader(n, end) \/ FeedParse(n, end)

\* What the library does inside a feed, once called.
Parse ==
  \/ RecordTruncated \/ RecordRejected
  \/ OnRecordFails \/ SkipRecord \/ UnknownRecord \/ SimpleRecord
  \/ EnterGroup \/ BadGroup
  \/ StreamRejected \/ StreamNoMemory \/ StreamAdded
  \/ PacketRejected \/ PacketEmitted
  \/ LevelDone \/ FeedReturn

Next == Feed \/ Parse \/ tide_decoder_cancel \/ tide_decoder_destroy

Spec == Init /\ [][Next]_vars

\* A feed that was entered runs to its return: the callbacks return and nothing
\* in the parser waits.
FairSpec == Spec /\ WF_vars(Parse)

------------------------------------------------------------------------------
(* Properties *)

\* Every variable has its type, and the parser is active exactly inside a feed.
TypeOK ==
  /\ file \in DOMAIN Media
  /\ alive \in BOOLEAN /\ cancelled \in BOOLEAN /\ terminal \in BOOLEAN
  /\ header_validated \in BOOLEAN /\ final \in BOOLEAN
  /\ size \in 0..Bytes.size
  /\ parse_offset \in Nat /\ valid_prefix \in Nat /\ track_capacity \in Nat
  /\ error \in Status /\ status \in Status
  /\ tracks \in Seq(Track)
  /\ pc \in {"idle", "parse", "return"}
  /\ stack \in Seq(Activation)
  /\ (pc = "parse") <=> (stack # <<>>)
  /\ events \in Seq([cb: {"record", "stream", "packet", "error"}, at: Nat])

\* The window of inner is the payload, after the group's own fields, of the
\* complete GROUP record of m at the cursor of outer.
Encloses(m, outer, inner) ==
  LET f == Media[m].frame[outer.cursor]
  IN  /\ f.type = "GROUP"
      /\ CheckRecord(f, outer.cursor, outer.end) = "OK"
      /\ PayloadOffset(f, outer.cursor) + TIDE_GROUP_META_SIZE <= inner.cursor
      /\ inner.end = PayloadEnd(f, outer.cursor)

\* No activation of tide_parse_records reads beyond its window, and the window
\* of each nested activation lies in the group of the one around it.
CursorInParent ==
  /\ \A i \in 1..Len(stack) :
       /\ TIDE_HEADER_SIZE <= stack[i].cursor
       /\ stack[i].cursor <= stack[i].end
       /\ stack[i].end <= size
  /\ \A i \in 1..(Len(stack) - 1) : Encloses(file, stack[i], stack[i+1])

\* The recursion of tide_parse_records is never deeper than limits.max_depth,
\* though the depth it compares is a uint8_t.
DepthBounded == Len(stack) <= limits.max_depth + 1

\* The decoder never buffers more than a nonzero limits.max_aggregate_alloc, not
\* even for a record whose declared size, which is checked only once the record is
\* complete, is beyond every limit.
BufferBounded ==
  limits.max_aggregate_alloc = 0 \/ size <= limits.max_aggregate_alloc

\* Between two feeds the decoder resumes where the complete prefix ends: no
\* byte before valid_prefix is parsed again and none after it is skipped.
ResumesAtPrefix ==
  pc = "idle" /\ header_validated /\ ~terminal =>
    parse_offset = valid_prefix /\ valid_prefix <= size

\* The track table holds no descriptor generation twice and never more than
\* limits.max_tracks, whatever a callback or an allocation does.
TrackTable ==
  /\ Len(tracks) <= limits.max_tracks
  /\ Len(tracks) <= track_capacity
  /\ \A i, j \in 1..Len(tracks) : tracks[i] = tracks[j] => i = j

\* Whenever on_packet is called, on_stream was called before for the same track
\* and generation.
PacketAfterStream ==
  \A i \in 1..Len(events) : events[i].cb = "packet" =>
    \E j \in 1..(i - 1) :
      /\ events[j].cb = "stream"
      /\ Frame(events[j].at).body.track = Frame(events[i].at).body.track

\* on_record is called for records in the order of their offsets and never
\* twice for one record, however the bytes are split.  (A callback that returns
\* TRUNCATED makes the decoder wait for more bytes and parse the record again.)
NoDuplicateCallback ==
  \A i, j \in 1..Len(events) :
    i < j /\ events[i].cb = "record" /\ events[j].cb = "record" =>
      events[i].at < events[j].at

\* on_error is called at most once, and no callback follows it.
ErrorIsLast ==
  \A i \in 1..Len(events) :
    events[i].cb = "error" => i = Len(events) /\ terminal

\* A decoder that is finished or cancelled calls nobody back, and no later call
\* changes what its accessors report: bytes, prefix, tracks and error. A destroyed
\* one calls nobody back either; its accessors report 0 and NULL from then on
\* (decoder.c:900), and the variables keep what they last held.
Sealed ==
  [][pc = "idle" /\ (terminal \/ cancelled \/ ~alive) =>
       UNCHANGED <<size, valid_prefix, tracks, events, error>>]_vars

\* The complete prefix that tide_decoder_valid_prefix reports never shrinks while the
\* decoder lives, not even while a group that later fails is parsed.
PrefixGrows == [][valid_prefix <= valid_prefix']_vars

\* A feed always returns.
FeedReturns == (pc # "idle") ~> (pc = "idle")

=============================================================================
