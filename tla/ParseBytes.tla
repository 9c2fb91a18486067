----------------------------- MODULE ParseBytes -----------------------------
(****************************************************************************)
(* tide_parse_tide_bytes: the whole byte stream parsed in one call, as the  *)
(* demuxer and the repair scanner do it, with callbacks that return OK.     *)
(* The C recursion is kept as recursion, so the incremental Decoder can be  *)
(* compared with it.                                                        *)
(****************************************************************************)
EXTENDS TideFormat

\* What a parse has done so far.  top is not in the code: it is the end of the
\* last complete record that is in no group.
Parsed == [status: Status, valid_prefix: Nat, tracks: Seq(Track),
           events: Seq([cb: {"record", "stream", "packet"}, at: Nat]), top: Nat]

\* What an array holds after the elements of s at the positions in chosen were
\* appended to it, one after another.
Kept(s, chosen) ==
  LET kept[n \in 0..Len(s)] ==
        IF n = 0 THEN <<>>
        ELSE IF n \in chosen THEN Append(kept[n - 1], s[n]) ELSE kept[n - 1]
  IN  kept[Len(s)]

\* Whether the track table is at its capacity with n tracks.
TableFull[n \in Nat] ==
  n \in {0, TRACKS_FIRST} \/ (n % 2 = 0 /\ TableFull[n \div 2])

\* tide_process_record for a record f at o that is no group, after on_record.  A
\* descriptor for which the table cannot grow is passed over, with status OK.
ProcessLeaf(f, o, lost, seen) ==
  LET returns(s) == [seen EXCEPT !.status = s]
      calls(callback) == Append(seen.events, [cb |-> callback, at |-> o])
  IN  CASE f.type = "SKIPPABLE" -> returns("OK")
        [] f.type = "UNKNOWN" -> returns("UNSUPPORTED")
        [] f.type \in SimpleType -> returns(tide_emit_simple_record(f, o, seen.tracks))
        [] f.type = "STREAM_DESC" ->
             IF StreamDescStatus(f.body) # "OK" THEN returns(StreamDescStatus(f.body))
             ELSE IF tide_find_track(seen.tracks, f.body.track) THEN returns("FORMAT")
             ELSE IF Len(seen.tracks) >= limits.max_tracks THEN returns("RESOURCE")
             ELSE IF o \in lost /\ TableFull[Len(seen.tracks)] THEN returns("OK")
             ELSE [seen EXCEPT !.tracks = Append(@, f.body.track),
                               !.events = calls("stream")]
        [] f.type = "PACKET" ->
             IF PacketStatus(f.body, seen.tracks) # "OK"
             THEN returns(PacketStatus(f.body, seen.tracks))
             ELSE [seen EXCEPT !.events = calls("packet")]

\* The arguments of tide_parse_records: it parses the records in cursor .. end - 1 at
\* the given depth, after what was seen before.
Calls(data) == [cursor: 0..data.size, end: 0..data.size, depth: Nat, seen: Parsed]

\* The loop of call a goes on after a record that ends at next, unless processing it,
\* which led to q, failed.
MovedTo(q, next, depth) ==
  [q EXCEPT !.valid_prefix = next, !.top = IF depth = 0 THEN next ELSE @]
NextCall(a, next, q) ==
  [cursor |-> next, end |-> a.end, depth |-> a.depth, seen |-> MovedTo(q, next, a.depth)]
Onward(parse, a, next, q) ==
  IF q.status # "OK" THEN q ELSE parse[NextCall(a, next, q)]

\* The call for the records in the GROUP f at the cursor of call a; when they end in
\* the middle of one the group is malformed. The depth is a natural: the cast to
\* uint8_t at decoder.c:659 changes it only when max_depth is 256 or more.
ChildCall(f, a, seen) ==
  [cursor |-> PayloadOffset(f, a.cursor) + TIDE_GROUP_META_SIZE,
   end |-> PayloadEnd(f, a.cursor), depth |-> a.depth + 1, seen |-> seen]
OutOfGroup(q) == IF q.status = "TRUNCATED" THEN [q EXCEPT !.status = "FORMAT"] ELSE q

\* tide_process_record for the record f at the cursor of call a, after on_record.
Process(parse, f, a, lost, seen) ==
  IF f.type # "GROUP" THEN ProcessLeaf(f, a.cursor, lost, seen)
  ELSE IF GroupStatus(f, a.depth) # "OK" THEN [seen EXCEPT !.status = GroupStatus(f, a.depth)]
  ELSE OutOfGroup(parse[ChildCall(f, a, seen)])

\* What call a returns, when its own calls return what parse says.
ParseCall(data, lost, parse, a) ==
  LET f == data.frame[a.cursor]
      check == CheckRecord(f, a.cursor, a.end)
      called == [a.seen EXCEPT !.events = Append(@, [cb |-> "record", at |-> a.cursor])]
  IN  IF a.cursor >= a.end
      THEN [a.seen EXCEPT !.status = IF a.cursor = a.end THEN "OK" ELSE "FORMAT"]
      ELSE IF check = "TRUNCATED"
      THEN [a.seen EXCEPT !.status = "TRUNCATED", !.valid_prefix = a.cursor]
      ELSE IF check # "OK" THEN [a.seen EXCEPT !.status = check]
      ELSE Onward(parse, a, CrcEnd(f, a.cursor), Process(parse, f, a, lost, called))

\* lost holds the offsets of the descriptors for which realloc fails.
tide_parse_records(data, lost) ==
  LET parse[a \in Calls(data)] == ParseCall(data, lost, parse, a)
  IN  parse

\* Before the first record, with valid_prefix n.
Unparsed(n) == [status |-> "OK", valid_prefix |-> n, tracks |-> <<>>, events |-> <<>>,
                top |-> n]

\* The records of the first size bytes of data.
ParseRecords(data, size, lost) ==
  tide_parse_records(data, lost)[[cursor |-> TIDE_HEADER_SIZE, end |-> size, depth |-> 0,
                                  seen |-> Unparsed(TIDE_HEADER_SIZE)]]

\* The first size bytes of data, parsed with end set.
ParseLosing(data, size, lost) ==
  LET header == tide_validate_header(data.header, size)
      parsed == IF header # "OK" THEN [Unparsed(0) EXCEPT !.status = header]
                ELSE ParseRecords(data, size, lost)
  IN  IF parsed.status = "TRUNCATED" THEN [parsed EXCEPT !.status = "PARTIAL"]
      ELSE parsed

\* The parse when every allocation succeeds.
tide_parse_tide_bytes(data, size) == ParseLosing(data, size, {})

=============================================================================
